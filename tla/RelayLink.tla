----------------------------- MODULE RelayLink ------------------------------
(***************************************************************************)
(* Relays: what a node keeps about them, and its links with them.          *)
(***************************************************************************)
EXTENDS Integers, FiniteSets, SequencesExt

-----------------------------------------------------------------------------
(***************************************************************************)
(* What a node keeps about other relays beside its connections             *)
(* (core/src/relay): the list of relays that peers exchange                *)
(* (peer_exchange.rs), the delegates it warms up before it goes to the     *)
(* background (delegate_prewarm.rs), the invitations it made and accepted  *)
(* (bootstrap.rs, invite.rs) and the beacons that wake a sleeping peer     *)
(* (findmy.rs).  All of them compare stamps with a wall clock that may be  *)
(* set back, in unsigned arithmetic that wraps.                            *)
(***************************************************************************)
CONSTANTS
    Relays,          \* ids of relays
    MAX_KNOWN,       \* max_known_peers
    PEER_TTL,        \* peer_ttl_secs
    MAX_OFFERED,     \* how many an exchange returns
    MAX_DELEGATES,   \* max_delegates
    STALE_TIMEOUT,   \* stale_timeout
    INVITE_VALID,    \* the life of an invitation
    BEACON_INTERVAL, \* broadcast_interval_secs
    WakeupHints,     \* recipient hints: [head : 0 .. 255, tail]
    Self,            \* our_id
    MaxDirTime,      \* bound on the clock
    MaxDirSteps      \* bound on the calls

ASSUME DirectoryAssumption ==
    /\ MAX_KNOWN \in Nat /\ PEER_TTL \in Nat \ {0} /\ MAX_OFFERED \in Nat
    /\ MAX_DELEGATES \in Nat /\ STALE_TIMEOUT \in Nat /\ INVITE_VALID \in Nat
    /\ BEACON_INTERVAL \in Nat \ {0} /\ MaxDirTime \in Nat /\ MaxDirSteps \in Nat
    /\ \A h \in WakeupHints : h.head \in 0 .. 255

VARIABLES
    known,       \* PeerExchangeManager::peers: relay -> [seen, score]
    peersOffered, \* what the last exchange returned
    delegates,   \* DelegatePrewarmManager::delegates
    warm,        \* warm_connections: relay -> [idle, registered]
    inviteOut,   \* an invitation on its way: its expires_at, or 0 for none
    joined,      \* an invitation was accepted
    invited,     \* InviteSystem::chain: the ids this node invited
    chain,       \* the trust chain being walked
    lastBeacon,  \* FindMyBeaconManager::last_broadcast
    findmyBeacon,      \* the beacon in the air, with the hint it is for
    dirTime, dirSteps

peerExchangeVars == <<known, peersOffered>>
prewarmVars == <<delegates, warm>>
inviteVars == <<inviteOut, joined, invited, chain>>
findmyVars == <<lastBeacon, findmyBeacon>>
directoryVars == <<peerExchangeVars, prewarmVars, inviteVars, findmyVars, dirTime, dirSteps>>

Silent == [on |-> FALSE]

DirectoryInit ==
    /\ known = <<>> /\ peersOffered = <<>>
    /\ delegates = <<>> /\ warm = <<>>
    /\ inviteOut = 0 /\ joined = FALSE /\ invited = {} /\ chain = <<>>
    /\ lastBeacon = 0 /\ findmyBeacon = Silent
    /\ dirTime = 0 /\ dirSteps = 0

DirCalled == dirSteps < MaxDirSteps /\ dirSteps' = dirSteps + 1

(* The difference of two u64, which wraps below zero.                      *)
WORD == 2 ^ 16
Since(t) == (dirTime - t) % WORD

(* A second passes, for the clock and for every warm connection.           *)
DirTick ==
    /\ DirCalled /\ dirTime < MaxDirTime
    /\ dirTime' = dirTime + 1
    /\ warm' = [r \in DOMAIN warm |-> [warm[r] EXCEPT !.idle = @ + 1]]
    /\ UNCHANGED <<peerExchangeVars, delegates, inviteVars, findmyVars>>

DirectoryClockSetBack ==
    /\ DirCalled /\ dirTime > 0
    /\ dirTime' = dirTime - 1
    /\ UNCHANGED <<peerExchangeVars, prewarmVars, inviteVars, findmyVars>>

-----------------------------------------------------------------------------
(* PeerExchangeManager.  Scores count in twentieths.                       *)

Entry(r, seen, score) == [relay |-> r, seen |-> seen, score |-> score]
Entries == {Entry(r, t, s) : r \in Relays, t \in {0, MaxDirTime}, s \in {20}}

(* Mutant: a list at its limit takes one more.                             *)
AddedLoose(list, e) ==
    IF e.relay \in DOMAIN list \/ Cardinality(DOMAIN list) <= MAX_KNOWN
    THEN [r \in DOMAIN list \cup {e.relay} |->
             IF r = e.relay THEN [seen |-> e.seen, score |-> e.score] ELSE list[r]]
    ELSE list

(* add_peer: a known relay is replaced, a new one refused at the limit.    *)
PeerAdded(list, e) ==
    IF e.relay \in DOMAIN list \/ Cardinality(DOMAIN list) < MAX_KNOWN
    THEN [r \in DOMAIN list \cup {e.relay} |->
             IF r = e.relay THEN [seen |-> e.seen, score |-> e.score] ELSE list[r]]
    ELSE list

AddNewPeer(r) ==
    /\ DirCalled
    /\ known' = PeerAdded(known, Entry(r, dirTime, 10))
    /\ UNCHANGED <<peersOffered, prewarmVars, inviteVars, findmyVars, dirTime>>

(* get_peers_by_reliability: equal scores in the order of a hash map.      *)
ByReliability(list) ==
    {s \in SetToSeqs(DOMAIN list) : \A i, j \in DOMAIN s : i < j => list[s[i]].score >= list[s[j]].score}

(* exchange_peers takes the other side's list as it comes, stamps ahead of *)
(* this clock included, and answers with the best it knows.                *)
ExchangePeers(incoming) ==
    /\ DirCalled
    /\ known' = FoldLeft(PeerAdded, known, incoming)
    /\ \E s \in ByReliability(known') :
          peersOffered' = SubSeq(s, 1, IF Len(s) < MAX_OFFERED THEN Len(s) ELSE MAX_OFFERED)
    /\ UNCHANGED <<prewarmVars, inviteVars, findmyVars, dirTime>>

(* Mutant: the comparison is the wrong way round.                          *)
PruneStaleSwapped ==
    /\ DirCalled
    /\ known' = [r \in {x \in DOMAIN known : Since(known[x].seen) >= PEER_TTL} |-> known[r]]
    /\ UNCHANGED <<peersOffered, prewarmVars, inviteVars, findmyVars, dirTime>>

PruneStale ==
    /\ DirCalled
    /\ known' = [r \in {x \in DOMAIN known : Since(known[x].seen) < PEER_TTL} |-> known[r]]
    /\ UNCHANGED <<peersOffered, prewarmVars, inviteVars, findmyVars, dirTime>>

ReachedPeer(r, ok) ==
    /\ DirCalled /\ r \in DOMAIN known
    /\ known' = [known EXCEPT ![r] =
           IF ok THEN [seen |-> dirTime, score |-> IF @.score > 19 THEN 20 ELSE @.score + 1]
           ELSE [@ EXCEPT !.score = IF @ < 2 THEN 0 ELSE @ - 2]]
    /\ UNCHANGED <<peersOffered, prewarmVars, inviteVars, findmyVars, dirTime>>

ForgetPeers ==
    /\ DirCalled /\ known # <<>>
    /\ known' = <<>>
    /\ UNCHANGED <<peersOffered, prewarmVars, inviteVars, findmyVars, dirTime>>

-----------------------------------------------------------------------------
(* DelegatePrewarmManager.  Reliability counts in tenths.                  *)

(* DelegateInfo: a new one has the default reliability.                    *)
NewDelegate(r, headless, full) == [relay |-> r, reliability |-> 8, headless |-> headless, full |-> full]
Rating(d) == d.reliability + (IF d.headless THEN 2 ELSE 0)

AddDelegate(d) ==
    /\ DirCalled
    /\ delegates' = Append(delegates, d)
    /\ UNCHANGED <<peerExchangeVars, warm, inviteVars, findmyVars, dirTime>>

(* select_best_delegates: a stable sort of those with room; a delegate     *)
(* added twice takes two of the places.                                    *)
BestDelegates ==
    LET fit == SelectSeq(delegates, LAMBDA d : ~d.full)
        best == SortSeq([i \in DOMAIN fit |-> [d |-> fit[i], at |-> i]],
                        LAMBDA x, y : \/ Rating(x.d) > Rating(y.d)
                                      \/ Rating(x.d) = Rating(y.d) /\ x.at < y.at)
    IN {best[i].d.relay : i \in {j \in DOMAIN best : j <= MAX_DELEGATES}}

(* prewarm_for_background: the registration queue it fills is empty again  *)
(* when it returns.                                                        *)
PrewarmForBackground ==
    /\ DirCalled
    /\ warm' = [r \in DOMAIN warm \cup BestDelegates |->
                  IF r \in DOMAIN warm THEN warm[r] ELSE [idle |-> 0, registered |-> TRUE]]
    /\ UNCHANGED <<peerExchangeVars, delegates, inviteVars, findmyVars, dirTime>>

(* tick: nothing ever renews last_keepalive.                               *)
PrewarmTick ==
    /\ DirCalled
    /\ warm' = [r \in {x \in DOMAIN warm : warm[x].idle <= STALE_TIMEOUT} |-> warm[r]]
    /\ UNCHANGED <<peerExchangeVars, delegates, inviteVars, findmyVars, dirTime>>

-----------------------------------------------------------------------------
(* BootstrapManager and InviteSystem                                       *)

GenerateInvite ==
    /\ DirCalled /\ inviteOut' = dirTime + INVITE_VALID
    /\ UNCHANGED <<joined, invited, chain, peerExchangeVars, prewarmVars, findmyVars, dirTime>>

(* accept_invite, parse_qr_data                                            *)
AcceptInvite ==
    /\ DirCalled /\ dirTime < inviteOut
    /\ joined' = TRUE
    /\ UNCHANGED <<inviteOut, invited, chain, peerExchangeVars, prewarmVars, findmyVars, dirTime>>

(* record_invitation takes any id, this node's own included.               *)
RecordInvitation(r) ==
    /\ DirCalled /\ invited' = invited \cup {r}
    /\ UNCHANGED <<inviteOut, joined, chain, peerExchangeVars, prewarmVars, findmyVars, dirTime>>

(* Mutant: the inviter of an id that was not invited is this node too.     *)
InviterOfAnyone(r) == {Self}

(* get_inviter: every entry of the chain names this node as the inviter.   *)
InviterOf(r) == IF r \in invited THEN {Self} ELSE {}

(* get_trust_chain walks from inviter to inviter until it finds none.      *)
StartChain(r) ==
    /\ DirCalled /\ chain = <<>>
    /\ chain' = <<r>>
    /\ UNCHANGED <<inviteOut, joined, invited, peerExchangeVars, prewarmVars, findmyVars, dirTime>>

ExtendChain ==
    /\ DirCalled /\ chain # <<>>
    /\ IF InviterOf(Last(chain)) # {}
       THEN \E i \in InviterOf(Last(chain)) : chain' = Append(chain, i)
       ELSE chain' = <<>>
    /\ UNCHANGED <<inviteOut, joined, invited, peerExchangeVars, prewarmVars, findmyVars, dirTime>>

-----------------------------------------------------------------------------
(* Find My beacons                                                         *)

(* encode_wakeup: the flag takes the top bit of the hint's first byte.     *)
EncodeWakeup(hint, available) ==
    [head |-> (IF available THEN 128 ELSE 0) + (hint.head % 128), tail |-> hint.tail]

(* is_our_wakeup: what decode_wakeup makes of a beacon, compared whole.    *)
IsOurWakeup(data, ours) == data.head % 128 = ours.head /\ data.tail = ours.tail

(* Mutant: a difference that wraps is not noticed, and neither is a short  *)
(* one.                                                                    *)
BeaconDueEarly == Since(lastBeacon) >= BEACON_INTERVAL - 1

BeaconDue == Since(lastBeacon) >= BEACON_INTERVAL

(* should_broadcast, generate_beacon                                       *)
BroadcastBeacon(hint, available) ==
    /\ DirCalled /\ BeaconDue
    /\ lastBeacon' = dirTime
    /\ findmyBeacon' = [on |-> TRUE, for |-> hint, available |-> available, data |-> EncodeWakeup(hint, available)]
    /\ UNCHANGED <<peerExchangeVars, prewarmVars, inviteVars, dirTime>>

DirectoryNext ==
    \/ DirTick \/ DirectoryClockSetBack \/ PruneStale \/ ForgetPeers
    \/ \E r \in Relays \ {Self} : AddNewPeer(r) \/ StartChain(r)
    \/ \E r \in Relays : RecordInvitation(r)
    \/ \E a, b \in Entries : a.relay # b.relay /\ ExchangePeers(<<a, b>>)
    \/ \E r \in Relays \ {Self}, ok \in BOOLEAN : ReachedPeer(r, ok)
    \/ \E r \in Relays \ {Self}, headless, full \in BOOLEAN : (full => headless) /\ AddDelegate(NewDelegate(r, headless, full))
    \/ PrewarmForBackground \/ PrewarmTick
    \/ GenerateInvite \/ AcceptInvite \/ ExtendChain
    \/ \E h \in WakeupHints, available \in BOOLEAN : BroadcastBeacon(h, available)

DirectorySpec == DirectoryInit /\ [][DirectoryNext]_directoryVars

-----------------------------------------------------------------------------
DirectoryTypeOK ==
    /\ DOMAIN known \subseteq Relays
    /\ \A r \in DOMAIN known : known[r].seen \in 0 .. MaxDirTime /\ known[r].score \in 0 .. 20
    /\ ToSet(peersOffered) \subseteq Relays
    /\ \A i \in DOMAIN delegates : delegates[i].relay \in Relays
    /\ DOMAIN warm \subseteq {delegates[i].relay : i \in DOMAIN delegates}
    /\ invited \subseteq Relays /\ joined \in BOOLEAN
    /\ lastBeacon \in 0 .. MaxDirTime /\ dirTime \in 0 .. MaxDirTime /\ dirSteps \in 0 .. MaxDirSteps

(* The list of relays keeps to its limit, and merging a list never costs a *)
(* known relay its place: one leaves only when all do, when its stamp is   *)
(* as old as the ttl, or when the clock is behind its stamp, which the     *)
(* difference without a sign takes for an old one (prune_stale).           *)
KnownKept ==
    /\ Cardinality(DOMAIN known') <= MAX_KNOWN
    /\ \A r \in DOMAIN known \ DOMAIN known' :
          \/ known' = <<>>
          \/ dirTime - known[r].seen >= PEER_TTL
          \/ dirTime < known[r].seen

(* A delegate with room stays cold through a warm-up only behind           *)
(* max_delegates entries that are rated no worse                           *)
(* (select_best_delegates).                                                *)
ColdOnlyIfOutranked ==
    DOMAIN warm # DOMAIN warm' /\ DOMAIN warm \subseteq DOMAIN warm' =>
        \A i \in DOMAIN delegates :
            ~delegates[i].full /\ delegates[i].relay \notin DOMAIN warm' =>
                Cardinality({j \in DOMAIN delegates :
                    /\ ~delegates[j].full /\ delegates[j].relay \in DOMAIN warm'
                    /\ Rating(delegates[j]) >= Rating(delegates[i])}) >= MAX_DELEGATES

(* get_trust_chain ends after one inviter, unless this node has recorded   *)
(* an invitation of itself: then it never does.                            *)
ChainsEnd == Self \in invited \/ Len(chain) <= 2

(* Two beacons are an interval apart by the clock, unless it was set back; *)
(* a beacon is recognised by the peer it is for and by no other as long as *)
(* the first bytes of their hints are below 128 (encode_wakeup).           *)
BeaconsSound ==
    /\ lastBeacon' # lastBeacon =>
          dirTime - lastBeacon >= BEACON_INTERVAL \/ dirTime < lastBeacon
    /\ findmyBeacon.on => \A h \in WakeupHints :
          h.head < 128 /\ findmyBeacon.for.head < 128 => (IsOurWakeup(findmyBeacon.data, h) <=> h = findmyBeacon.for)

-----------------------------------------------------------------------------
(***************************************************************************)
(* A relay client and the relay server it stores envelopes with            *)
(* (core/src/relay/client.rs, server.rs).  A request and its answer travel *)
(* over one TCP stream under the stream's mutex; answers carry nothing     *)
(* that names their request.  A call that times out gives the mutex up and *)
(* leaves its answer in the stream.  Only a connection made over TCP has a *)
(* stream: QUIC and WebSocket are tried when TCP fails.                    *)
(***************************************************************************)
CONSTANTS
    LinkTasks,          \* tasks that call push_envelopes and pull_envelopes
    MaxStoredPerPeer,   \* max_stored_per_peer
    MaxServed,          \* max_connections of the server
    RelayPeers,         \* peers registered with the server; "me" is this client
    MaxEnvelopes,       \* bound on the envelopes pushed
    MaxPulls,           \* bound on the pulls and pings
    MaxLinkConnects,    \* bound on the connections made
    MaxLinkClock        \* bound on the seconds that pass

ASSUME RelayLinkAssumption ==
    /\ MaxStoredPerPeer \in Nat /\ MaxEnvelopes \in Nat /\ MaxPulls \in Nat
    /\ MaxServed \in Nat /\ "me" \in RelayPeers
    /\ MaxLinkConnects \in Nat /\ MaxLinkClock \in Nat

VARIABLES
    relayConns,   \* connections: the transport of each
    socketOf,     \* the stream of the relay's address in sockets, 0 for none
    streams,      \* per stream: requests under way, answers under way, who has the mutex
    dialled,      \* the connection connect returned and add_connection has not added
    linkTask,     \* per task: what it does
    stored,       \* the server's queue for the peer
    sessions,     \* the server's sessions: per peer, its state
    linkClock,
    pushed,       \* envelopes pushed so far
    pulled,       \* pulls and pings so far
    got,          \* per envelope: how often a call returned it (history)
    timedOut,     \* a call timed out (history)
    crossed       \* a call returned another call's answer (history)

linkVars == <<relayConns, socketOf, streams, dialled, linkTask, stored, sessions, linkClock, pushed,
              pulled, got, timedOut, crossed>>

Envelopes == 1 .. MaxEnvelopes
Transports == {"Tcp", "Quic", "WebSocket"}
IdleTask == [at |-> "idle"]

LinkTypeOK ==
    /\ relayConns \in Seq(Transports) /\ socketOf \in 0 .. Len(streams)
    /\ \A s \in 1 .. Len(streams) : streams[s].owner \in LinkTasks \cup {"none"}
    /\ DOMAIN linkTask = LinkTasks
    /\ \A i \in 1 .. Len(stored) : stored[i].env \in Envelopes /\ stored[i].at \in 0 .. linkClock
    /\ Len(stored) <= MaxStoredPerPeer
    /\ sessions \in [RelayPeers -> {"none", "Connecting", "Connected"}]
    /\ pulled \in 0 .. MaxPulls /\ linkClock \in 0 .. MaxLinkClock /\ pushed \in 0 .. MaxEnvelopes
    /\ got \in [Envelopes -> Nat] /\ timedOut \in BOOLEAN /\ crossed \in BOOLEAN

LinkInit ==
    /\ relayConns = <<>> /\ socketOf = 0 /\ streams = <<>> /\ dialled = "none"
    /\ linkTask = [t \in LinkTasks |-> IdleTask]
    /\ sessions = [p \in RelayPeers |-> "none"]
    /\ stored = <<>> /\ linkClock = 0 /\ pushed = 0 /\ pulled = 0
    /\ got = [e \in Envelopes |-> 0] /\ timedOut = FALSE /\ crossed = FALSE

-----------------------------------------------------------------------------
(* register_peer: at its limit the server refuses a peer it already serves *)
(* too.  complete_handshake follows within the same exchange.              *)
ServedPeers == {p \in RelayPeers : sessions[p] # "none"}

RegisterPeer(p) ==
    /\ Cardinality(ServedPeers) < MaxServed
    /\ sessions' = [sessions EXCEPT ![p] = "Connected"]

OtherRegisters(p) ==
    /\ RegisterPeer(p) /\ sessions[p] = "none"
    /\ UNCHANGED <<relayConns, socketOf, streams, dialled, linkTask, stored, linkClock, pushed, pulled, got, timedOut, crossed>>

(* remove_peer: what is stored for the peer stays.                         *)
RemovePeer(p) ==
    /\ sessions[p] # "none" /\ sessions' = [sessions EXCEPT ![p] = "none"]
    /\ UNCHANGED <<relayConns, socketOf, streams, dialled, linkTask, stored, linkClock, pushed, pulled, got, timedOut, crossed>>

(* complete_handshake: an answer of another version or kind is an error.   *)
CompleteHandshake(transport) == RegisterPeer("me") /\ dialled' = transport

(* connect_tcp: once the handshake is complete the new stream takes the    *)
(* place of the address's old one.                                         *)
ConnectTcp ==
    /\ CompleteHandshake("Tcp")
    /\ streams' = Append(streams, [requests |-> <<>>, answers |-> <<>>, owner |-> "none"])
    /\ socketOf' = Len(streams) + 1

(* connect_quic and connect_websocket shake hands over a connection that   *)
(* no later call uses.                                                     *)
ConnectQuic ==
    /\ CompleteHandshake("Quic")
    /\ UNCHANGED <<streams, socketOf>>

ConnectWebSocket ==
    /\ CompleteHandshake("WebSocket")
    /\ UNCHANGED <<streams, socketOf>>

(* connect tries TCP, then QUIC, then a WebSocket; any of them may fail.   *)
(* The caller adds the connection later.                                   *)
ConnectRelay ==
    /\ dialled = "none" /\ Len(relayConns) < MaxLinkConnects /\ Len(streams) < MaxLinkConnects
    /\ ConnectTcp \/ ConnectQuic \/ ConnectWebSocket
    /\ UNCHANGED <<relayConns, linkTask, stored, linkClock, pushed, pulled, got, timedOut, crossed>>

(* Calls read the connections for as long as they run: a writer waits.     *)
NoCallRuns == \A t \in LinkTasks : linkTask[t] = IdleTask

AddConnection ==
    /\ dialled # "none" /\ NoCallRuns
    /\ relayConns' = Append(relayConns, dialled) /\ dialled' = "none"
    /\ UNCHANGED <<socketOf, streams, linkTask, stored, sessions, linkClock, pushed, pulled, got, timedOut, crossed>>

RemoveConnection ==
    /\ relayConns # <<>> /\ NoCallRuns
    /\ relayConns' = <<>> /\ socketOf' = 0
    /\ UNCHANGED <<streams, dialled, linkTask, stored, sessions, linkClock, pushed, pulled, got, timedOut, crossed>>

(* push_envelopes and pull_envelopes up to the mutex of the stream; a call *)
(* without a connection or without a stream fails at once.                 *)
PushEnvelope(t) ==
    /\ linkTask[t] = IdleTask /\ relayConns # <<>> /\ socketOf # 0 /\ pushed < MaxEnvelopes
    /\ pushed' = pushed + 1
    /\ linkTask' = [linkTask EXCEPT ![t] =
                      [at |-> "mutex", stream |-> socketOf, ask |-> [kind |-> "store", env |-> pushed + 1, by |-> t]]]
    /\ UNCHANGED <<relayConns, socketOf, streams, dialled, stored, sessions, linkClock, pulled, got, timedOut, crossed>>

PullEnvelopes(t, since) ==
    /\ linkTask[t] = IdleTask /\ relayConns # <<>> /\ socketOf # 0 /\ pulled < MaxPulls
    /\ pulled' = pulled + 1
    /\ linkTask' = [linkTask EXCEPT ![t] =
                      [at |-> "mutex", stream |-> socketOf, ask |-> [kind |-> "pull", since |-> since, by |-> t]]]
    /\ UNCHANGED <<relayConns, socketOf, streams, dialled, stored, sessions, linkClock, pushed, got, timedOut, crossed>>

(* send_ping asks over the same streams.                                   *)
SendPing(t) ==
    /\ linkTask[t] = IdleTask /\ relayConns # <<>> /\ socketOf # 0 /\ pulled < MaxPulls
    /\ pulled' = pulled + 1
    /\ linkTask' = [linkTask EXCEPT ![t] =
                      [at |-> "mutex", stream |-> socketOf, ask |-> [kind |-> "ping", by |-> t]]]
    /\ UNCHANGED <<relayConns, socketOf, streams, dialled, stored, sessions, linkClock, pushed, got, timedOut, crossed>>

(* Mutant: the mutex is not held between writing and reading.              *)
SendRawUnlocked(t) ==
    LET s == linkTask[t].stream IN
    /\ linkTask[t].at = "mutex"
    /\ streams' = [streams EXCEPT ![s].requests = Append(@, linkTask[t].ask), ![s].owner = t]
    /\ linkTask' = [linkTask EXCEPT ![t].at = "answer"]
    /\ UNCHANGED <<relayConns, socketOf, dialled, stored, sessions, linkClock, pushed, pulled, got, timedOut, crossed>>

(* send_and_receive_raw: take the mutex and write.                         *)
SendRaw(t) ==
    LET s == linkTask[t].stream IN
    /\ linkTask[t].at = "mutex" /\ streams[s].owner = "none"
    /\ streams' = [streams EXCEPT ![s].requests = Append(@, linkTask[t].ask), ![s].owner = t]
    /\ linkTask' = [linkTask EXCEPT ![t].at = "answer"]
    /\ UNCHANGED <<relayConns, socketOf, dialled, stored, sessions, linkClock, pushed, pulled, got, timedOut, crossed>>

(* store_for_peer                                                          *)
ServeStore(s) ==
    LET q == streams[s].requests[1] IN
    /\ streams[s].requests # <<>> /\ q.kind = "store"
    /\ stored' = IF Len(stored) >= MaxStoredPerPeer THEN stored
                 ELSE Append(stored, [env |-> q.env, at |-> linkClock])
    /\ streams' = [streams EXCEPT ![s].requests = Tail(@),
                                  ![s].answers = Append(@, [kind |-> "store", to |-> q.by, envs |-> {}])]
    /\ UNCHANGED <<relayConns, socketOf, dialled, linkTask, sessions, linkClock, pushed, pulled, got, timedOut, crossed>>

(* get_stored_for: the queue is emptied, of the envelopes older than since *)
(* too.                                                                    *)
ServePull(s) ==
    LET q == streams[s].requests[1] IN
    /\ streams[s].requests # <<>> /\ q.kind = "pull"
    /\ stored' = <<>>
    /\ streams' = [streams EXCEPT ![s].requests = Tail(@),
                                  ![s].answers = Append(@, [kind |-> "pull", to |-> q.by,
                                     envs |-> {stored[i].env : i \in {i \in 1 .. Len(stored) : stored[i].at >= q.since}}])]
    /\ UNCHANGED <<relayConns, socketOf, dialled, linkTask, sessions, linkClock, pushed, pulled, got, timedOut, crossed>>

ServePing(s) ==
    LET q == streams[s].requests[1] IN
    /\ streams[s].requests # <<>> /\ q.kind = "ping"
    /\ streams' = [streams EXCEPT ![s].requests = Tail(@),
                                  ![s].answers = Append(@, [kind |-> "ping", to |-> q.by, envs |-> {}])]
    /\ UNCHANGED <<relayConns, socketOf, dialled, linkTask, stored, sessions, linkClock, pushed, pulled, got, timedOut, crossed>>

(* The call reads the next answer of the stream; one of the wrong kind is  *)
(* an error, and what it carried is dropped.                               *)
ReadAnswer(t) ==
    LET s == linkTask[t].stream
        a == streams[s].answers[1]
        ok == a.kind = linkTask[t].ask.kind IN
    /\ linkTask[t].at = "answer" /\ streams[s].answers # <<>>
    /\ streams' = [streams EXCEPT ![s].answers = Tail(@), ![s].owner = "none"]
    /\ linkTask' = [linkTask EXCEPT ![t] = IdleTask]
    /\ got' = [e \in Envelopes |-> IF ok /\ e \in a.envs THEN got[e] + 1 ELSE got[e]]
    /\ crossed' = (crossed \/ (ok /\ a.to # t))
    /\ UNCHANGED <<relayConns, socketOf, dialled, stored, sessions, linkClock, pushed, pulled, timedOut>>

IoTimeout(t) ==
    /\ linkTask[t].at = "answer"
    /\ streams' = [streams EXCEPT ![linkTask[t].stream].owner = "none"]
    /\ linkTask' = [linkTask EXCEPT ![t] = IdleTask]
    /\ timedOut' = TRUE
    /\ UNCHANGED <<relayConns, socketOf, dialled, stored, sessions, linkClock, pushed, pulled, got, crossed>>

(* cleanup_expired, after any time to live.                                *)
CleanupExpired ==
    \E cutoff \in 0 .. linkClock :
        /\ stored' = SelectSeq(stored, LAMBDA x : x.at >= cutoff) /\ stored' # stored
        /\ UNCHANGED <<relayConns, socketOf, streams, dialled, linkTask, sessions, linkClock, pushed, pulled, got, timedOut, crossed>>

LinkSecond ==
    /\ linkClock < MaxLinkClock /\ linkClock' = linkClock + 1
    /\ UNCHANGED <<relayConns, socketOf, streams, dialled, linkTask, stored, sessions, pushed, pulled, got, timedOut, crossed>>

LinkNext ==
    \/ ConnectRelay
    \/ \E p \in RelayPeers \ {"me"} : OtherRegisters(p)
    \/ \E p \in RelayPeers : RemovePeer(p)
    \/ AddConnection \/ RemoveConnection \/ CleanupExpired \/ LinkSecond
    \/ \E t \in LinkTasks : \/ PushEnvelope(t) \/ SendPing(t) \/ SendRaw(t) \/ ReadAnswer(t) \/ IoTimeout(t)
                            \/ \E since \in 0 .. linkClock : PullEnvelopes(t, since)
    \/ \E s \in 1 .. Len(streams) : ServeStore(s) \/ ServePull(s) \/ ServePing(s)

LinkSpec == LinkInit /\ [][LinkNext]_linkVars

-----------------------------------------------------------------------------
(* Answers name no request, so a call relies on the mutex of its stream:   *)
(* as long as no call has timed out, no call returns the answer to another *)
(* one's request, over whichever stream it runs.                           *)
AnswersMatch == crossed => timedOut

(* An envelope is returned at most once, whatever calls overlap, time out  *)
(* or change streams: the server empties the queue with every pull.        *)
EnvelopeReturnedOnce == \A e \in Envelopes : got[e] <= 1

(* Calls that share and change streams to the relay server take each       *)
(* other's answers only after a timeout, and never get an envelope twice.  *)
(* Beside them the list of relays keeps its limit and its entries, warm-up *)
(* takes the best delegates, trust chains end and beacons are paced,       *)
(* whatever the clock does.                                                *)
LinkSound ==
    [][\/ UNCHANGED <<linkVars, directoryVars>>
       \/ /\ (AnswersMatch /\ EnvelopeReturnedOnce /\ ChainsEnd)'
          /\ KnownKept /\ ColdOnlyIfOutranked /\ BeaconsSound]_<<linkVars, directoryVars>>
=============================================================================
