------------------------------ MODULE WasmNode ------------------------------
(***************************************************************************)
(* The browser build: the IronCore object of wasm/src/lib.rs, the swarm    *)
(* loop of core/src/transport/swarm.rs for wasm32, and the event loop that *)
(* feeds received messages to JavaScript.  Everything runs on one thread;  *)
(* the loops and the calls interleave where they await.                    *)
(*                                                                         *)
(* Stopping the swarm takes the shared handle and queues a Shutdown; its   *)
(* loop and then its event loop end later, after the application may have  *)
(* started another swarm.                                                  *)
(***************************************************************************)
EXTENDS Integers, Sequences, FiniteSets

CONSTANTS
    WebPeers,
    WebMessages,       \* envelopes peers send to this node
    RelayedMessages,   \* envelopes peers hand over for custody
    EventCapacity,     \* of the event channel (100 in the code)
    RelayHourBudget,
    MaxSwarms,         \* bound on the swarms ever started
    MaxWebCalls,          \* bound on the requests ever sent
    MaxUserSteps,      \* bound on settings changes and connections lost
    BootAddrs,         \* bootstrap addresses, in order: [peer, at, text], where peer is
                       \* the /p2p/ component or "none" and at the peer that answers
    LocalId,           \* this node's own peer id
    AddrContains,          \* <<s, t>>: the ip and the port of s occur in the text of t
    BACKOFF_MAX,       \* in units of the initial backoff, one minute
    MaxBrowseTime,     \* bound on the clock
    MaxLosses          \* bound on the connections lost

Swarms == 1..MaxSwarms
CallKinds == {"direct", "register", "reflect"}

ASSUME WasmAssumption ==
    /\ EventCapacity \in Nat \ {0} /\ MaxSwarms \in Nat \ {0} /\ MaxWebCalls \in Nat
    /\ BACKOFF_MAX \in Nat \ {0}
    /\ RelayedMessages \cap CallKinds = {}

VARIABLES
    webHandle,       \* swarm_handle: a swarm, or 0
    swarmsMade,
    loops,        \* swarms whose loop runs
    feeds,        \* swarms whose event loop runs
    stopping,     \* swarms with a queued Shutdown
    webLinks,     \* connected peers of each swarm
    webInFlight,     \* libp2p requests: [id, swarm, kind, peer]
    replies,      \* ids in pending_direct_replies, pending_registration_replies,
                  \* pending_reflections and pending_custody_dispatches
    callers,      \* ids a call of the application awaits
    webCustody,   \* relay_custody_store of each swarm: message -> state
    relayedCount, \* relay_count_this_hour of each swarm
    events,       \* event channel of each swarm
    rxMessages,
    participating,\* settings.relay_enabled, and drift_active
    \* observation
    acknowledged, \* messages answered with accepted
    ignoredMail,  \* of these, dropped by the event loop while participation was off
    refusedMail,  \* of these, refused by the core's receive_message
    userSteps

dropVars == <<ignoredMail, refusedMail>>
wasmVars == <<webHandle, swarmsMade, loops, feeds, stopping, webLinks, webInFlight, replies,
              callers, webCustody, relayedCount, events, rxMessages, participating,
              acknowledged, dropVars, userSteps>>

(* The bootstrap connections of one swarm, as its loop sees them.          *)
VARIABLES
    bootConns,      \* connections to each peer
    bootDials,      \* addresses being dialled
    bootBackoff,    \* bootstrap_backoff: address -> [wait, next], or no entry
    browseNow,      \* the clock, in minutes
    redialAt,       \* last_bootstrap_redial
    metPeers,       \* reported_peer_discoveries
    shownPeers,     \* peers the application was told of and not told the loss of
    webExchanged,      \* ledger_exchanged_peers
    \* observation
    ledgersSent,    \* ledger requests sent to a peer since its last connection closed
    failRun,        \* failures of an address since a peer it names or leads to connected
    failedAt, dialledAt,
    partedFrom,     \* peers a connection was lost to
    losses

browseVars == <<bootConns, bootDials, bootBackoff, browseNow, redialAt, metPeers, shownPeers,
                webExchanged, ledgersSent, failRun, failedAt, dialledAt, partedFrom, losses>>

Ids == {r.id : r \in webInFlight}
CustodyStates == {"absent", "accepted", "dispatching", "delivered"}

WasmTypeOK ==
    /\ webHandle \in Swarms \cup {0} /\ swarmsMade \in 0..MaxSwarms
    /\ loops \subseteq Swarms /\ feeds \subseteq Swarms /\ stopping \subseteq Swarms
    /\ webLinks \in [Swarms -> SUBSET WebPeers]
    /\ webInFlight \subseteq [id : 1..MaxWebCalls, swarm : Swarms, peer : WebPeers,
                           kind : CallKinds \cup RelayedMessages]
    /\ replies \subseteq 1..MaxWebCalls /\ callers \subseteq 1..MaxWebCalls
    /\ webCustody \in [Swarms -> [RelayedMessages -> CustodyStates]]
    /\ relayedCount \in [Swarms -> 0..RelayHourBudget]
    /\ \A s \in Swarms : Len(events[s]) <= EventCapacity
    /\ rxMessages \subseteq WebMessages
    /\ participating \in BOOLEAN /\ userSteps \in 0..MaxUserSteps
    /\ acknowledged \subseteq WebMessages \cup RelayedMessages
    /\ ignoredMail \subseteq WebMessages /\ refusedMail \subseteq WebMessages

WasmInit ==
    /\ webHandle = 0 /\ swarmsMade = 0 /\ loops = {} /\ feeds = {} /\ stopping = {}
    /\ webLinks = [s \in Swarms |-> {}]
    /\ webInFlight = {} /\ replies = {} /\ callers = {}
    /\ webCustody = [s \in Swarms |-> [m \in RelayedMessages |-> "absent"]]
    /\ relayedCount = [s \in Swarms |-> 0]
    /\ events = [s \in Swarms |-> <<>>] /\ rxMessages = {}
    /\ participating = TRUE
    /\ acknowledged = {} /\ ignoredMail = {} /\ refusedMail = {} /\ userSteps = 0

UserStep == userSteps < MaxUserSteps /\ userSteps' = userSteps + 1

-----------------------------------------------------------------------------
(* startSwarm / startReceiveLoop: refused while a handle is set.           *)
StartRuntime ==
    /\ webHandle = 0 /\ swarmsMade < MaxSwarms
    /\ swarmsMade' = swarmsMade + 1
    /\ webHandle' = swarmsMade + 1
    /\ loops' = loops \cup {swarmsMade + 1}
    /\ feeds' = feeds \cup {swarmsMade + 1}
    /\ UNCHANGED <<stopping, webLinks, webInFlight, replies, callers, webCustody, relayedCount,
                   events, rxMessages, participating, acknowledged, dropVars, userSteps>>

(* stopSwarm *)
StopRuntime ==
    /\ webHandle # 0
    /\ stopping' = stopping \cup {webHandle}
    /\ webHandle' = 0
    /\ UNCHANGED <<swarmsMade, loops, feeds, webLinks, webInFlight, replies, callers, webCustody,
                   relayedCount, events, rxMessages, participating, acknowledged,
                   dropVars, userSteps>>

CallsOn(s) == {r.id : r \in {q \in webInFlight : q.swarm = s}}

(* The loop breaks on Shutdown, or when the last sender of its commands is *)
(* dropped: the shared handle or the clone of a call.  Its maps, its       *)
(* in-memory custody and its connections go, never to be read again; the   *)
(* callers get an error.                                                   *)
LoopEnds(s) ==
    /\ s \in loops
    /\ s \in stopping \/ (webHandle # s /\ callers \cap CallsOn(s) = {})
    /\ loops' = loops \ {s}
    /\ stopping' = stopping \ {s}
    /\ webLinks' = [webLinks EXCEPT ![s] = {}]
    /\ webInFlight' = {r \in webInFlight : r.swarm # s}
    /\ replies' = replies \ CallsOn(s)
    /\ callers' = callers \ CallsOn(s)
    /\ UNCHANGED <<webHandle, swarmsMade, feeds, webCustody, relayedCount, events, rxMessages,
                   participating, acknowledged, dropVars, userSteps>>

(* MessageReceived in the event loop: dropped while participation is off,  *)
(* and when the core refuses it (blocked, repeated, not decrypted).  The   *)
(* sender has its answer by then.                                          *)
FeedMessage(s) ==
    /\ s \in feeds /\ events[s] # <<>>
    /\ events' = [events EXCEPT ![s] = Tail(@)]
    /\ \/ /\ ~participating
          /\ ignoredMail' = ignoredMail \cup {Head(events[s])}
          /\ UNCHANGED <<rxMessages, refusedMail>>
       \/ /\ participating
          /\ rxMessages' = rxMessages \cup {Head(events[s])}
          /\ UNCHANGED dropVars
       \/ /\ participating
          /\ refusedMail' = refusedMail \cup {Head(events[s])}
          /\ UNCHANGED <<rxMessages, ignoredMail>>
    /\ UNCHANGED <<webHandle, swarmsMade, loops, feeds, stopping, webLinks, webInFlight, replies,
                   callers, webCustody, relayedCount, participating, acknowledged, userSteps>>

(* The event channel is closed and empty: the event loop clears the shared *)
(* handle, whichever swarm it belongs to by now.                           *)
FeedEnds(s) ==
    /\ s \in feeds \ loops /\ events[s] = <<>>
    /\ feeds' = feeds \ {s}
    /\ webHandle' = 0
    /\ UNCHANGED <<swarmsMade, loops, stopping, webLinks, webInFlight, replies, callers,
                   webCustody, relayedCount, events, rxMessages, participating,
                   acknowledged, dropVars, userSteps>>

(* updateSettings *)
UpdateWebSettings(on) ==
    /\ UserStep /\ participating # on
    /\ participating' = on
    /\ UNCHANGED <<webHandle, swarmsMade, loops, feeds, stopping, webLinks, webInFlight, replies,
                   callers, webCustody, relayedCount, events, rxMessages, acknowledged,
                   dropVars>>

-----------------------------------------------------------------------------
(* Requests.  An id is fresh among the ids something still refers to.      *)
NextId == IF callers \cup replies \cup Ids = {} THEN 1
          ELSE 1 + CHOOSE n \in callers \cup replies \cup Ids :
                      \A k \in callers \cup replies \cup Ids : k <= n

(* sendPreparedEnvelope, registration and address reflection: the command  *)
(* reaches the loop, which sends the request and keeps the reply channel.  *)
CallSwarm(kind, p) ==
    /\ webHandle \in loops
    /\ kind = "direct" => participating
    /\ NextId <= MaxWebCalls
    /\ webInFlight' = webInFlight \cup {[id |-> NextId, swarm |-> webHandle, kind |-> kind, peer |-> p]}
    /\ replies' = replies \cup {NextId}
    /\ callers' = callers \cup {NextId}
    /\ UNCHANGED <<webHandle, swarmsMade, loops, feeds, stopping, webLinks, webCustody,
                   relayedCount, events, rxMessages, participating, acknowledged,
                   dropVars, userSteps>>

(* A response, or an outbound failure: the entry of the reply map decides; *)
(* one whose entry is gone is ignored.  A delivered custody message is     *)
(* announced with a convergence marker.                                    *)
Outcome(r, accepted) ==
    /\ webInFlight' = webInFlight \ {r}
    /\ replies' = replies \ {r.id}
    /\ callers' = callers \ {r.id}
    /\ webCustody' = IF r.id \in replies /\ r.kind \in RelayedMessages
                     THEN [webCustody EXCEPT ![r.swarm][r.kind] =
                              IF accepted THEN "delivered" ELSE "accepted"]
                     ELSE webCustody

Respond(r, accepted) ==
    /\ r \in webInFlight /\ r.peer \in webLinks[r.swarm]
    /\ Outcome(r, accepted)
    /\ UNCHANGED <<webHandle, swarmsMade, loops, feeds, stopping, webLinks, relayedCount,
                   events, rxMessages, participating, acknowledged, dropVars, userSteps>>

(* Mutant: failed reflections are not answered.                            *)
OutboundFailureSkipped(r) ==
    /\ r \in webInFlight
    /\ IF r.kind = "reflect"
       THEN webInFlight' = webInFlight \ {r} /\ UNCHANGED <<replies, callers, webCustody>>
       ELSE Outcome(r, FALSE)
    /\ UNCHANGED <<webHandle, swarmsMade, loops, feeds, stopping, webLinks, relayedCount,
                   events, rxMessages, participating, acknowledged, dropVars, userSteps>>

OutboundFailure(r) ==
    /\ r \in webInFlight
    /\ Outcome(r, FALSE)
    /\ UNCHANGED <<webHandle, swarmsMade, loops, feeds, stopping, webLinks, relayedCount,
                   events, rxMessages, participating, acknowledged, dropVars, userSteps>>

-----------------------------------------------------------------------------
(* Custody *)

(* dispatch_pending_custody_for_peer: every accepted message for p is sent *)
(* as a message request.                                                   *)
CustodyDispatched(s, p) ==
    LET due == {m \in RelayedMessages : webCustody[s][m] = "accepted"}
    IN /\ NextId + Cardinality(due) <= MaxWebCalls + 1
       /\ \E f \in [due -> NextId..MaxWebCalls] :
             /\ \A m, n \in due : m # n => f[m] # f[n]
             /\ webInFlight' = webInFlight \cup
                   {[id |-> f[m], swarm |-> s, kind |-> m, peer |-> p] : m \in due}
             /\ replies' = replies \cup {f[m] : m \in due}
       /\ webCustody' = [webCustody EXCEPT ![s] =
                            [m \in RelayedMessages |-> IF m \in due THEN "dispatching" ELSE @[m]]]

WebPeerConnects(s, p) ==
    /\ s \in loops /\ p \notin webLinks[s]
    /\ webLinks' = [webLinks EXCEPT ![s] = @ \cup {p}]
    /\ CustodyDispatched(s, p)
    /\ UNCHANGED <<webHandle, swarmsMade, loops, feeds, stopping, callers, relayedCount, events,
                   rxMessages, participating, acknowledged, dropVars, userSteps>>

(* After an event, when five seconds have passed since the last pull.      *)
PullCustody(s, p) ==
    /\ s \in loops /\ p \in webLinks[s]
    /\ \E m \in RelayedMessages : webCustody[s][m] = "accepted"
    /\ CustodyDispatched(s, p)
    /\ UNCHANGED <<webHandle, swarmsMade, loops, feeds, stopping, webLinks, callers, relayedCount,
                   events, rxMessages, participating, acknowledged, dropVars, userSteps>>

(* ConnectionClosed: the custody dispatches to the peer are forgotten and  *)
(* marked failed; libp2p reports their failure afterwards.                 *)
WebPeerCloses(s, p) ==
    LET stale == {r \in webInFlight : r.swarm = s /\ r.peer = p /\ r.kind \in RelayedMessages
                                   /\ r.id \in replies}
    IN /\ UserStep /\ s \in loops /\ p \in webLinks[s]
       /\ webLinks' = [webLinks EXCEPT ![s] = @ \ {p}]
       /\ replies' = replies \ {r.id : r \in stale}
       /\ webCustody' = [webCustody EXCEPT ![s] = [m \in RelayedMessages |->
                            IF \E r \in stale : r.kind = m THEN "accepted" ELSE @[m]]]
       /\ UNCHANGED <<webHandle, swarmsMade, loops, feeds, stopping, webInFlight, callers,
                      relayedCount, events, rxMessages, participating, acknowledged, dropVars>>

(* A relay request within the hourly budget: taken into custody, and       *)
(* dispatched at once when the destination is connected.                   *)
RelayRequested(s, m, p) ==
    /\ s \in loops /\ webCustody[s][m] = "absent"
    /\ m \notin acknowledged
    /\ relayedCount[s] < RelayHourBudget
    /\ relayedCount' = [relayedCount EXCEPT ![s] = @ + 1]
    /\ acknowledged' = acknowledged \cup {m}
    /\ IF p \in webLinks[s] /\ NextId <= MaxWebCalls
       THEN /\ webInFlight' = webInFlight \cup {[id |-> NextId, swarm |-> s, kind |-> m, peer |-> p]}
            /\ replies' = replies \cup {NextId}
            /\ webCustody' = [webCustody EXCEPT ![s][m] = "dispatching"]
       ELSE /\ webCustody' = [webCustody EXCEPT ![s][m] = "accepted"]
            /\ UNCHANGED <<webInFlight, replies>>
    /\ UNCHANGED <<webHandle, swarmsMade, loops, feeds, stopping, webLinks, callers, events,
                   rxMessages, participating, dropVars, userSteps>>

(* A convergence marker for a message this node keeps: the message is      *)
(* delivered elsewhere and its dispatch is forgotten.                      *)
MarkerGossiped(s, m) ==
    /\ s \in loops /\ webCustody[s][m] \in {"accepted", "dispatching"}
    /\ webCustody' = [webCustody EXCEPT ![s][m] = "delivered"]
    /\ replies' = replies \ {r.id : r \in {q \in webInFlight : q.swarm = s /\ q.kind = m}}
    /\ UNCHANGED <<webHandle, swarmsMade, loops, feeds, stopping, webLinks, webInFlight, callers,
                   relayedCount, events, rxMessages, participating, acknowledged,
                   dropVars, userSteps>>

-----------------------------------------------------------------------------
(* Mutant: the message is answered whether or not the event was queued.    *)
ReceiveRequestUnqueued(s, m) ==
    /\ s \in loops /\ m \notin acknowledged
    /\ events' = IF Len(events[s]) < EventCapacity
                 THEN [events EXCEPT ![s] = Append(@, m)] ELSE events
    /\ acknowledged' = acknowledged \cup {m}
    /\ UNCHANGED <<webHandle, swarmsMade, loops, feeds, stopping, webLinks, webInFlight, replies,
                   callers, webCustody, relayedCount, rxMessages, participating,
                   dropVars, userSteps>>

(* A message request: the event is queued, waiting for room, and then the  *)
(* sender gets accepted.  The sender retries until it is answered.         *)
ReceiveRequest(s, m) ==
    /\ s \in loops /\ m \notin acknowledged
    /\ Len(events[s]) < EventCapacity
    /\ events' = [events EXCEPT ![s] = Append(@, m)]
    /\ acknowledged' = acknowledged \cup {m}
    /\ UNCHANGED <<webHandle, swarmsMade, loops, feeds, stopping, webLinks, webInFlight, replies,
                   callers, webCustody, relayedCount, rxMessages, participating,
                   dropVars, userSteps>>

WasmNext ==
    \/ StartRuntime \/ StopRuntime
    \/ \E on \in BOOLEAN : UpdateWebSettings(on)
    \/ \E kind \in CallKinds, p \in WebPeers : CallSwarm(kind, p)
    \/ \E r \in webInFlight : OutboundFailure(r) \/ \E ok \in BOOLEAN : Respond(r, ok)
    \/ \E s \in Swarms :
          \/ LoopEnds(s) \/ FeedMessage(s) \/ FeedEnds(s)
          \/ \E p \in WebPeers : WebPeerConnects(s, p) \/ WebPeerCloses(s, p) \/ PullCustody(s, p)
          \/ \E m \in WebMessages : ReceiveRequest(s, m)
          \/ \E m \in RelayedMessages :
                MarkerGossiped(s, m) \/ \E p \in WebPeers : RelayRequested(s, m, p)

WasmSpec == WasmInit /\ [][WasmNext]_wasmVars

-----------------------------------------------------------------------------
(* Bootstrap connections.  The loop has no timer: it looks at the clock    *)
(* after every event and every command, and then only.                     *)

Boots     == DOMAIN BootAddrs
BootPeers == {BootAddrs[i].at : i \in Boots}
NoBackoff == [wait |-> 0, next |-> 0]
NotSelf   == {i \in Boots : BootAddrs[i].peer # LocalId}

BrowseInit ==
    /\ bootConns = [p \in BootPeers |-> 0]
    /\ bootDials = NotSelf
    /\ bootBackoff = [i \in Boots |-> NoBackoff]
    /\ browseNow = 0 /\ redialAt = 0
    /\ metPeers = {} /\ shownPeers = {} /\ webExchanged = {}
    /\ ledgersSent = [p \in BootPeers |-> 0]
    /\ failRun = [i \in Boots |-> 0]
    /\ failedAt = [i \in Boots |-> 0] /\ dialledAt = [i \in Boots |-> 0]
    /\ partedFrom = {} /\ losses = 0

(* BootstrapBackoffEntry: new, on_failure, on_success, is_eligible.        *)
NewEntry == [wait |-> 1, next |-> browseNow]
OnFailure(e) ==
    LET base == IF e = NoBackoff THEN 1 ELSE e.wait
        wait == IF 2 * base > BACKOFF_MAX THEN BACKOFF_MAX ELSE 2 * base
    IN  [wait |-> wait, next |-> browseNow + wait]
OnSuccess(e) == IF e = NoBackoff THEN e ELSE [wait |-> 1, next |-> browseNow + 1]

(* Mutant: an address is dialled whatever its backoff.                     *)
EligibleAlways(e) == TRUE

Eligible(e) == browseNow >= e.next

(* The first address for which the test holds, as a set.                   *)
FirstBoot(hits) == {i \in hits : \A j \in hits : i <= j}

(* The redial pass that ends an iteration of the loop: addresses of peers  *)
(* that are not connected and not backing off are dialled; a dial that is  *)
(* rejected at once counts as a failure.                                   *)
KeepBootstrapWarm(conns, backoff, dials) ==
    IF browseNow - redialAt < 1
      THEN /\ bootBackoff' = backoff /\ bootDials' = dials
           /\ UNCHANGED <<redialAt, dialledAt>>
      ELSE \E rejected \in SUBSET NotSelf :
             LET due == {i \in NotSelf : /\ Eligible(backoff[i])
                                         /\ BootAddrs[i].peer \in BootPeers =>
                                               conns[BootAddrs[i].peer] = 0}
             IN  /\ rejected \subseteq due
                 /\ bootBackoff' = [i \in Boots |-> IF i \in rejected THEN OnFailure(backoff[i])
                                                   ELSE backoff[i]]
                 /\ bootDials' = dials \cup (due \ rejected)
                 /\ dialledAt' = [i \in Boots |-> IF i \in due \ rejected THEN browseNow
                                                 ELSE dialledAt[i]]
                 /\ redialAt' = browseNow

(* ConnectionEstablished: the peer is reported once; the backoff of the    *)
(* first address that names it starts over.                                *)
BootDialAnswered(i) ==
    LET p    == BootAddrs[i].at
        hits == FirstBoot({j \in Boots : BootAddrs[j].peer = p})
        held == [bootConns EXCEPT ![p] = @ + 1]
    IN  /\ i \in bootDials /\ bootConns[p] < 2
        /\ bootConns' = held
        /\ metPeers' = metPeers \cup {p}
        /\ shownPeers' = IF p \in metPeers THEN shownPeers ELSE shownPeers \cup {p}
        /\ KeepBootstrapWarm(held,
              [j \in Boots |-> IF j \in hits THEN OnSuccess(bootBackoff[j]) ELSE bootBackoff[j]],
              bootDials \ {i})
        /\ failRun' = [j \in Boots |-> IF p \in {BootAddrs[j].at, BootAddrs[j].peer} THEN 0
                                    ELSE failRun[j]]
        /\ UNCHANGED <<browseNow, webExchanged, ledgersSent, failedAt, partedFrom, losses>>

(* OutgoingConnectionError.  Addresses are dialled without their /p2p/     *)
(* part, so the error names no peer and the address is looked for in its   *)
(* text: the first whose ip and port occur in it is taken to have failed.  *)
Blamed(i) ==
    FirstBoot({j \in Boots : j = i \/ <<BootAddrs[j].text, BootAddrs[i].text>> \in AddrContains})

BootDialFails(i) ==
    /\ i \in bootDials
    /\ failRun' = [failRun EXCEPT ![i] = @ + 1]
    /\ failedAt' = [failedAt EXCEPT ![i] = browseNow]
    /\ KeepBootstrapWarm(bootConns,
          [j \in Boots |-> IF j \in Blamed(i) THEN OnFailure(bootBackoff[j]) ELSE bootBackoff[j]],
          bootDials \ {i})
    /\ UNCHANGED <<bootConns, browseNow, metPeers, shownPeers, webExchanged, ledgersSent,
                   partedFrom, losses>>

(* ConnectionClosed of one connection, whether or not another is left: the *)
(* peer is reported lost, and addresses that name it get a fresh entry.    *)
BootConnectionClosed(p) ==
    LET left == [bootConns EXCEPT ![p] = @ - 1]
    IN  /\ bootConns[p] > 0 /\ losses < MaxLosses
        /\ losses' = losses + 1
        /\ bootConns' = left
        /\ webExchanged' = webExchanged \ {p}
        /\ shownPeers' = shownPeers \ {p}
        /\ partedFrom' = partedFrom \cup {p}
        /\ ledgersSent' = [ledgersSent EXCEPT ![p] = 0]
        /\ KeepBootstrapWarm(left,
              [j \in Boots |-> IF BootAddrs[j].peer = p /\ bootBackoff[j] = NoBackoff
                                 THEN NewEntry ELSE bootBackoff[j]],
              bootDials)
        /\ UNCHANGED <<browseNow, metPeers, failRun, failedAt>>

(* Mutant: the peer is not remembered after the request.                   *)
ShareLedgerAgain(p) ==
    /\ bootConns[p] > 0 /\ p \notin webExchanged /\ ledgersSent[p] < 2
    /\ ledgersSent' = [ledgersSent EXCEPT ![p] = @ + 1]
    /\ KeepBootstrapWarm(bootConns, bootBackoff, bootDials)
    /\ UNCHANGED <<bootConns, browseNow, metPeers, shownPeers, webExchanged, failRun, failedAt,
                   partedFrom, losses>>

(* The command ShareLedger, and a ledger request of the peer.              *)
WebShareLedger(p) ==
    /\ bootConns[p] > 0 /\ p \notin webExchanged
    /\ webExchanged' = webExchanged \cup {p}
    /\ ledgersSent' = [ledgersSent EXCEPT ![p] = @ + 1]
    /\ KeepBootstrapWarm(bootConns, bootBackoff, bootDials)
    /\ UNCHANGED <<bootConns, browseNow, metPeers, shownPeers, failRun, failedAt, partedFrom, losses>>

LedgerRequested(p) ==
    /\ bootConns[p] > 0
    /\ webExchanged' = webExchanged \cup {p}
    /\ KeepBootstrapWarm(bootConns, bootBackoff, bootDials)
    /\ UNCHANGED <<bootConns, browseNow, metPeers, shownPeers, ledgersSent, failRun, failedAt,
                   partedFrom, losses>>

MinutePasses ==
    /\ browseNow < MaxBrowseTime
    /\ browseNow' = browseNow + 1
    /\ UNCHANGED <<bootConns, bootDials, bootBackoff, redialAt, metPeers, shownPeers, webExchanged,
                   ledgersSent, failRun, failedAt, dialledAt, partedFrom, losses>>

BrowseNext ==
    \/ \E i \in Boots : BootDialAnswered(i) \/ BootDialFails(i)
    \/ \E p \in BootPeers : BootConnectionClosed(p) \/ WebShareLedger(p) \/ LedgerRequested(p)
    \/ MinutePasses

BrowseSpec == BrowseInit /\ [][BrowseNext]_browseVars

-----------------------------------------------------------------------------
(* Nobody waits for an answer that cannot come: every reply channel the    *)
(* loop keeps, every call that awaits one, and every custody message       *)
(* marked as dispatching belongs to a request that is still in flight,     *)
(* whatever responses, failures, disconnections, markers and shutdowns     *)
(* came in between.                                                        *)
RepliesPending ==
    /\ callers \subseteq replies /\ replies \subseteq Ids
    /\ \A s \in loops, m \in RelayedMessages :
          webCustody[s][m] = "dispatching" =>
             \E r \in webInFlight : r.swarm = s /\ r.kind = m /\ r.id \in replies

(* A message acknowledged to its sender, who will not send it again, waits *)
(* for an event loop that runs, or was seen by one, which gave it to the   *)
(* application, ignored it or had it refused by the core; or it was taken  *)
(* into custody.  Stopping and restarting the swarm loses none of those    *)
(* that wait.                                                              *)
AcknowledgedKept ==
    \A m \in acknowledged :
        \/ m \in rxMessages \cup ignoredMail \cup refusedMail
        \/ \E s \in feeds : \E i \in DOMAIN events[s] : events[s][i] = m
        \/ m \in RelayedMessages /\ \E s \in Swarms : webCustody[s][m] # "absent"

(* What the application is shown: a peer it sees is connected, and a       *)
(* connected peer it does not see is one that it lost before, because      *)
(* reported_peer_discoveries is never cleared in the browser.              *)
ShownPeersConnected ==
    \A p \in BootPeers :
        /\ p \in shownPeers => bootConns[p] > 0
        /\ bootConns[p] > 0 /\ p \notin shownPeers => p \in partedFrom

(* An address that failed k times in a row is dialled again only after     *)
(* 2^k minutes, up to the maximum, whatever else fails, closes or connects *)
(* in between; only an address whose text contains that of an earlier one  *)
(* is dialled sooner, since its failures are counted against the other.    *)
RedialsBackOff ==
    \A i \in bootDials :
        failRun[i] > 0 /\ Blamed(i) = {i} =>
            dialledAt[i] - failedAt[i] >= (IF 2^failRun[i] > BACKOFF_MAX THEN BACKOFF_MAX
                                           ELSE 2^failRun[i])

(* A peer is sent the ledger at most once between two losses of it.        *)
LedgerSentOnce == \A p \in BootPeers : ledgersSent[p] <= 1

(* The browser's swarm through starts, stops and failures: every waiting   *)
(* call has its request, what was acknowledged is kept, and the bootstrap  *)
(* connections are reported, redialled and used as they should.            *)
WasmSound ==
    /\ RepliesPending /\ AcknowledgedKept
    /\ ShownPeersConnected /\ RedialsBackOff /\ LedgerSentOnce
=============================================================================
