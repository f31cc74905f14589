----------------------------- MODULE WebSockets -----------------------------
(***************************************************************************)
(* The browser's connections: the bridge to a local daemon                 *)
(* (wasm/src/daemon_bridge.rs), the WebSocket relay and the WebRTC         *)
(* transport (wasm/src/transport.rs).                                      *)
(*                                                                         *)
(* A socket reports its life with events that arrive later, in order:      *)
(* open, or error and close; the handlers of a socket that has been        *)
(* replaced stay installed, and share the state with the new one.  The     *)
(* constructor of a socket may refuse: the state is Connecting by then,    *)
(* and stays so.                                                           *)
(*                                                                         *)
(* The tables that own connections: ConnectionManager                      *)
(* (wasm/src/connection_state.rs), which counts them as well, and the      *)
(* relays and peers of WasmTransport (wasm/src/transport.rs).              *)
(***************************************************************************)
EXTENDS Integers, Sequences, FiniteSets

CONSTANTS
    Requests,        \* requests of the application to the daemon
    Payloads,        \* envelopes sent through the relay
    MaxSockets,      \* bound on the sockets each side ever makes
    MaxWebSteps,     \* bound on the steps of the application and the network
    PoolNames,       \* urls and peer ids
    MAX_PEERS,       \* max_peers of WasmTransportConfig
    MaxHandles,      \* bound on the connections ever made
    MaxFrames        \* bound on the frames received

Sockets == 1..MaxSockets
SocketStates == {"unused", "connecting", "open", "failing", "closing", "closed"}
BridgeStates == {"Disconnected", "Connecting", "Connected", "Reconnecting", "Closed"}
TransportStates == {"Disconnected", "Connecting", "Connected", "Error"}

VARIABLES
    bridgeState, bridgeSockets, bridgeSocket,
    bridgeRefused,    \* the browser refused the last socket of the bridge
    reconnectTimers,  \* reconnections waiting for their delay
    pendingRequests,  \* callbacks kept by id
    sentRequests,     \* <<request, socket>>
    relayState, relaySockets, relaySocket,
    sendBuffer,
    wsRelayed,          \* <<payload, socket>> handed to the browser
    rtc,              \* the WebRTC transport
    webSteps,
    websockets, rtcConnections, connectionCount,   \* ConnectionManager
    meshRelays, meshPeers, meshState,              \* WasmTransport
    handles,          \* the connections made: [table, open, hooked]
    superseded,       \* those whose entry was overwritten by an insert
    overwrites,       \* how many of them since the last close_all
    poolIngress           \* [subscriber, heard, lost] of a relay or a transport

webVars == <<bridgeState, bridgeSockets, bridgeSocket, bridgeRefused, reconnectTimers,
             pendingRequests, sentRequests, relayState, relaySockets, relaySocket, sendBuffer,
             wsRelayed, rtc, webSteps>>
daemonBridgeVars == <<bridgeState, bridgeSockets, bridgeSocket, bridgeRefused, reconnectTimers,
                pendingRequests, sentRequests>>
wsRelayVars == <<relayState, relaySockets, relaySocket, sendBuffer, wsRelayed>>

RtcStates ==
    [state : TransportStates,
     localSdp : {"none", "offer", "answer"},
     signaling : {"stable", "have-local-offer", "have-remote-offer", "closed"},
     negotiated : BOOLEAN,
     own : {"new", "open", "closed"},          \* the channel made by new()
     inbound : {"none", "connecting", "open", "closed"},
     tasks : SUBSET {"offer", "answer", "remoteOffer", "remoteAnswer"},
     candidates : 0..1]

WebTypeOK ==
    /\ bridgeState \in BridgeStates /\ relayState \in TransportStates
    /\ bridgeSockets \in [Sockets -> SocketStates]
    /\ relaySockets \in [Sockets -> SocketStates]
    /\ bridgeRefused \in BOOLEAN
    /\ bridgeSocket \in Sockets \cup {0} /\ relaySocket \in Sockets \cup {0}
    /\ reconnectTimers \in 0..MaxSockets
    /\ pendingRequests \subseteq Requests /\ sentRequests \subseteq Requests \X Sockets
    /\ sendBuffer \subseteq Payloads /\ wsRelayed \subseteq Payloads \X Sockets
    /\ rtc \in RtcStates /\ webSteps \in 0..MaxWebSteps

WebInit ==
    /\ bridgeState = "Disconnected" /\ bridgeSocket = 0 /\ bridgeRefused = FALSE
    /\ bridgeSockets = [i \in Sockets |-> "unused"]
    /\ reconnectTimers = 0 /\ pendingRequests = {} /\ sentRequests = {}
    /\ relayState = "Disconnected" /\ relaySocket = 0
    /\ relaySockets = [i \in Sockets |-> "unused"]
    /\ sendBuffer = {} /\ wsRelayed = {}
    /\ rtc = [state |-> "Connecting", localSdp |-> "none", signaling |-> "stable",
              negotiated |-> FALSE, own |-> "new", inbound |-> "none",
              tasks |-> {}, candidates |-> 0]
    /\ webSteps = 0

WebStep == webSteps < MaxWebSteps /\ webSteps' = webSteps + 1

Fresh(socks) == {i \in Sockets : socks[i] = "unused" /\ \A j \in 1..(i - 1) : socks[j] # "unused"}

-----------------------------------------------------------------------------
(* The daemon bridge *)

(* perform_connect: no state refuses it, and a socket it replaces is not   *)
(* closed.  When the constructor fails the socket before stays.            *)
PerformConnect ==
    /\ bridgeState' = "Connecting"
    /\ \/ \E i \in Fresh(bridgeSockets) :
             /\ bridgeSockets' = [bridgeSockets EXCEPT ![i] = "connecting"]
             /\ bridgeSocket' = i /\ bridgeRefused' = FALSE
       \/ bridgeRefused' = TRUE /\ UNCHANGED <<bridgeSockets, bridgeSocket>>

BridgeConnect ==
    /\ WebStep /\ PerformConnect
    /\ UNCHANGED <<reconnectTimers, pendingRequests, sentRequests, rtc>> /\ UNCHANGED wsRelayVars

(* TimeoutFuture elapsed: the state is not looked at again, and neither is *)
(* the result.                                                             *)
ReconnectDue ==
    /\ reconnectTimers > 0 /\ PerformConnect
    /\ reconnectTimers' = reconnectTimers - 1
    /\ UNCHANGED <<pendingRequests, sentRequests, rtc, webSteps>> /\ UNCHANGED wsRelayVars

BridgeOpened(i) ==
    /\ WebStep /\ bridgeSockets[i] = "connecting"
    /\ bridgeSockets' = [bridgeSockets EXCEPT ![i] = "open"]
    /\ bridgeState' = "Connected"
    /\ UNCHANGED <<bridgeSocket, bridgeRefused, reconnectTimers, pendingRequests, sentRequests, rtc>>
    /\ UNCHANGED wsRelayVars

(* onerror: followed by onclose                                            *)
BridgeErrored(i) ==
    /\ WebStep /\ bridgeSockets[i] \in {"connecting", "open", "failing"}
    /\ bridgeSockets' = [bridgeSockets EXCEPT ![i] = "closing"]
    /\ bridgeState' = "Reconnecting"
    /\ UNCHANGED <<bridgeSocket, bridgeRefused, reconnectTimers, pendingRequests, sentRequests, rtc>>
    /\ UNCHANGED wsRelayVars

(* Mutant: only a connection that was up is made again.                    *)
BridgeClosedOnce(i) ==
    /\ WebStep /\ bridgeSockets[i] \in {"open", "closing"}
    /\ bridgeSockets' = [bridgeSockets EXCEPT ![i] = "closed"]
    /\ reconnectTimers' = IF bridgeState = "Connected" THEN reconnectTimers + 1
                          ELSE reconnectTimers
    /\ UNCHANGED <<bridgeState, bridgeSocket, bridgeRefused, pendingRequests, sentRequests, rtc>>
    /\ UNCHANGED wsRelayVars

(* onclose: unless the bridge is closed, another connection is scheduled,  *)
(* without a limit on the attempts.                                        *)
BridgeClosed(i) ==
    /\ WebStep /\ bridgeSockets[i] \in {"open", "closing"}
    /\ bridgeSockets' = [bridgeSockets EXCEPT ![i] = "closed"]
    /\ reconnectTimers' = IF bridgeState # "Closed" THEN reconnectTimers + 1
                          ELSE reconnectTimers
    /\ UNCHANGED <<bridgeState, bridgeSocket, bridgeRefused, pendingRequests, sentRequests, rtc>>
    /\ UNCHANGED wsRelayVars

(* disconnect(): closing a socket that is still connecting makes it fail.  *)
BridgeDisconnect ==
    /\ WebStep
    /\ bridgeState' = "Closed"
    /\ pendingRequests' = {} /\ bridgeSocket' = 0
    /\ bridgeSockets' =
          [i \in Sockets |->
             IF i # bridgeSocket THEN bridgeSockets[i]
             ELSE CASE bridgeSockets[i] = "connecting" -> "failing"
                    [] bridgeSockets[i] = "open" -> "closing"
                    [] OTHER -> bridgeSockets[i]]
    /\ UNCHANGED <<bridgeRefused, reconnectTimers, sentRequests, rtc>> /\ UNCHANGED wsRelayVars

(* send_request keeps the callback before it knows whether it can send; a  *)
(* closing socket swallows the request.                                    *)
SendRequest(q) ==
    /\ WebStep /\ q \notin pendingRequests /\ \A i \in Sockets : <<q, i>> \notin sentRequests
    /\ pendingRequests' = pendingRequests \cup {q}
    /\ sentRequests' = IF bridgeSocket # 0 /\ bridgeSockets[bridgeSocket] = "open"
                       THEN sentRequests \cup {<<q, bridgeSocket>>} ELSE sentRequests
    /\ UNCHANGED <<bridgeState, bridgeSockets, bridgeSocket, bridgeRefused, reconnectTimers, rtc>>
    /\ UNCHANGED wsRelayVars

(* A response, or cancel_request: the callback goes.                       *)
AnswerRequest(q) ==
    /\ WebStep /\ q \in pendingRequests
    /\ \E i \in Sockets : <<q, i>> \in sentRequests /\ bridgeSockets[i] = "open"
    /\ pendingRequests' = pendingRequests \ {q}
    /\ UNCHANGED <<bridgeState, bridgeSockets, bridgeSocket, bridgeRefused, reconnectTimers,
                   sentRequests, rtc>>
    /\ UNCHANGED wsRelayVars

-----------------------------------------------------------------------------
(* The WebSocket relay *)

(* After a refusal of the constructor the relay is Connecting, keeps the   *)
(* envelopes it is given and takes no other connect, until disconnect.     *)
RelayConnect ==
    /\ WebStep /\ relayState \in {"Disconnected", "Error"}
    /\ relayState' = "Connecting"
    /\ \/ \E i \in Fresh(relaySockets) :
             /\ relaySockets' = [relaySockets EXCEPT ![i] = "connecting"]
             /\ relaySocket' = i
       \/ UNCHANGED <<relaySockets, relaySocket>>
    /\ UNCHANGED <<sendBuffer, wsRelayed, rtc>> /\ UNCHANGED daemonBridgeVars

(* Mutant: the buffer is sent and kept.                                    *)
RelayOpenedKeeps(i) ==
    /\ WebStep /\ relaySockets[i] = "connecting"
    /\ relaySockets' = [relaySockets EXCEPT ![i] = "open"]
    /\ relayState' = "Connected"
    /\ wsRelayed' = wsRelayed \cup (IF relaySocket # 0 /\ relaySockets'[relaySocket] = "open"
                                THEN sendBuffer \X {relaySocket} ELSE {})
    /\ UNCHANGED <<relaySocket, sendBuffer, rtc>> /\ UNCHANGED daemonBridgeVars

(* onopen of any socket empties the buffer into the current one, whose     *)
(* send fails while it is not open itself.                                 *)
RelayOpened(i) ==
    /\ WebStep /\ relaySockets[i] = "connecting"
    /\ relaySockets' = [relaySockets EXCEPT ![i] = "open"]
    /\ relayState' = "Connected"
    /\ sendBuffer' = {}
    /\ wsRelayed' = wsRelayed \cup (IF relaySocket # 0 /\ relaySockets'[relaySocket] = "open"
                                THEN sendBuffer \X {relaySocket} ELSE {})
    /\ UNCHANGED <<relaySocket, rtc>> /\ UNCHANGED daemonBridgeVars

RelayErrored(i) ==
    /\ WebStep /\ relaySockets[i] \in {"connecting", "failing"}
    /\ relaySockets' = [relaySockets EXCEPT ![i] = "closing"]
    /\ relayState' = "Error"
    /\ UNCHANGED <<relaySocket, sendBuffer, wsRelayed, rtc>> /\ UNCHANGED daemonBridgeVars

RelayClosed(i) ==
    /\ WebStep /\ relaySockets[i] \in {"open", "closing"}
    /\ relaySockets' = [relaySockets EXCEPT ![i] = "closed"]
    /\ relayState' = "Disconnected"
    /\ UNCHANGED <<relaySocket, sendBuffer, wsRelayed, rtc>> /\ UNCHANGED daemonBridgeVars

RelayDisconnect ==
    /\ WebStep
    /\ relayState' = "Disconnected" /\ relaySocket' = 0
    /\ relaySockets' =
          [i \in Sockets |->
             IF i # relaySocket THEN relaySockets[i]
             ELSE CASE relaySockets[i] = "connecting" -> "failing"
                    [] relaySockets[i] = "open" -> "closing"
                    [] OTHER -> relaySockets[i]]
    /\ UNCHANGED <<sendBuffer, wsRelayed, rtc>> /\ UNCHANGED daemonBridgeVars

(* send_envelope: buffered while connecting, refused while down.           *)
SendEnvelope(m) ==
    /\ WebStep /\ m \notin sendBuffer /\ \A i \in Sockets : <<m, i>> \notin wsRelayed
    /\ \/ relayState = "Connecting" /\ sendBuffer' = sendBuffer \cup {m} /\ UNCHANGED wsRelayed
       \/ /\ relayState = "Connected" /\ relaySocket # 0
          /\ relaySockets[relaySocket] = "open"
          /\ wsRelayed' = wsRelayed \cup {<<m, relaySocket>>} /\ UNCHANGED sendBuffer
    /\ UNCHANGED <<relayState, relaySockets, relaySocket, rtc>> /\ UNCHANGED daemonBridgeVars

-----------------------------------------------------------------------------
(* The WebRTC transport.  create_offer, create_answer, set_remote_offer    *)
(* and set_remote_answer start a task; the browser accepts or rejects it   *)
(* by its signaling state when the task runs.                              *)
StartRtcTask(t) ==
    /\ WebStep /\ t \notin rtc.tasks
    /\ rtc' = [rtc EXCEPT !.tasks = @ \cup {t}]
    /\ UNCHANGED daemonBridgeVars /\ UNCHANGED wsRelayVars

Signaled(t) ==
    CASE t = "offer" /\ rtc.signaling \in {"stable", "have-local-offer"} -> "have-local-offer"
      [] t = "remoteOffer" /\ rtc.signaling # "closed" -> "have-remote-offer"
      [] t = "answer" /\ rtc.signaling = "have-remote-offer" -> "stable"
      [] t = "remoteAnswer" /\ rtc.signaling = "have-local-offer" -> "stable"
      [] OTHER -> "rejected"

FinishRtcTask(t) ==
    /\ t \in rtc.tasks
    /\ rtc' = IF Signaled(t) = "rejected"
              THEN [rtc EXCEPT !.tasks = @ \ {t}, !.state = "Error"]
              ELSE [rtc EXCEPT !.tasks = @ \ {t}, !.signaling = Signaled(t),
                               !.localSdp = IF t \in {"offer", "answer"} THEN t ELSE @,
                               !.negotiated = @ \/ t \in {"answer", "remoteAnswer"}]
    /\ UNCHANGED webSteps /\ UNCHANGED daemonBridgeVars /\ UNCHANGED wsRelayVars

(* The channels open once both descriptions are set: the one made here and *)
(* the one the other side made, which replaces it for sending.             *)
ChannelOpens ==
    /\ WebStep /\ rtc.negotiated /\ rtc.signaling # "closed"
    /\ rtc.own = "new" /\ rtc' = [rtc EXCEPT !.own = "open", !.state = "Connected"]
    /\ UNCHANGED daemonBridgeVars /\ UNCHANGED wsRelayVars

InboundChannel ==
    /\ WebStep /\ rtc.negotiated /\ rtc.signaling # "closed"
    /\ \/ rtc.inbound = "none" /\ rtc' = [rtc EXCEPT !.inbound = "connecting"]
       \/ rtc.inbound = "connecting"
          /\ rtc' = [rtc EXCEPT !.inbound = "open", !.state = "Connected"]
    /\ UNCHANGED daemonBridgeVars /\ UNCHANGED wsRelayVars

(* onerror of the channel made here: its close follows.                    *)
ChannelErrors ==
    /\ WebStep /\ rtc.own = "open"
    /\ rtc' = [rtc EXCEPT !.state = "Error"]
    /\ UNCHANGED daemonBridgeVars /\ UNCHANGED wsRelayVars

(* Mutant: no close handler.                                               *)
RemoteClosesUnseen ==
    /\ WebStep /\ rtc.signaling # "closed" /\ rtc.own # "new"
    /\ rtc' = [rtc EXCEPT !.own = "closed", !.inbound = IF @ = "none" THEN @ ELSE "closed",
                          !.signaling = "closed"]
    /\ UNCHANGED daemonBridgeVars /\ UNCHANGED wsRelayVars

(* The connection ends: only the channel made here has a close handler.    *)
RemoteCloses ==
    /\ WebStep /\ rtc.signaling # "closed" /\ rtc.own # "new"
    /\ rtc' = [rtc EXCEPT !.own = "closed", !.inbound = IF @ = "none" THEN @ ELSE "closed",
                          !.signaling = "closed", !.state = "Disconnected"]
    /\ UNCHANGED daemonBridgeVars /\ UNCHANGED wsRelayVars

(* close() *)
RtcClose ==
    /\ WebStep
    /\ rtc' = [rtc EXCEPT !.own = "closed", !.inbound = IF @ = "none" THEN @ ELSE "closed",
                          !.signaling = "closed", !.state = "Disconnected"]
    /\ UNCHANGED daemonBridgeVars /\ UNCHANGED wsRelayVars

(* onicecandidate gathers; get_ice_candidates takes.                       *)
GatherCandidate ==
    /\ WebStep /\ rtc.localSdp # "none" /\ rtc' = [rtc EXCEPT !.candidates = 1 - @]
    /\ UNCHANGED daemonBridgeVars /\ UNCHANGED wsRelayVars

WebNext ==
    \/ BridgeConnect \/ ReconnectDue \/ BridgeDisconnect
    \/ \E i \in Sockets : BridgeOpened(i) \/ BridgeErrored(i) \/ BridgeClosed(i)
    \/ \E q \in Requests : SendRequest(q) \/ AnswerRequest(q)
    \/ RelayConnect \/ RelayDisconnect
    \/ \E i \in Sockets : RelayOpened(i) \/ RelayErrored(i) \/ RelayClosed(i)
    \/ \E m \in Payloads : SendEnvelope(m)
    \/ \E t \in {"offer", "answer", "remoteOffer", "remoteAnswer"} :
          StartRtcTask(t) \/ FinishRtcTask(t)
    \/ ChannelOpens \/ InboundChannel \/ ChannelErrors \/ RemoteCloses \/ RtcClose
    \/ GatherCandidate

WebSpec == WebInit /\ [][WebNext]_webVars

-----------------------------------------------------------------------------
(* The tables that own connections.  A table maps a name to a connection.   *)
poolVars == <<websockets, rtcConnections, connectionCount, meshRelays, meshPeers, meshState,
              handles, superseded, overwrites, poolIngress>>
transportManagerVars == <<websockets, rtcConnections, connectionCount, overwrites>>
meshVars == <<meshRelays, meshPeers, meshState>>

EmptyTable == [n \in {} |-> n]
Holding(table) == {table[n] : n \in DOMAIN table}
Removed(table, n) == [k \in DOMAIN table \ {n} |-> table[k]]
Inserted(table, n, h) == [k \in DOMAIN table \cup {n} |-> IF k = n THEN h ELSE table[k]]

(* The handlers of a managed connection live and go with it. *)
ManagedWebSocket == [table |-> "websocket", open |-> TRUE, hooked |-> TRUE]
ManagedRtcConnection == [table |-> "rtc", open |-> TRUE, hooked |-> TRUE]
Unmanaged(kind) == [table |-> kind, open |-> TRUE, hooked |-> TRUE]

MeshInit == meshRelays = EmptyTable /\ meshPeers = EmptyTable /\ meshState = "Disconnected"

PoolInit ==
    /\ websockets = EmptyTable /\ rtcConnections = EmptyTable /\ connectionCount = 0
    /\ MeshInit
    /\ handles = << >> /\ superseded = {} /\ overwrites = 0
    /\ poolIngress = [subscriber |-> 0, heard |-> 0, lost |-> 0]

(* A new connection takes the place of the one the table had under n.       *)
Opened(connection) == Append(handles, connection)
NewHandle == Len(handles) + 1
Overwritten(table, n) == IF n \in DOMAIN table THEN {table[n]} ELSE {}

(* ManagedWebSocket::close and ManagedRtcConnection::close: the connection  *)
(* is closed and its handlers are taken off.                                *)
ClosedHandles(gone) ==
    [h \in DOMAIN handles |-> IF h \in gone THEN [handles[h] EXCEPT !.open = FALSE, !.hooked = FALSE]
                              ELSE handles[h]]

(* Dropping one only takes the handlers off. *)
Unhooked(hs, gone) == [h \in DOMAIN hs |-> IF h \in gone THEN [hs[h] EXCEPT !.hooked = FALSE] ELSE hs[h]]

AddWebsocket(n) ==
    LET old == Overwritten(websockets, n) IN
    /\ NewHandle <= MaxHandles
    /\ handles' = Unhooked(Opened(ManagedWebSocket), old)
    /\ websockets' = Inserted(websockets, n, NewHandle)
    /\ connectionCount' = connectionCount + 1
    /\ superseded' = superseded \cup old /\ overwrites' = overwrites + Cardinality(old)
    /\ UNCHANGED <<rtcConnections, meshVars, poolIngress>>

AddRtcConnection(n) ==
    LET old == Overwritten(rtcConnections, n) IN
    /\ NewHandle <= MaxHandles
    /\ handles' = Unhooked(Opened(ManagedRtcConnection), old)
    /\ rtcConnections' = Inserted(rtcConnections, n, NewHandle)
    /\ connectionCount' = connectionCount + 1
    /\ superseded' = superseded \cup old /\ overwrites' = overwrites + Cardinality(old)
    /\ UNCHANGED <<websockets, meshVars, poolIngress>>

(* Mutant: the entry is dropped without closing the socket. *)
RemoveWebsocketOpen(n) ==
    /\ n \in DOMAIN websockets
    /\ handles' = Unhooked(handles, {websockets[n]})
    /\ websockets' = Removed(websockets, n)
    /\ connectionCount' = IF connectionCount > 0 THEN connectionCount - 1 ELSE 0
    /\ UNCHANGED <<rtcConnections, superseded, overwrites, meshVars, poolIngress>>

RemoveWebsocket(n) ==
    /\ n \in DOMAIN websockets
    /\ handles' = ClosedHandles({websockets[n]})
    /\ websockets' = Removed(websockets, n)
    /\ connectionCount' = IF connectionCount > 0 THEN connectionCount - 1 ELSE 0
    /\ UNCHANGED <<rtcConnections, superseded, overwrites, meshVars, poolIngress>>

RemoveRtcConnection(n) ==
    /\ n \in DOMAIN rtcConnections
    /\ handles' = ClosedHandles({rtcConnections[n]})
    /\ rtcConnections' = Removed(rtcConnections, n)
    /\ connectionCount' = IF connectionCount > 0 THEN connectionCount - 1 ELSE 0
    /\ UNCHANGED <<websockets, superseded, overwrites, meshVars, poolIngress>>

CloseAll ==
    /\ handles' = ClosedHandles(Holding(websockets) \cup Holding(rtcConnections))
    /\ websockets' = EmptyTable /\ rtcConnections' = EmptyTable
    /\ connectionCount' = 0 /\ overwrites' = 0
    /\ UNCHANGED <<superseded, meshVars, poolIngress>>

(* Mutant: a transport that runs is started again. *)
StartTransportAgain ==
    /\ NewHandle <= MaxHandles
    /\ \E n \in PoolNames :
          /\ handles' = Opened(Unmanaged("relay"))
          /\ meshRelays' = Inserted(meshRelays, n, NewHandle)
          /\ superseded' = superseded \cup Overwritten(meshRelays, n)
    /\ meshState' = "Connected"
    /\ UNCHANGED <<meshPeers, transportManagerVars, poolIngress>>

(* WasmTransport::start makes and connects a relay for the url it is        *)
(* configured with, and counts as connected whatever becomes of it.         *)
StartTransport ==
    /\ meshState # "Connected" /\ NewHandle <= MaxHandles
    /\ \E n \in PoolNames :
          /\ handles' = Opened(Unmanaged("relay"))
          /\ meshRelays' = Inserted(meshRelays, n, NewHandle)
          /\ superseded' = superseded \cup Overwritten(meshRelays, n)
    /\ meshState' = "Connected"
    /\ UNCHANGED <<meshPeers, transportManagerVars, poolIngress>>

(* stop: everything is closed and stays in the tables. *)
StopTransport ==
    /\ handles' = [h \in DOMAIN handles |->
                     IF h \in Holding(meshRelays) \cup Holding(meshPeers)
                     THEN [handles[h] EXCEPT !.open = FALSE] ELSE handles[h]]
    /\ meshState' = "Disconnected"
    /\ UNCHANGED <<meshRelays, meshPeers, superseded, transportManagerVars, poolIngress>>

AddPeer(n) ==
    /\ Cardinality(DOMAIN meshPeers) < MAX_PEERS /\ NewHandle <= MaxHandles
    /\ handles' = Opened(Unmanaged("peer"))
    /\ meshPeers' = Inserted(meshPeers, n, NewHandle)
    /\ superseded' = superseded \cup Overwritten(meshPeers, n)
    /\ UNCHANGED <<meshRelays, meshState, transportManagerVars, poolIngress>>

PoolRemovePeer(n) ==
    /\ n \in DOMAIN meshPeers
    /\ handles' = [handles EXCEPT ![meshPeers[n]].open = FALSE]
    /\ meshPeers' = Removed(meshPeers, n)
    /\ UNCHANGED <<meshRelays, meshState, superseded, transportManagerVars, poolIngress>>

(* subscribe replaces the sender: the receiver before it hears no more.     *)
SubscribeFrames ==
    /\ poolIngress.subscriber < 2
    /\ poolIngress' = [poolIngress EXCEPT !.subscriber = @ + 1, !.heard = 0]
    /\ UNCHANGED <<transportManagerVars, meshVars, handles, superseded>>

ChannelHeard == IF poolIngress.subscriber = 0 THEN [poolIngress EXCEPT !.lost = @ + 1]
         ELSE [poolIngress EXCEPT !.heard = @ + 1]

(* onmessage of the relay socket and of the data channels.                  *)
FrameArrives ==
    /\ poolIngress.heard + poolIngress.lost < MaxFrames
    /\ poolIngress' = ChannelHeard
    /\ UNCHANGED <<transportManagerVars, meshVars, handles, superseded>>

PoolNext ==
    \/ \E n \in PoolNames :
          \/ AddWebsocket(n) \/ RemoveWebsocket(n) \/ AddRtcConnection(n) \/ RemoveRtcConnection(n)
          \/ AddPeer(n) \/ PoolRemovePeer(n)
    \/ CloseAll \/ StartTransport \/ StopTransport
    \/ SubscribeFrames \/ FrameArrives

PoolSpec == PoolInit /\ [][PoolNext]_poolVars

(* A connection that is open can still be reached and closed through its    *)
(* table, except a managed connection or a peer whose name was added again; *)
(* that one keeps no handlers when ConnectionManager owned it, and relays   *)
(* are never overwritten while they run.                                    *)
NoOrphans ==
    \A h \in DOMAIN handles : handles[h].open =>
        \/ h \in Holding(websockets) \cup Holding(rtcConnections)
        \/ h \in Holding(meshRelays) \cup Holding(meshPeers)
        \/ /\ h \in superseded /\ handles[h].table # "relay"
           /\ handles[h].table \in {"websocket", "rtc"} => ~handles[h].hooked

(* connection_count is the number of connections in the two tables, plus    *)
(* one for every insert that overwrote an entry since the last close_all.   *)
CountExact ==
    connectionCount = Cardinality(DOMAIN websockets) + Cardinality(DOMAIN rtcConnections) + overwrites

-----------------------------------------------------------------------------
(* A bridge that is neither unused nor closed is stuck only as Connecting, *)
(* after the browser refused the last socket it asked for: through every   *)
(* order of errors, closes and calls, a socket that will still report its  *)
(* end or a reconnection that is due keeps it going otherwise.             *)
BridgeNotWedged ==
    bridgeState \in {"Connecting", "Connected", "Reconnecting"} =>
        \/ bridgeState = "Connecting" /\ bridgeRefused
        \/ reconnectTimers > 0
        \/ \E i \in Sockets : bridgeSockets[i] \in {"connecting", "open", "failing", "closing"}

(* An envelope the relay accepted is handed to the browser at most once,   *)
(* however many sockets open and close around the buffer.                  *)
RelaySendsOnce ==
    \A m \in Payloads :
        /\ Cardinality({i \in Sockets : <<m, i>> \in wsRelayed}) <= 1
        /\ m \in sendBuffer => \A i \in Sockets : <<m, i>> \notin wsRelayed

(* A WebRTC transport that reports Connected has a channel that is open.   *)
RtcStateTruthful ==
    rtc.state = "Connected" => rtc.own = "open" \/ rtc.inbound = "open"

(* The three browser transports through every order of their callbacks:    *)
(* the bridge goes on, the relay's buffer is sent once, the state of       *)
(* WebRTC is the one of its channels, and the tables own and count what is *)
(* open.                                                                   *)
SocketsSound ==
    BridgeNotWedged /\ RelaySendsOnce /\ RtcStateTruthful /\ NoOrphans /\ CountExact
=============================================================================
