----------------------------- MODULE Web_proofs -----------------------------
(***************************************************************************)
(* Proofs about the two user interfaces on the web: the browser's          *)
(* connections (the bridge, the relay socket, WebRTC and the tables of     *)
(* WebSockets), for any number of sockets, payloads, requests and names,   *)
(* and the daemon's console with the data directory its processes share    *)
(* (CliConsole), for any number of processes.                              *)
(***************************************************************************)
EXTENDS WebSockets, CliConsole, FiniteSetTheorems, SequenceTheorems, TLAPS

(* The browser's connections. *)

(* The daemon bridge.                                                      *)
BridgeInv ==
    /\ reconnectTimers \in Nat /\ DOMAIN bridgeSockets = Sockets
    /\ BridgeNotWedged

(* Every event of the browser keeps the bridge going.                      *)
LEMMA BridgeKept ==
    ASSUME BridgeInv, [WebNext]_webVars
    PROVE  BridgeInv'
<1> DEFINE Alive == {"connecting", "open", "failing", "closing"}
<1>1. CASE UNCHANGED <<bridgeState, bridgeSockets, bridgeRefused, reconnectTimers>>
  BY <1>1, Zenon DEF BridgeInv, BridgeNotWedged
<1>2. ASSUME PerformConnect, reconnectTimers' \in Nat PROVE BridgeInv'
  <2>1. ASSUME NEW i \in Sockets, bridgeSockets' = [bridgeSockets EXCEPT ![i] = "connecting"]
        PROVE  BridgeInv'
    BY <1>2, <2>1, Zenon DEF BridgeInv, BridgeNotWedged
  <2>2. CASE bridgeState' = "Connecting" /\ bridgeRefused' = TRUE /\ UNCHANGED bridgeSockets
    BY <1>2, <2>2, Zenon DEF BridgeInv, BridgeNotWedged
  <2> QED
    BY <1>2, <2>1, <2>2, Zenon DEF PerformConnect, Fresh
<1>3. CASE BridgeConnect \/ ReconnectDue
  BY <1>2, <1>3 DEF BridgeConnect, ReconnectDue, BridgeInv
<1>4. ASSUME NEW i \in Sockets, BridgeOpened(i) \/ BridgeErrored(i) PROVE BridgeInv'
  <2>1. bridgeSockets'[i] \in Alive /\ DOMAIN bridgeSockets' = Sockets /\ UNCHANGED reconnectTimers
    BY <1>4, Zenon DEF BridgeOpened, BridgeErrored, BridgeInv
  <2> QED
    BY <2>1, Zenon DEF BridgeInv, BridgeNotWedged
<1>5. ASSUME NEW i \in Sockets, BridgeClosed(i) PROVE BridgeInv'
  <2>1. /\ DOMAIN bridgeSockets' = Sockets /\ bridgeState' = bridgeState
        /\ reconnectTimers' = IF bridgeState # "Closed" THEN reconnectTimers + 1 ELSE reconnectTimers
    BY <1>5, Zenon DEF BridgeClosed, BridgeInv
  <2> QED
    BY <2>1 DEF BridgeInv, BridgeNotWedged
<1>6. CASE BridgeDisconnect
  BY <1>6, Zenon DEF BridgeDisconnect, BridgeInv, BridgeNotWedged
<1>7. ASSUME NEW q \in Requests, SendRequest(q) \/ AnswerRequest(q) PROVE BridgeInv'
  BY <1>1, <1>7, Zenon DEF SendRequest, AnswerRequest
<1>8. ASSUME \/ RelayConnect \/ RelayDisconnect
             \/ \E i \in Sockets : RelayOpened(i) \/ RelayErrored(i) \/ RelayClosed(i)
             \/ \E m \in Payloads : SendEnvelope(m)
      PROVE  BridgeInv'
  BY <1>1, <1>8, Zenon DEF RelayConnect, RelayDisconnect, RelayOpened, RelayErrored, RelayClosed,
                    SendEnvelope, daemonBridgeVars
<1>9. ASSUME \/ \E t \in {"offer", "answer", "remoteOffer", "remoteAnswer"} :
                   StartRtcTask(t) \/ FinishRtcTask(t)
             \/ ChannelOpens \/ InboundChannel \/ ChannelErrors \/ RemoteCloses \/ RtcClose
             \/ GatherCandidate
      PROVE  BridgeInv'
  BY <1>1, <1>9, Zenon DEF StartRtcTask, FinishRtcTask, ChannelOpens, InboundChannel, ChannelErrors,
                    RemoteCloses, RtcClose, GatherCandidate, daemonBridgeVars
<1>10. CASE UNCHANGED webVars
  BY <1>1, <1>10, Zenon DEF webVars
<1>11. CASE \/ \E i \in Sockets : BridgeOpened(i) \/ BridgeErrored(i) \/ BridgeClosed(i)
            \/ \E q \in Requests : SendRequest(q) \/ AnswerRequest(q)
  BY <1>4, <1>5, <1>7, <1>11, Zenon
<1> QED
  BY <1>3, <1>6, <1>8, <1>9, <1>10, <1>11, Zenon DEF WebNext

-----------------------------------------------------------------------------
(* An envelope went out on one socket at most, and on none while it is     *)
(* buffered.                                                               *)
SentOnce ==
    /\ \A m \in Payloads, i, j \in Sockets : <<m, i>> \in wsRelayed /\ <<m, j>> \in wsRelayed => i = j
    /\ \A m \in sendBuffer : \A i \in Sockets : <<m, i>> \notin wsRelayed

(* Every event of the browser keeps an envelope on one socket.             *)
LEMMA SentOnceKept ==
    ASSUME SentOnce, [WebNext]_webVars
    PROVE  SentOnce'
<1>1. CASE UNCHANGED <<sendBuffer, wsRelayed>>
  BY <1>1, Zenon DEF SentOnce
<1>2. ASSUME NEW i \in Sockets, RelayOpened(i) PROVE SentOnce'
  <2>1. /\ sendBuffer' = {}
        /\ wsRelayed' = wsRelayed \/ wsRelayed' = wsRelayed \cup (sendBuffer \X {relaySocket})
    BY <1>2, Zenon DEF RelayOpened
  <2> QED
    BY <2>1, Zenon DEF SentOnce
<1>3. ASSUME NEW m \in Payloads, SendEnvelope(m) PROVE SentOnce'
  <2>1. \A i \in Sockets : <<m, i>> \notin wsRelayed
    BY <1>3, Zenon DEF SendEnvelope
  <2>2. m \notin sendBuffer
    BY <1>3, Zenon DEF SendEnvelope
  <2>3. CASE sendBuffer' = sendBuffer \cup {m} /\ wsRelayed' = wsRelayed
    BY <2>1, <2>3, Zenon DEF SentOnce
  <2>4. CASE wsRelayed' = wsRelayed \cup {<<m, relaySocket>>} /\ sendBuffer' = sendBuffer
    BY <2>1, <2>2, <2>4, Zenon DEF SentOnce
  <2> QED
    BY <1>3, <2>3, <2>4, Zenon DEF SendEnvelope
<1>4. CASE \/ RelayConnect \/ RelayDisconnect
           \/ \E i \in Sockets : RelayErrored(i) \/ RelayClosed(i)
  BY <1>1, <1>4, Zenon DEF RelayConnect, RelayDisconnect, RelayErrored, RelayClosed
<1>5. CASE \/ BridgeConnect \/ ReconnectDue \/ BridgeDisconnect
           \/ \E i \in Sockets : BridgeOpened(i) \/ BridgeErrored(i) \/ BridgeClosed(i)
           \/ \E q \in Requests : SendRequest(q) \/ AnswerRequest(q)
  BY <1>1, <1>5, Zenon DEF BridgeConnect, ReconnectDue, BridgeDisconnect, BridgeOpened, BridgeErrored,
                    BridgeClosed, SendRequest, AnswerRequest, wsRelayVars
<1>6. CASE \/ \E t \in {"offer", "answer", "remoteOffer", "remoteAnswer"} :
                 StartRtcTask(t) \/ FinishRtcTask(t)
           \/ ChannelOpens \/ InboundChannel \/ ChannelErrors \/ RemoteCloses \/ RtcClose
           \/ GatherCandidate
  BY <1>1, <1>6, Zenon DEF StartRtcTask, FinishRtcTask, ChannelOpens, InboundChannel, ChannelErrors, RemoteCloses,
                    RtcClose, GatherCandidate, wsRelayVars
<1>7. CASE UNCHANGED webVars
  BY <1>1, <1>7, Zenon DEF webVars
<1> QED
  BY <1>2, <1>3, <1>4, <1>5, <1>6, <1>7, Zenon DEF WebNext

(* A set whose elements are equal has at most one.                         *)
LEMMA AtMostOne ==
    ASSUME NEW S, \A x, y \in S : x = y
    PROVE  Cardinality(S) <= 1
<1>1. CASE S = {}
  BY <1>1, FS_EmptySet
<1>2. CASE S # {}
  <2>1. PICK x : S = {x}
    BY <1>2
  <2> QED
    BY <2>1, FS_Singleton
<1> QED
  BY <1>1, <1>2, Zenon

(* An envelope on one socket is an envelope sent at most once.             *)
LEMMA SentOnceImplies == SentOnce => RelaySendsOnce
<1> SUFFICES ASSUME SentOnce, NEW m \in Payloads
             PROVE  /\ Cardinality({i \in Sockets : <<m, i>> \in wsRelayed}) <= 1
                    /\ m \in sendBuffer => \A i \in Sockets : <<m, i>> \notin wsRelayed
  BY Zenon DEF RelaySendsOnce
<1>1. Cardinality({i \in Sockets : <<m, i>> \in wsRelayed}) <= 1
  <2>1. \A x, y \in {i \in Sockets : <<m, i>> \in wsRelayed} : x = y
    BY Zenon DEF SentOnce
  <2> QED
    BY <2>1, AtMostOne, Zenon
<1> QED
  BY <1>1, Zenon DEF SentOnce

-----------------------------------------------------------------------------
(* What the events of WebRTC keep.                                         *)
RtcInv == rtc \in RtcStates /\ RtcStateTruthful

(* Every event of the browser keeps the state of WebRTC truthful.          *)
LEMMA RtcKept ==
    ASSUME RtcInv, [WebNext]_webVars
    PROVE  RtcInv'
<1>0. rtc \in RtcStates
  BY Zenon DEF RtcInv
<1>1. CASE UNCHANGED rtc
  BY <1>1, Zenon DEF RtcInv, RtcStateTruthful
<1>2. ASSUME NEW t \in {"offer", "answer", "remoteOffer", "remoteAnswer"}, StartRtcTask(t)
      PROVE  RtcInv'
  <2>1. rtc' = [rtc EXCEPT !.tasks = rtc.tasks \cup {t}]
    BY <1>2, Zenon DEF StartRtcTask
  <2>2. rtc.tasks \cup {t} \in SUBSET {"offer", "answer", "remoteOffer", "remoteAnswer"}
    BY <1>0, Zenon DEF RtcStates
  <2>3. /\ rtc' \in RtcStates
        /\ rtc'.state = rtc.state /\ rtc'.own = rtc.own /\ rtc'.inbound = rtc.inbound
    BY <1>0, <2>1, <2>2, Zenon DEF RtcStates
  <2> QED
    BY <2>3, Zenon DEF RtcInv, RtcStateTruthful
<1>3. ASSUME NEW t \in {"offer", "answer", "remoteOffer", "remoteAnswer"}, FinishRtcTask(t)
      PROVE  RtcInv'
  <2> DEFINE rest == rtc.tasks \ {t}
             sdp == IF t \in {"offer", "answer"} THEN t ELSE rtc.localSdp
             done == rtc.negotiated \/ t \in {"answer", "remoteAnswer"}
  <2>1. rest \in SUBSET {"offer", "answer", "remoteOffer", "remoteAnswer"}
        /\ sdp \in {"none", "offer", "answer"} /\ done \in BOOLEAN
    BY <1>0, Zenon DEF RtcStates
  <2>2. CASE Signaled(t) = "rejected"
    <3>1. rtc' = [rtc EXCEPT !.tasks = rest, !.state = "Error"]
      BY <1>3, <2>2, Zenon DEF FinishRtcTask
    <3> HIDE DEF rest
    <3>2. rtc' \in RtcStates /\ rtc'.state = "Error"
      BY <1>0, <2>1, <3>1, Zenon DEF RtcStates, TransportStates
    <3> QED
      BY <3>2, Zenon DEF RtcInv, RtcStateTruthful
  <2>3. CASE Signaled(t) # "rejected"
    <3>1. rtc' = [rtc EXCEPT !.tasks = rest, !.signaling = Signaled(t), !.localSdp = sdp,
                             !.negotiated = done]
      BY <1>3, <2>3, Zenon DEF FinishRtcTask
    <3>2. Signaled(t) \in {"stable", "have-local-offer", "have-remote-offer", "closed"}
      BY <2>3, Zenon DEF Signaled
    <3> HIDE DEF rest, sdp, done
    <3>3. /\ rtc' \in RtcStates
          /\ rtc'.state = rtc.state /\ rtc'.own = rtc.own /\ rtc'.inbound = rtc.inbound
      BY <1>0, <2>1, <3>1, <3>2, Zenon DEF RtcStates
    <3> QED
      BY <3>3, Zenon DEF RtcInv, RtcStateTruthful
  <2> QED
    BY <2>2, <2>3, Zenon
<1>4. CASE ChannelOpens
  <2>1. rtc' = [rtc EXCEPT !.own = "open", !.state = "Connected"]
    BY <1>4, Zenon DEF ChannelOpens
  <2>2. rtc' \in RtcStates /\ rtc'.own = "open"
    BY <1>0, <2>1, Zenon DEF RtcStates, TransportStates
  <2> QED
    BY <2>2, Zenon DEF RtcInv, RtcStateTruthful
<1>5. CASE InboundChannel
  <2>1. CASE rtc' = [rtc EXCEPT !.inbound = "connecting"] /\ rtc.inbound = "none"
    <3>1. rtc' \in RtcStates /\ rtc'.own = rtc.own /\ rtc'.state = rtc.state
      BY <1>0, <2>1, Zenon DEF RtcStates
    <3> QED
      BY <2>1, <3>1, Zenon DEF RtcInv, RtcStateTruthful
  <2>2. CASE rtc' = [rtc EXCEPT !.inbound = "open", !.state = "Connected"]
    <3>1. rtc' \in RtcStates /\ rtc'.inbound = "open"
      BY <1>0, <2>2, Zenon DEF RtcStates, TransportStates
    <3> QED
      BY <3>1, Zenon DEF RtcInv, RtcStateTruthful
  <2> QED
    BY <1>5, <2>1, <2>2, Zenon DEF InboundChannel
<1>12. CASE ChannelErrors
  <2>1. rtc' = [rtc EXCEPT !.state = "Error"]
    BY <1>12, Zenon DEF ChannelErrors
  <2>2. rtc' \in RtcStates /\ rtc'.state = "Error" /\ rtc'.own = rtc.own
    BY <1>0, <2>1, Zenon DEF RtcStates, TransportStates
  <2> QED
    BY <2>2, Zenon DEF RtcInv, RtcStateTruthful
<1>6. CASE RemoteCloses \/ RtcClose
  <2> DEFINE in == IF rtc.inbound = "none" THEN rtc.inbound ELSE "closed"
  <2>1. rtc' = [rtc EXCEPT !.own = "closed", !.inbound = in, !.signaling = "closed",
                           !.state = "Disconnected"]
    BY <1>6, Zenon DEF RemoteCloses, RtcClose
  <2>2. in \in {"none", "connecting", "open", "closed"}
    BY <1>0, Zenon DEF RtcStates
  <2> HIDE DEF in
  <2>3. rtc' \in RtcStates /\ rtc'.state = "Disconnected"
    BY <1>0, <2>1, <2>2, Zenon DEF RtcStates, TransportStates
  <2> QED
    BY <2>3, Zenon DEF RtcInv, RtcStateTruthful
<1>7. CASE GatherCandidate
  <2>1. rtc' = [rtc EXCEPT !.candidates = 1 - rtc.candidates]
    BY <1>7, Zenon DEF GatherCandidate
  <2>2. 1 - rtc.candidates \in 0..1
    BY <1>0 DEF RtcStates
  <2>3. /\ rtc' \in RtcStates
        /\ rtc'.state = rtc.state /\ rtc'.own = rtc.own /\ rtc'.inbound = rtc.inbound
    BY <1>0, <2>1, <2>2, Zenon DEF RtcStates
  <2> QED
    BY <2>3, Zenon DEF RtcInv, RtcStateTruthful
<1>8. CASE \/ BridgeConnect \/ ReconnectDue \/ BridgeDisconnect
           \/ \E i \in Sockets : BridgeOpened(i) \/ BridgeErrored(i) \/ BridgeClosed(i)
           \/ \E q \in Requests : SendRequest(q) \/ AnswerRequest(q)
  BY <1>1, <1>8, Zenon DEF BridgeConnect, ReconnectDue, BridgeDisconnect, BridgeOpened, BridgeErrored,
                    BridgeClosed, SendRequest, AnswerRequest
<1>9. CASE \/ RelayConnect \/ RelayDisconnect
           \/ \E i \in Sockets : RelayOpened(i) \/ RelayErrored(i) \/ RelayClosed(i)
           \/ \E m \in Payloads : SendEnvelope(m)
  BY <1>1, <1>9, Zenon DEF RelayConnect, RelayDisconnect, RelayOpened, RelayErrored, RelayClosed,
                    SendEnvelope
<1>10. CASE UNCHANGED webVars
  BY <1>1, <1>10, Zenon DEF webVars
<1> QED
  BY <1>2, <1>3, <1>4, <1>5, <1>12, <1>6, <1>7, <1>8, <1>9, <1>10, Zenon DEF WebNext
-----------------------------------------------------------------------------
(* A connection made so far: the table it was made for, and whether it is  *)
(* open and has its handlers.                                              *)
HandleRecords == [table : {"websocket", "rtc", "relay", "peer"}, open : BOOLEAN, hooked : BOOLEAN]

(* The entries of a table are connections made for it.                     *)
OwnedBy(table, kind, hs) ==
    \A n \in DOMAIN table : table[n] \in DOMAIN hs /\ hs[table[n]].table = kind

(* The connections that are in a table.                                    *)
Held ==
    Holding(websockets) \cup Holding(rtcConnections) \cup Holding(meshRelays) \cup Holding(meshPeers)

(* The tables hold connections of their own kind, the relays of a          *)
(* transport that is not connected are closed, and the names are counted.  *)
Owned ==
    /\ handles \in Seq(HandleRecords)
    /\ OwnedBy(websockets, "websocket", handles) /\ OwnedBy(rtcConnections, "rtc", handles)
    /\ OwnedBy(meshRelays, "relay", handles) /\ OwnedBy(meshPeers, "peer", handles)

(* A transport that is not connected has closed its relays.                *)
RelaysStopped ==
    meshState # "Connected" => \A n \in DOMAIN meshRelays : ~handles[meshRelays[n]].open

(* What ConnectionManager counts.                                          *)
Counting ==
    /\ IsFiniteSet(DOMAIN websockets) /\ IsFiniteSet(DOMAIN rtcConnections) /\ overwrites \in Nat
    /\ CountExact

(* What every operation keeps of the tables.                               *)
PoolInv == Owned /\ RelaysStopped /\ NoOrphans /\ Counting

(* The two ways the connections made so far change: c is made while the    *)
(* handlers of gone are taken off, or gone are closed.                     *)
Grown(hs, c, gone) ==
    /\ hs \in Seq(HandleRecords)
    /\ NewHandle \notin DOMAIN handles /\ DOMAIN hs = DOMAIN handles \cup {NewHandle}
    /\ hs[NewHandle] = c
    /\ \A h \in DOMAIN handles :
          /\ hs[h].table = handles[h].table /\ hs[h].open = handles[h].open
          /\ hs[h].hooked => handles[h].hooked /\ h \notin gone

(* The connections of gone are closed, and none is opened.                 *)
Shrunk(hs, gone) ==
    /\ hs \in Seq(HandleRecords) /\ DOMAIN hs = DOMAIN handles
    /\ \A h \in DOMAIN handles :
          /\ hs[h].table = handles[h].table
          /\ hs[h].open => handles[h].open /\ h \notin gone
          /\ hs[h].hooked => handles[h].hooked

(* A function with the domain of a sequence is one.                        *)
LEMMA MappedIsSeq ==
    ASSUME NEW S, NEW s \in Seq(S), NEW f \in [DOMAIN s -> S]
    PROVE  f \in Seq(S) /\ DOMAIN f = DOMAIN s
  BY LenProperties, SeqDef

(* The elements of a sequence of connections are connections.              *)
LEMMA ElementsAre ==
    ASSUME NEW S, NEW s \in Seq(S)
    PROVE  \A h \in DOMAIN s : s[h] \in S
  BY ElementOfSeq, LenProperties, Zenon

(* A new connection leaves the others as they are.                         *)
LEMMA AppendedGrows ==
    ASSUME handles \in Seq(HandleRecords), NEW c \in HandleRecords
    PROVE  Grown(Append(handles, c), c, {})
<1>1. /\ Append(handles, c) \in Seq(HandleRecords)
      /\ Len(Append(handles, c)) = Len(handles) + 1
      /\ Append(handles, c)[Len(handles) + 1] = c
      /\ \A h \in 1 .. Len(handles) : Append(handles, c)[h] = handles[h]
  BY AppendProperties
<1>2. /\ DOMAIN handles = 1 .. Len(handles) /\ Len(handles) \in Nat
      /\ DOMAIN Append(handles, c) = 1 .. Len(Append(handles, c))
  BY <1>1, LenProperties, Zenon
<1>3. /\ NewHandle \notin DOMAIN handles
      /\ DOMAIN Append(handles, c) = DOMAIN handles \cup {NewHandle}
  BY <1>1, <1>2 DEF NewHandle
<1> QED
  BY <1>1, <1>2, <1>3, Zenon DEF Grown, NewHandle

(* Dropping a managed connection only takes its handlers off.              *)
LEMMA UnhookedGrows ==
    ASSUME handles \in Seq(HandleRecords), NEW c \in HandleRecords, NEW gone \in SUBSET DOMAIN handles
    PROVE  Grown(Unhooked(Opened(c), gone), c, gone)
<1> DEFINE more == Append(handles, c)
           hs == Unhooked(more, gone)
<1>1. Grown(more, c, {})
  BY AppendedGrows, Zenon
<1>2. more \in Seq(HandleRecords)
  BY <1>1, Zenon DEF Grown
<1> HIDE DEF more
<1>3. \A h \in DOMAIN more : more[h] \in HandleRecords
  BY <1>2, ElementsAre, Zenon
<1>4. ASSUME NEW h \in DOMAIN more
      PROVE  /\ hs[h] \in HandleRecords
             /\ hs[h].table = more[h].table /\ hs[h].open = more[h].open
             /\ hs[h].hooked => more[h].hooked /\ h \notin gone
             /\ h \notin gone => hs[h] = more[h]
  <2>1. hs[h] = IF h \in gone THEN [more[h] EXCEPT !.hooked = FALSE] ELSE more[h]
    BY Zenon DEF Unhooked
  <2>2. CASE h \in gone
    BY <1>3, <2>1, <2>2, Zenon DEF HandleRecords
  <2>3. CASE h \notin gone
    BY <1>3, <2>1, <2>3, Zenon
  <2> QED
    BY <2>2, <2>3, Zenon
<1>5. hs \in [DOMAIN more -> HandleRecords]
  BY <1>4, Zenon DEF Unhooked
<1>6. hs \in Seq(HandleRecords) /\ DOMAIN hs = DOMAIN more
  BY <1>2, <1>5, MappedIsSeq, Zenon
<1> HIDE DEF hs
<1>7. /\ NewHandle \notin DOMAIN handles /\ DOMAIN more = DOMAIN handles \cup {NewHandle}
      /\ more[NewHandle] = c
      /\ \A h \in DOMAIN handles : /\ more[h].table = handles[h].table
                                   /\ more[h].open = handles[h].open
                                   /\ more[h].hooked => handles[h].hooked
  BY <1>1, Zenon DEF Grown
<1>8. Grown(hs, c, gone)
  BY <1>4, <1>6, <1>7, Zenon DEF Grown
<1> QED
  BY <1>8, Zenon DEF hs, more, Opened

(* Closing some connections opens none.                                    *)
LEMMA ClosedShrinks ==
    ASSUME handles \in Seq(HandleRecords), NEW gone, NEW hs,
           DOMAIN hs = DOMAIN handles, hs = [h \in DOMAIN handles |-> hs[h]],
           \A h \in DOMAIN handles :
              hs[h] \in IF h \in gone THEN {[handles[h] EXCEPT !.open = FALSE],
                                            [handles[h] EXCEPT !.open = FALSE, !.hooked = FALSE]}
                        ELSE {handles[h]}
    PROVE  Shrunk(hs, gone)
<1>1. \A h \in DOMAIN handles : handles[h] \in HandleRecords
  BY ElementsAre, Zenon
<1>2. ASSUME NEW h \in DOMAIN handles
      PROVE  /\ hs[h] \in HandleRecords /\ hs[h].table = handles[h].table
             /\ hs[h].open => handles[h].open /\ h \notin gone
             /\ hs[h].hooked => handles[h].hooked
  <2>1. CASE h \notin gone
    BY <1>1, <2>1, Zenon
  <2>2. CASE hs[h] = [handles[h] EXCEPT !.open = FALSE]
    BY <1>1, <2>2, Zenon DEF HandleRecords
  <2>3. CASE hs[h] = [handles[h] EXCEPT !.open = FALSE, !.hooked = FALSE]
    BY <1>1, <2>3, Zenon DEF HandleRecords
  <2> QED
    BY <2>1, <2>2, <2>3, Zenon
<1>3. hs \in [DOMAIN handles -> HandleRecords]
  BY <1>2, Zenon
<1>4. hs \in Seq(HandleRecords)
  BY <1>3, MappedIsSeq, Zenon
<1> QED
  BY <1>2, <1>4, Zenon DEF Shrunk

(* The close of managed connections is such a closing.                     *)
LEMMA ClosedHandlesShrinks ==
    ASSUME handles \in Seq(HandleRecords), NEW gone
    PROVE  Shrunk(ClosedHandles(gone), gone)
<1> DEFINE hs == ClosedHandles(gone)
<1>1. /\ DOMAIN hs = DOMAIN handles /\ hs = [h \in DOMAIN handles |-> hs[h]]
      /\ \A h \in DOMAIN handles :
            hs[h] = IF h \in gone THEN [handles[h] EXCEPT !.open = FALSE, !.hooked = FALSE]
                    ELSE handles[h]
  BY Zenon DEF ClosedHandles
<1> HIDE DEF hs
<1>2. Shrunk(hs, gone)
  BY <1>1, ClosedShrinks, Zenon
<1> QED
  BY <1>2, Zenon DEF hs

(* Entering and leaving a table.                                           *)
LEMMA InsertedHolds ==
    ASSUME NEW table, NEW n, NEW h
    PROVE  /\ DOMAIN Inserted(table, n, h) = DOMAIN table \cup {n}
           /\ \A k \in DOMAIN Inserted(table, n, h) :
                 Inserted(table, n, h)[k] = IF k = n THEN h ELSE table[k]
           /\ h \in Holding(Inserted(table, n, h))
           /\ Holding(table) \subseteq Holding(Inserted(table, n, h)) \cup Overwritten(table, n)
           /\ Overwritten(table, n) \subseteq Holding(table)
  BY Zenon DEF Inserted, Holding, Overwritten

(* What leaves a table is what it had under the name.                      *)
LEMMA RemovedHolds ==
    ASSUME NEW table, NEW n \in DOMAIN table
    PROVE  /\ DOMAIN Removed(table, n) = DOMAIN table \ {n}
           /\ \A k \in DOMAIN Removed(table, n) : Removed(table, n)[k] = table[k]
           /\ Holding(table) \subseteq Holding(Removed(table, n)) \cup {table[n]}
  BY Zenon DEF Removed, Holding

(* An insert overwrites one entry or none.                                 *)
LEMMA OverwrittenCount ==
    ASSUME NEW table, NEW n
    PROVE  Cardinality(Overwritten(table, n)) = IF n \in DOMAIN table THEN 1 ELSE 0
<1>1. CASE n \in DOMAIN table
  BY <1>1, FS_Singleton, Zenon DEF Overwritten
<1>2. CASE n \notin DOMAIN table
  BY <1>2, FS_EmptySet, Zenon DEF Overwritten
<1> QED
  BY <1>1, <1>2, Zenon
-----------------------------------------------------------------------------
(* Empty tables own everything that is open.                               *)
LEMMA PoolInitially == PoolInit => PoolInv
<1> SUFFICES ASSUME PoolInit PROVE PoolInv
  BY Zenon
<1>1. DOMAIN EmptyTable = {}
  BY Zenon DEF EmptyTable
<1>2. handles \in Seq(HandleRecords) /\ DOMAIN handles = {}
  BY DEF PoolInit
<1>3. websockets = EmptyTable /\ rtcConnections = EmptyTable /\ connectionCount = 0
      /\ overwrites = 0 /\ meshRelays = EmptyTable /\ meshPeers = EmptyTable
  BY Zenon DEF PoolInit, MeshInit
<1> QED
  BY <1>1, <1>2, <1>3, FS_EmptySet DEF PoolInv, Owned, RelaysStopped, Counting, OwnedBy,
     NoOrphans,
                                       CountExact

(* A table keeps owning its connections when handles are added or closed.  *)
LEMMA StaysOwned ==
    ASSUME NEW table, NEW kind, OwnedBy(table, kind, handles), NEW hs,
           DOMAIN handles \subseteq DOMAIN hs,
           \A h \in DOMAIN handles : hs[h].table = handles[h].table
    PROVE  OwnedBy(table, kind, hs)
  BY Zenon DEF OwnedBy

(* A table owns the connection that was added to it.                       *)
LEMMA InsertedStaysOwned ==
    ASSUME NEW table, NEW kind, OwnedBy(table, kind, handles), NEW n, NEW c, NEW gone, NEW hs,
           Grown(hs, c, gone), c.table = kind
    PROVE  OwnedBy(Inserted(table, n, NewHandle), kind, hs)
<1> DEFINE new == Inserted(table, n, NewHandle)
<1> SUFFICES ASSUME NEW k \in DOMAIN new PROVE new[k] \in DOMAIN hs /\ hs[new[k]].table = kind
  BY Zenon DEF OwnedBy
<1>1. DOMAIN new = DOMAIN table \cup {n} /\ new[k] = IF k = n THEN NewHandle ELSE table[k]
  BY Zenon DEF Inserted
<1> HIDE DEF new
<1>2. CASE k = n
  BY <1>1, <1>2, Zenon DEF Grown
<1>3. CASE k # n
  BY <1>1, <1>3 DEF Grown, OwnedBy
<1> QED
  BY <1>2, <1>3, Zenon

(* Every connection that loses its entry in a table while it is open was   *)
(* superseded there, and is no relay.                                      *)
LEMMA GrowKeepsOrphans ==
    ASSUME NoOrphans, NEW c, NEW gone, Grown(handles', c, gone),
           NEW lost, superseded' = superseded \cup lost,
           NewHandle \in Held', Held \subseteq Held' \cup lost,
           \A h \in lost \cap DOMAIN handles : handles[h].open =>
              /\ handles[h].table # "relay"
              /\ handles[h].table \in {"websocket", "rtc"} => h \in gone
    PROVE  NoOrphans'
<1> SUFFICES ASSUME NEW h \in DOMAIN handles', handles'[h].open
             PROVE  \/ h \in Held'
                    \/ /\ h \in superseded' /\ handles'[h].table # "relay"
                       /\ handles'[h].table \in {"websocket", "rtc"} => ~handles'[h].hooked
  BY Zenon DEF NoOrphans, Held
<1>1. CASE h = NewHandle
  BY <1>1, Zenon
<1>2. CASE h # NewHandle
  <2>1. /\ h \in DOMAIN handles /\ handles[h].open /\ handles'[h].table = handles[h].table
        /\ handles'[h].hooked => handles[h].hooked /\ h \notin gone
    BY <1>2, Zenon DEF Grown
  <2>2. \/ h \in Held
        \/ /\ h \in superseded /\ handles[h].table # "relay"
           /\ handles[h].table \in {"websocket", "rtc"} => ~handles[h].hooked
    BY <2>1, Zenon DEF NoOrphans, Held
  <2> QED
    BY <2>1, <2>2, Zenon
<1> QED
  BY <1>1, <1>2, Zenon

(* Closing what leaves the tables leaves no orphans.                       *)
LEMMA ShrinkKeepsOrphans ==
    ASSUME NoOrphans, NEW gone, Shrunk(handles', gone), superseded' = superseded,
           Held \subseteq Held' \cup gone
    PROVE  NoOrphans'
<1> SUFFICES ASSUME NEW h \in DOMAIN handles', handles'[h].open
             PROVE  \/ h \in Held'
                    \/ /\ h \in superseded' /\ handles'[h].table # "relay"
                       /\ handles'[h].table \in {"websocket", "rtc"} => ~handles'[h].hooked
  BY Zenon DEF NoOrphans, Held
<1>1. /\ h \in DOMAIN handles /\ handles[h].open /\ handles'[h].table = handles[h].table
      /\ handles'[h].hooked => handles[h].hooked
      /\ h \notin gone
  BY Zenon DEF Shrunk
<1>2. \/ h \in Held
      \/ /\ h \in superseded /\ handles[h].table # "relay"
         /\ handles[h].table \in {"websocket", "rtc"} => ~handles[h].hooked
  BY <1>1, Zenon DEF NoOrphans, Held
<1> QED
  BY <1>1, <1>2, Zenon

(* The relays of a stopped transport stay closed when connections of other *)
(* tables come and go.                                                     *)
LEMMA RelaysStayStopped ==
    ASSUME RelaysStopped, OwnedBy(meshRelays, "relay", handles), UNCHANGED <<meshRelays, meshState>>,
           \A h \in DOMAIN handles : handles'[h].open => handles[h].open
    PROVE  RelaysStopped'
  BY Zenon DEF RelaysStopped, OwnedBy

(* How an insert and a removal change the number of entries.               *)
LEMMA TableCounts ==
    ASSUME NEW table, NEW n, IsFiniteSet(DOMAIN table), NEW h
    PROVE  /\ IsFiniteSet(DOMAIN Inserted(table, n, h)) /\ Cardinality(DOMAIN table) \in Nat
           /\ Cardinality(DOMAIN Inserted(table, n, h)) + Cardinality(Overwritten(table, n)) =
                 Cardinality(DOMAIN table) + 1
           /\ Cardinality(Overwritten(table, n)) \in 0..1
           /\ n \in DOMAIN table =>
                 /\ IsFiniteSet(DOMAIN Removed(table, n))
                 /\ Cardinality(DOMAIN Removed(table, n)) = Cardinality(DOMAIN table) - 1
                 /\ Cardinality(DOMAIN table) > 0
<1>1. Cardinality(DOMAIN table) \in Nat
  BY FS_CardinalityType, Zenon
<1>2. DOMAIN Inserted(table, n, h) = DOMAIN table \cup {n}
  BY InsertedHolds, Zenon
<1>3. /\ IsFiniteSet(DOMAIN table \cup {n})
      /\ Cardinality(DOMAIN table \cup {n}) =
            IF n \in DOMAIN table THEN Cardinality(DOMAIN table) ELSE Cardinality(DOMAIN table) + 1
  BY FS_AddElement, Zenon
<1>4. Cardinality(Overwritten(table, n)) = IF n \in DOMAIN table THEN 1 ELSE 0
  BY OverwrittenCount, Zenon
<1>5. ASSUME n \in DOMAIN table
      PROVE  /\ IsFiniteSet(DOMAIN Removed(table, n))
             /\ Cardinality(DOMAIN Removed(table, n)) = Cardinality(DOMAIN table) - 1
             /\ Cardinality(DOMAIN table) > 0
  <2>1. DOMAIN Removed(table, n) = DOMAIN table \ {n}
    BY <1>5, RemovedHolds, Zenon
  <2>2. /\ IsFiniteSet(DOMAIN table \ {n})
        /\ Cardinality(DOMAIN table \ {n}) = Cardinality(DOMAIN table) - 1
    BY <1>5, FS_RemoveElement, Zenon
  <2>3. Cardinality(DOMAIN table) # 0
    BY <1>5, FS_EmptySet, Zenon
  <2> QED
    BY <1>1, <2>1, <2>2, <2>3
<1>6. Cardinality(DOMAIN table \cup {n}) + Cardinality(Overwritten(table, n)) =
          Cardinality(DOMAIN table) + 1
  BY <1>1, <1>3, <1>4
<1> QED
  BY <1>1, <1>2, <1>3, <1>4, <1>5, <1>6

(* add_websocket keeps the tables sound.                                   *)
LEMMA AddWebsocketKeeps ==
    ASSUME PoolInv, NEW n \in PoolNames, AddWebsocket(n)
    PROVE  PoolInv'
<1> DEFINE old == Overwritten(websockets, n)
           c == ManagedWebSocket
<1>1. /\ handles' = Unhooked(Opened(c), old) /\ websockets' = Inserted(websockets, n, NewHandle)
      /\ connectionCount' = connectionCount + 1
      /\ superseded' = superseded \cup old /\ overwrites' = overwrites + Cardinality(old)
      /\ UNCHANGED <<rtcConnections, meshRelays, meshPeers, meshState>>
  BY Zenon DEF AddWebsocket, meshVars
<1>2. c \in HandleRecords /\ c.table = "websocket"
  BY Zenon DEF ManagedWebSocket, HandleRecords
<1> HIDE DEF c
<1>3. \A h \in old : h \in DOMAIN handles /\ handles[h].table = "websocket"
  BY Zenon DEF Overwritten, PoolInv, Owned, OwnedBy
<1>4. old \in SUBSET DOMAIN handles
  BY <1>3, Zenon
<1>5. Grown(handles', c, old)
  BY <1>1, <1>2, <1>4, UnhookedGrows, Zenon DEF PoolInv, Owned
<1>6. /\ NewHandle \in Holding(websockets')
      /\ Holding(websockets) \subseteq Holding(websockets') \cup old
  BY <1>1, InsertedHolds, Zenon
<1> HIDE DEF old
<1>7. Owned'
  <2>1. OwnedBy(websockets', "websocket", handles')
    BY <1>1, <1>2, <1>5, InsertedStaysOwned, Zenon DEF PoolInv, Owned
  <2>2. /\ OwnedBy(rtcConnections, "rtc", handles') /\ OwnedBy(meshRelays, "relay", handles')
        /\ OwnedBy(meshPeers, "peer", handles')
    BY <1>5, StaysOwned, Zenon DEF PoolInv, Owned, Grown
  <2>3. handles' \in Seq(HandleRecords)
    BY <1>5, Zenon DEF Grown
  <2> QED
    BY <1>1, <2>1, <2>2, <2>3, Zenon DEF Owned
<1>8. RelaysStopped'
  BY <1>1, <1>5, RelaysStayStopped, Zenon DEF PoolInv, Owned, Grown
<1>9. NoOrphans'
  <2>1. NewHandle \in Held' /\ Held \subseteq Held' \cup old
    BY <1>1, <1>6, Zenon DEF Held
  <2> QED
    BY <1>1, <1>3, <1>5, <2>1, GrowKeepsOrphans, Zenon DEF PoolInv
<1>10. Counting'
  <2>1. /\ IsFiniteSet(DOMAIN websockets') /\ Cardinality(DOMAIN websockets) \in Nat
        /\ Cardinality(DOMAIN websockets') + Cardinality(old) = Cardinality(DOMAIN websockets) + 1
        /\ Cardinality(old) \in 0..1
    BY <1>1, TableCounts, Zenon DEF PoolInv, Counting, old
  <2>2. Cardinality(DOMAIN rtcConnections) \in Nat /\ Cardinality(DOMAIN websockets') \in Nat
    BY <2>1, FS_CardinalityType, Zenon DEF PoolInv, Counting
  <2> QED
    BY <1>1, <2>1, <2>2 DEF PoolInv, Counting, CountExact
<1> QED
  BY <1>7, <1>8, <1>9, <1>10, Zenon DEF PoolInv

(* add_rtc_connection keeps the tables sound.                              *)
LEMMA AddRtcConnectionKeeps ==
    ASSUME PoolInv, NEW n \in PoolNames, AddRtcConnection(n)
    PROVE  PoolInv'
<1> DEFINE old == Overwritten(rtcConnections, n)
           c == ManagedRtcConnection
<1>1. /\ handles' = Unhooked(Opened(c), old) /\ rtcConnections' = Inserted(rtcConnections, n, NewHandle)
      /\ connectionCount' = connectionCount + 1
      /\ superseded' = superseded \cup old /\ overwrites' = overwrites + Cardinality(old)
      /\ UNCHANGED <<websockets, meshRelays, meshPeers, meshState>>
  BY Zenon DEF AddRtcConnection, meshVars
<1>2. c \in HandleRecords /\ c.table = "rtc"
  BY Zenon DEF ManagedRtcConnection, HandleRecords
<1> HIDE DEF c
<1>3. \A h \in old : h \in DOMAIN handles /\ handles[h].table = "rtc"
  BY Zenon DEF Overwritten, PoolInv, Owned, OwnedBy
<1>4. old \in SUBSET DOMAIN handles
  BY <1>3, Zenon
<1>5. Grown(handles', c, old)
  BY <1>1, <1>2, <1>4, UnhookedGrows, Zenon DEF PoolInv, Owned
<1>6. /\ NewHandle \in Holding(rtcConnections')
      /\ Holding(rtcConnections) \subseteq Holding(rtcConnections') \cup old
  BY <1>1, InsertedHolds, Zenon
<1> HIDE DEF old
<1>7. Owned'
  <2>1. OwnedBy(rtcConnections', "rtc", handles')
    BY <1>1, <1>2, <1>5, InsertedStaysOwned, Zenon DEF PoolInv, Owned
  <2>2. /\ OwnedBy(websockets, "websocket", handles') /\ OwnedBy(meshRelays, "relay", handles')
        /\ OwnedBy(meshPeers, "peer", handles')
    BY <1>5, StaysOwned, Zenon DEF PoolInv, Owned, Grown
  <2>3. handles' \in Seq(HandleRecords)
    BY <1>5, Zenon DEF Grown
  <2> QED
    BY <1>1, <2>1, <2>2, <2>3, Zenon DEF Owned
<1>8. RelaysStopped'
  BY <1>1, <1>5, RelaysStayStopped, Zenon DEF PoolInv, Owned, Grown
<1>9. NoOrphans'
  <2>1. NewHandle \in Held' /\ Held \subseteq Held' \cup old
    BY <1>1, <1>6, Zenon DEF Held
  <2> QED
    BY <1>1, <1>3, <1>5, <2>1, GrowKeepsOrphans, Zenon DEF PoolInv
<1>10. Counting'
  <2>1. /\ IsFiniteSet(DOMAIN rtcConnections') /\ Cardinality(DOMAIN rtcConnections) \in Nat
        /\ Cardinality(DOMAIN rtcConnections') + Cardinality(old) =
              Cardinality(DOMAIN rtcConnections) + 1
        /\ Cardinality(old) \in 0..1
    BY <1>1, TableCounts, Zenon DEF PoolInv, Counting, old
  <2>2. Cardinality(DOMAIN websockets) \in Nat /\ Cardinality(DOMAIN rtcConnections') \in Nat
    BY <2>1, FS_CardinalityType, Zenon DEF PoolInv, Counting
  <2> QED
    BY <1>1, <2>1, <2>2 DEF PoolInv, Counting, CountExact
<1> QED
  BY <1>7, <1>8, <1>9, <1>10, Zenon DEF PoolInv

(* A step that only closes connections, and takes them out of a table.     *)
LEMMA CloseKeeps ==
    ASSUME PoolInv, NEW gone, Shrunk(handles', gone), superseded' = superseded,
           Held \subseteq Held' \cup gone,
           \A k \in DOMAIN websockets' : k \in DOMAIN websockets /\ websockets'[k] = websockets[k],
           \A k \in DOMAIN rtcConnections' :
              k \in DOMAIN rtcConnections /\ rtcConnections'[k] = rtcConnections[k],
           \A k \in DOMAIN meshPeers' : k \in DOMAIN meshPeers /\ meshPeers'[k] = meshPeers[k],
           UNCHANGED meshRelays,
           UNCHANGED meshState \/ Holding(meshRelays) \subseteq gone,
           Counting'
    PROVE  PoolInv'
<1>1. Owned'
  <2>1. /\ OwnedBy(websockets, "websocket", handles') /\ OwnedBy(rtcConnections, "rtc", handles')
        /\ OwnedBy(meshRelays, "relay", handles') /\ OwnedBy(meshPeers, "peer", handles')
    BY StaysOwned, Zenon DEF PoolInv, Owned, Shrunk
  <2>2. /\ OwnedBy(websockets', "websocket", handles') /\ OwnedBy(rtcConnections', "rtc", handles')
        /\ OwnedBy(meshPeers', "peer", handles')
    BY <2>1 DEF OwnedBy
  <2> QED
    BY <2>1, <2>2, Zenon DEF Owned, Shrunk
<1>2. RelaysStopped'
  <2>1. CASE UNCHANGED meshState
    BY <2>1, RelaysStayStopped, Zenon DEF PoolInv, Owned, Shrunk
  <2>2. CASE Holding(meshRelays) \subseteq gone
    BY <2>2 DEF RelaysStopped, Holding, Shrunk, PoolInv, Owned, OwnedBy
  <2> QED
    BY <2>1, <2>2, Zenon
<1>3. NoOrphans'
  BY ShrinkKeepsOrphans, Zenon DEF PoolInv
<1> QED
  BY <1>1, <1>2, <1>3, Zenon DEF PoolInv

(* remove_websocket and remove_rtc_connection keep the tables sound.       *)
LEMMA RemoveManagedKeeps ==
    ASSUME PoolInv, NEW n \in PoolNames, RemoveWebsocket(n) \/ RemoveRtcConnection(n)
    PROVE  PoolInv'
<1>0. /\ handles \in Seq(HandleRecords) /\ IsFiniteSet(DOMAIN websockets)
      /\ IsFiniteSet(DOMAIN rtcConnections)
      /\ Cardinality(DOMAIN websockets) \in Nat /\ Cardinality(DOMAIN rtcConnections) \in Nat
      /\ overwrites \in Nat
      /\ connectionCount = Cardinality(DOMAIN websockets) + Cardinality(DOMAIN rtcConnections)
                             + overwrites
  BY FS_CardinalityType, Zenon DEF PoolInv, Owned, Counting, CountExact
<1>1. CASE RemoveWebsocket(n)
  <2> DEFINE gone == {websockets[n]}
  <2>1. /\ n \in DOMAIN websockets /\ handles' = ClosedHandles(gone)
        /\ websockets' = Removed(websockets, n)
        /\ connectionCount' = IF connectionCount > 0 THEN connectionCount - 1 ELSE 0
        /\ UNCHANGED <<rtcConnections, superseded, overwrites, meshRelays, meshPeers, meshState>>
    BY <1>1, Zenon DEF RemoveWebsocket, meshVars
  <2>2. Shrunk(handles', gone)
    BY <1>0, <2>1, ClosedHandlesShrinks, Zenon
  <2>3. /\ \A k \in DOMAIN websockets' : k \in DOMAIN websockets /\ websockets'[k] = websockets[k]
        /\ Holding(websockets) \subseteq Holding(websockets') \cup gone
    <3>1. /\ DOMAIN Removed(websockets, n) = DOMAIN websockets \ {n}
          /\ \A k \in DOMAIN Removed(websockets, n) : Removed(websockets, n)[k] = websockets[k]
          /\ Holding(websockets) \subseteq Holding(Removed(websockets, n)) \cup {websockets[n]}
      BY <2>1, RemovedHolds, Zenon
    <3> QED
      BY <2>1, <3>1, Zenon
  <2>4. Held \subseteq Held' \cup gone
    BY <2>1, <2>3, Zenon DEF Held
  <2>5. Counting'
    <3>1. /\ IsFiniteSet(DOMAIN websockets')
          /\ Cardinality(DOMAIN websockets') = Cardinality(DOMAIN websockets) - 1
          /\ Cardinality(DOMAIN websockets) > 0
      BY <1>0, <2>1, TableCounts, Zenon
    <3> QED
      BY <1>0, <2>1, <3>1 DEF Counting, CountExact
  <2> HIDE DEF gone
  <2> QED
    BY <2>1, <2>2, <2>3, <2>4, <2>5, CloseKeeps, Zenon
<1>2. CASE RemoveRtcConnection(n)
  <2> DEFINE gone == {rtcConnections[n]}
  <2>1. /\ n \in DOMAIN rtcConnections /\ handles' = ClosedHandles(gone)
        /\ rtcConnections' = Removed(rtcConnections, n)
        /\ connectionCount' = IF connectionCount > 0 THEN connectionCount - 1 ELSE 0
        /\ UNCHANGED <<websockets, superseded, overwrites, meshRelays, meshPeers, meshState>>
    BY <1>2, Zenon DEF RemoveRtcConnection, meshVars
  <2>2. Shrunk(handles', gone)
    BY <1>0, <2>1, ClosedHandlesShrinks, Zenon
  <2>3. /\ \A k \in DOMAIN rtcConnections' :
              k \in DOMAIN rtcConnections /\ rtcConnections'[k] = rtcConnections[k]
        /\ Holding(rtcConnections) \subseteq Holding(rtcConnections') \cup gone
    <3>1. /\ DOMAIN Removed(rtcConnections, n) = DOMAIN rtcConnections \ {n}
          /\ \A k \in DOMAIN Removed(rtcConnections, n) : Removed(rtcConnections, n)[k] = rtcConnections[k]
          /\ Holding(rtcConnections) \subseteq Holding(Removed(rtcConnections, n)) \cup {rtcConnections[n]}
      BY <2>1, RemovedHolds, Zenon
    <3> QED
      BY <2>1, <3>1, Zenon
  <2>4. Held \subseteq Held' \cup gone
    BY <2>1, <2>3, Zenon DEF Held
  <2>5. Counting'
    <3>1. /\ IsFiniteSet(DOMAIN rtcConnections')
          /\ Cardinality(DOMAIN rtcConnections') = Cardinality(DOMAIN rtcConnections) - 1
          /\ Cardinality(DOMAIN rtcConnections) > 0
      BY <1>0, <2>1, TableCounts, Zenon
    <3> QED
      BY <1>0, <2>1, <3>1 DEF Counting, CountExact
  <2> HIDE DEF gone
  <2> QED
    BY <2>1, <2>2, <2>3, <2>4, <2>5, CloseKeeps, Zenon
<1> QED
  BY <1>1, <1>2, Zenon

(* close_all keeps the tables sound.                                       *)
LEMMA CloseAllKeeps == PoolInv /\ CloseAll => PoolInv'
<1> SUFFICES ASSUME PoolInv, CloseAll PROVE PoolInv'
  BY Zenon
<1> DEFINE gone == Holding(websockets) \cup Holding(rtcConnections)
<1>1. /\ handles' = ClosedHandles(gone) /\ websockets' = EmptyTable /\ rtcConnections' = EmptyTable
      /\ connectionCount' = 0 /\ overwrites' = 0
      /\ UNCHANGED <<superseded, meshRelays, meshPeers, meshState>>
  BY Zenon DEF CloseAll, meshVars
<1>2. DOMAIN EmptyTable = {}
  BY Zenon DEF EmptyTable
<1>3. Shrunk(handles', gone)
  BY <1>1, ClosedHandlesShrinks, Zenon DEF PoolInv, Owned
<1>4. Held \subseteq Held' \cup gone
  BY <1>1, Zenon DEF Held
<1>5. Counting'
  BY <1>1, <1>2, FS_EmptySet DEF Counting, CountExact
<1> HIDE DEF gone
<1> QED
  BY <1>1, <1>2, <1>3, <1>4, <1>5, CloseKeeps, Zenon

(* start keeps the tables sound: a relay it overwrites was stopped before. *)
LEMMA StartTransportKeeps == PoolInv /\ StartTransport => PoolInv'
<1> SUFFICES ASSUME PoolInv, StartTransport PROVE PoolInv'
  BY Zenon
<1> DEFINE c == Unmanaged("relay")
<1>1. PICK n \in PoolNames :
          /\ handles' = Append(handles, c) /\ meshRelays' = Inserted(meshRelays, n, NewHandle)
          /\ superseded' = superseded \cup Overwritten(meshRelays, n)
  BY Zenon DEF StartTransport, Opened
<1> DEFINE old == Overwritten(meshRelays, n)
<1>2. /\ meshState # "Connected" /\ meshState' = "Connected"
      /\ UNCHANGED <<meshPeers, websockets, rtcConnections, connectionCount, overwrites>>
  BY Zenon DEF StartTransport, transportManagerVars
<1>3. c \in HandleRecords /\ c.table = "relay"
  BY Zenon DEF Unmanaged, HandleRecords
<1> HIDE DEF c
<1>4. Grown(handles', c, {})
  BY <1>1, <1>3, AppendedGrows, Zenon DEF PoolInv, Owned
<1>5. \A h \in old : ~handles[h].open
  BY <1>2, Zenon DEF PoolInv, RelaysStopped, Overwritten
<1>6. /\ NewHandle \in Holding(meshRelays')
      /\ Holding(meshRelays) \subseteq Holding(meshRelays') \cup old
  BY <1>1, InsertedHolds, Zenon
<1> HIDE DEF old
<1>7. Owned'
  <2>1. OwnedBy(meshRelays', "relay", handles')
    BY <1>1, <1>3, <1>4, InsertedStaysOwned, Zenon DEF PoolInv, Owned
  <2>2. /\ OwnedBy(websockets, "websocket", handles') /\ OwnedBy(rtcConnections, "rtc", handles')
        /\ OwnedBy(meshPeers, "peer", handles')
    BY <1>4, StaysOwned, Zenon DEF PoolInv, Owned, Grown
  <2>3. handles' \in Seq(HandleRecords)
    BY <1>4, Zenon DEF Grown
  <2> QED
    BY <1>2, <2>1, <2>2, <2>3, Zenon DEF Owned
<1>8. NoOrphans'
  <2>1. NewHandle \in Held' /\ Held \subseteq Held' \cup old
    BY <1>2, <1>6, Zenon DEF Held
  <2>2. superseded' = superseded \cup old
    BY <1>1, Zenon DEF old
  <2> QED
    BY <1>4, <1>5, <2>1, <2>2, GrowKeepsOrphans, Zenon DEF PoolInv
<1>9. RelaysStopped' /\ Counting'
  BY <1>2, Zenon DEF RelaysStopped, PoolInv, Counting, CountExact
<1> QED
  BY <1>7, <1>8, <1>9, Zenon DEF PoolInv

(* add_peer keeps the tables sound.                                        *)
LEMMA AddPeerKeeps ==
    ASSUME PoolInv, NEW n \in PoolNames, AddPeer(n)
    PROVE  PoolInv'
<1> DEFINE c == Unmanaged("peer")
           old == Overwritten(meshPeers, n)
<1>1. /\ handles' = Append(handles, c) /\ meshPeers' = Inserted(meshPeers, n, NewHandle)
      /\ superseded' = superseded \cup old
      /\ UNCHANGED <<meshRelays, meshState, websockets, rtcConnections, connectionCount, overwrites>>
  BY Zenon DEF AddPeer, Opened, transportManagerVars
<1>2. c \in HandleRecords /\ c.table = "peer"
  BY Zenon DEF Unmanaged, HandleRecords
<1> HIDE DEF c
<1>3. Grown(handles', c, {})
  BY <1>1, <1>2, AppendedGrows, Zenon DEF PoolInv, Owned
<1>4. \A h \in old : handles[h].table = "peer"
  BY Zenon DEF Overwritten, PoolInv, Owned, OwnedBy
<1>5. /\ NewHandle \in Holding(meshPeers')
      /\ Holding(meshPeers) \subseteq Holding(meshPeers') \cup old
  BY <1>1, InsertedHolds, Zenon
<1> HIDE DEF old
<1>6. Owned'
  <2>1. OwnedBy(meshPeers', "peer", handles')
    BY <1>1, <1>2, <1>3, InsertedStaysOwned, Zenon DEF PoolInv, Owned
  <2>2. /\ OwnedBy(websockets, "websocket", handles') /\ OwnedBy(rtcConnections, "rtc", handles')
        /\ OwnedBy(meshRelays, "relay", handles')
    BY <1>3, StaysOwned, Zenon DEF PoolInv, Owned, Grown
  <2>3. handles' \in Seq(HandleRecords)
    BY <1>3, Zenon DEF Grown
  <2> QED
    BY <1>1, <2>1, <2>2, <2>3, Zenon DEF Owned
<1>7. RelaysStopped'
  BY <1>1, <1>3, RelaysStayStopped, Zenon DEF PoolInv, Owned, Grown
<1>8. NoOrphans'
  <2>1. NewHandle \in Held' /\ Held \subseteq Held' \cup old
    BY <1>1, <1>5, Zenon DEF Held
  <2> QED
    BY <1>1, <1>3, <1>4, <2>1, GrowKeepsOrphans, Zenon DEF PoolInv
<1>9. Counting'
  BY <1>1, Zenon DEF PoolInv, Counting, CountExact
<1> QED
  BY <1>6, <1>7, <1>8, <1>9, Zenon DEF PoolInv

(* stop keeps the tables sound, and leaves no relay open.                  *)
LEMMA StopTransportKeeps == PoolInv /\ StopTransport => PoolInv'
<1> SUFFICES ASSUME PoolInv, StopTransport PROVE PoolInv'
  BY Zenon
<1> DEFINE gone == Holding(meshRelays) \cup Holding(meshPeers)
<1>1. /\ handles' = [h \in DOMAIN handles |->
                       IF h \in gone THEN [handles[h] EXCEPT !.open = FALSE] ELSE handles[h]]
      /\ UNCHANGED <<meshRelays, meshPeers, superseded, websockets, rtcConnections, connectionCount,
                     overwrites>>
  BY Zenon DEF StopTransport, transportManagerVars
<1>2. Holding(meshRelays) \subseteq gone
  BY Zenon
<1> HIDE DEF gone
<1>3. /\ DOMAIN handles' = DOMAIN handles /\ handles' = [h \in DOMAIN handles |-> handles'[h]]
      /\ \A h \in DOMAIN handles :
            handles'[h] = IF h \in gone THEN [handles[h] EXCEPT !.open = FALSE] ELSE handles[h]
  BY <1>1, Zenon
<1>4. Shrunk(handles', gone)
  BY <1>3, ClosedShrinks, Zenon DEF PoolInv, Owned
<1>5. Held \subseteq Held' \cup gone
  BY <1>1, Zenon DEF Held
<1>6. Counting'
  BY <1>1, Zenon DEF PoolInv, Counting, CountExact
<1> QED
  BY <1>1, <1>2, <1>4, <1>5, <1>6, CloseKeeps, Zenon

(* remove_peer keeps the tables sound.                                     *)
LEMMA RemovePeerKeeps ==
    ASSUME PoolInv, NEW n \in PoolNames, PoolRemovePeer(n)
    PROVE  PoolInv'
<1> DEFINE p == meshPeers[n]
<1>1. /\ n \in DOMAIN meshPeers /\ handles' = [handles EXCEPT ![p].open = FALSE]
      /\ meshPeers' = Removed(meshPeers, n)
      /\ UNCHANGED <<meshRelays, meshState, superseded, websockets, rtcConnections, connectionCount,
                     overwrites>>
  BY Zenon DEF PoolRemovePeer, transportManagerVars
<1>2. p \in DOMAIN handles
  BY <1>1, Zenon DEF PoolInv, Owned, OwnedBy
<1>3. /\ DOMAIN Removed(meshPeers, n) = DOMAIN meshPeers \ {n}
      /\ \A k \in DOMAIN Removed(meshPeers, n) : Removed(meshPeers, n)[k] = meshPeers[k]
      /\ Holding(meshPeers) \subseteq Holding(Removed(meshPeers, n)) \cup {p}
  BY <1>1, RemovedHolds, Zenon
<1> HIDE DEF p
<1>4. /\ DOMAIN handles' = DOMAIN handles /\ handles' = [h \in DOMAIN handles |-> handles'[h]]
      /\ \A h \in DOMAIN handles :
            handles'[h] = IF h \in {p} THEN [handles[h] EXCEPT !.open = FALSE] ELSE handles[h]
  BY <1>1, <1>2, Zenon
<1>5. Shrunk(handles', {p})
  BY <1>4, ClosedShrinks, Zenon DEF PoolInv, Owned
<1>6. Held \subseteq Held' \cup {p}
  BY <1>1, <1>3, Zenon DEF Held
<1>7. \A k \in DOMAIN meshPeers' : k \in DOMAIN meshPeers /\ meshPeers'[k] = meshPeers[k]
  BY <1>1, <1>3, Zenon
<1>8. Counting'
  BY <1>1, Zenon DEF PoolInv, Counting, CountExact
<1> QED
  BY <1>1, <1>5, <1>6, <1>7, <1>8, CloseKeeps, Zenon

(* Every operation keeps the tables sound.                                 *)
LEMMA PoolKept ==
    ASSUME PoolInv, [PoolNext]_poolVars
    PROVE  PoolInv'
<1>1. CASE UNCHANGED <<websockets, rtcConnections, connectionCount, meshRelays, meshPeers, meshState,
                       handles, superseded, overwrites>>
  BY <1>1 DEF PoolInv, Owned, OwnedBy, RelaysStopped, NoOrphans, Counting, CountExact, Holding
<1>2. CASE SubscribeFrames \/ FrameArrives \/ UNCHANGED poolVars
  BY <1>1, <1>2, Zenon DEF SubscribeFrames, FrameArrives, poolVars, transportManagerVars, meshVars
<1>3. ASSUME NEW n \in PoolNames,
             \/ AddWebsocket(n) \/ RemoveWebsocket(n) \/ AddRtcConnection(n) \/ RemoveRtcConnection(n)
             \/ AddPeer(n) \/ PoolRemovePeer(n)
      PROVE  PoolInv'
  BY <1>3, AddWebsocketKeeps, AddRtcConnectionKeeps, RemoveManagedKeeps, AddPeerKeeps,
     RemovePeerKeeps, Zenon
<1>4. CASE CloseAll \/ StartTransport \/ StopTransport
  BY <1>4, CloseAllKeeps, StartTransportKeeps, StopTransportKeeps, Zenon
<1> QED
  BY <1>2, <1>3, <1>4, Zenon DEF PoolNext

(* The browser starts with nothing connected.                              *)
LEMMA WebInitially == WebInit => BridgeInv /\ SentOnce /\ RtcInv
<1> SUFFICES ASSUME WebInit PROVE BridgeInv /\ SentOnce /\ RtcInv
  BY Zenon
<1>1. BridgeInv
  BY Zenon DEF WebInit, BridgeInv, BridgeNotWedged
<1>2. SentOnce
  BY Zenon DEF WebInit, SentOnce
<1>3. RtcInv
  BY DEF WebInit, RtcInv, RtcStates, TransportStates, RtcStateTruthful
<1> QED
  BY <1>1, <1>2, <1>3, Zenon

(* The browser's transports are sound for any number of sockets, payloads, *)
(* requests and names: a bridge that is wanted has a socket or a           *)
(* reconnection under way unless the browser refused the last socket it    *)
(* asked for, an envelope goes out at most once, WebRTC                    *)
(* reports Connected only with an open channel, and every open connection  *)
(* can be closed through its table and is counted                          *)
(* (wasm/src/daemon_bridge.rs, transport.rs, connection_state.rs).         *)
THEOREM SocketsStaySound == WebSpec /\ PoolSpec => []SocketsSound
<1>1. BridgeInv /\ [WebNext]_webVars => BridgeInv'
  BY BridgeKept, Zenon
<1>2. SentOnce /\ [WebNext]_webVars => SentOnce'
  BY SentOnceKept, Zenon
<1>3. RtcInv /\ [WebNext]_webVars => RtcInv'
  BY RtcKept, Zenon
<1>4. PoolInv /\ [PoolNext]_poolVars => PoolInv'
  BY PoolKept, Zenon
<1>5. BridgeInv /\ SentOnce /\ RtcInv /\ PoolInv => SocketsSound
  BY SentOnceImplies, Zenon DEF SocketsSound, BridgeInv, RtcInv, PoolInv, Counting
<1> QED
  BY <1>1, <1>2, <1>3, <1>4, <1>5, WebInitially, PoolInitially, PTL DEF WebSpec, PoolSpec

-----------------------------------------------------------------------------
(* The data directory of the daemon. *)

(* A store has its four parts.                                             *)
IsStore(s) == s = [id |-> s.id, contact |-> s.contact, blocked |-> s.blocked, history |-> s.history]

(* What a process may leave of a store: its identity, or the backup's.     *)
Follows(s, t) == IsStore(t) /\ (s.id # 0 => t.id \in {s.id, BackupIdentity})

(* Where a process is.                                                     *)
ProcessStates == [kind: {"none", "start", "relay", "command"},
                  at: {"none", "begun", "checked", "opened", "serving"},
                  port: UiPorts \cup {"none"}]

(* Whoever serves has the UI port it was started on.                       *)
Serves(p) == process[p].port \in UiPorts /\ uiPort[process[p].port] = p
OwnerInv ==
    /\ process \in [Processes -> ProcessStates] /\ uiPort = [u \in UiPorts |-> uiPort[u]]
    /\ \A p \in Processes: process[p].kind \in {"start", "relay"} => process[p].port \in UiPorts
    /\ \A p \in Processes: process[p].at = "serving" => Serves(p)
    /\ IsStore(disk)

(* A store follows itself.                                                 *)
LEMMA FollowsItself == ASSUME NEW s, IsStore(s) PROVE Follows(s, s)
  BY Zenon DEF Follows

(* Changes of a contact, of a block or of the history leave the identity.  *)
LEMMA PartsChanged ==
    ASSUME NEW s, IsStore(s)
    PROVE  /\ \A p, how: Follows(s, [s EXCEPT !.contact[p] = how])
           /\ \A p, how: Follows(s, [s EXCEPT !.history[p] = how])
           /\ \A h: Follows(s, [s EXCEPT !.history = h])
           /\ \A b: Follows(s, [s EXCEPT !.blocked = b])
<1> DEFINE Store(i, c, b, h) == [id |-> i, contact |-> c, blocked |-> b, history |-> h]
<1>1. PICK i, c, b, h: s = Store(i, c, b, h) /\ s.id = i
  BY Zenon DEF IsStore
<1>2. \A x, y, z: IsStore(Store(i, x, y, z)) /\ Store(i, x, y, z).id = i
  BY Zenon DEF IsStore
<1>3. \A x, y, z: Follows(s, Store(i, x, y, z))
  BY <1>1, <1>2, Zenon DEF Follows
<1>4. ASSUME NEW p, NEW how PROVE Follows(s, [s EXCEPT !.contact[p] = how])
  BY <1>1, <1>3
<1>5. ASSUME NEW p, NEW how PROVE Follows(s, [s EXCEPT !.history[p] = how])
  BY <1>1, <1>3
<1>6. ASSUME NEW x PROVE Follows(s, [s EXCEPT !.history = x])
  BY <1>1, <1>3
<1>7. ASSUME NEW x PROVE Follows(s, [s EXCEPT !.blocked = x])
  BY <1>1, <1>3
<1> QED
  BY <1>4, <1>5, <1>6, <1>7, Zenon

(* An identity is generated only for a store that has none.                *)
LEMMA InitializedFollows == ASSUME NEW s, IsStore(s) PROVE Follows(s, Initialized(s))
<1>1. CASE s.id # 0
  BY <1>1, Zenon DEF Initialized, Follows
<1>2. CASE s.id = 0
  <2>1. IsStore([s EXCEPT !.id = identities + 1])
    BY DEF IsStore
  <2> QED
    BY <1>2, <2>1, Zenon DEF Initialized, Follows
<1> QED
  BY <1>1, <1>2, Zenon

(* An import brings the identity of the backup.                            *)
LEMMA ImportedFollows == ASSUME NEW s, IsStore(s), NEW t \in ImportedIdentity(s) PROVE Follows(s, t)
<1>1. PICK f: t = [s EXCEPT !.id = BackupIdentity, !.contact = f]
  BY Zenon DEF ImportedIdentity
<1>2. IsStore(t) /\ t.id = BackupIdentity
  BY <1>1, Zenon DEF IsStore
<1> QED
  BY <1>2, Zenon DEF Follows

(* The commands, and the requests of the UI.                               *)
LEMMA CommandFollows ==
    ASSUME NEW s, IsStore(s), NEW t \in {s} \cup ContactCommand(s) \cup HistoryCommand(s)
    PROVE  Follows(s, t)
  BY FollowsItself, PartsChanged
     DEF ContactCommand, ContactChanges, HistoryCommand, HistoryDeleted

(* A request of the console changes the identity only by an import.        *)
LEMMA HandledFollows ==
    ASSUME NEW s, IsStore(s), NEW d, NEW t \in Handled(d, s)
    PROVE  Follows(s, t)
<1>1. \/ t = s \/ t \in RpcContacts(s) \/ t \in RpcHistory(s) \/ t \in RpcBlocking(s)
      \/ t \in RpcRequests(d, s) \/ t \in RpcImport(s)
  BY Zenon DEF Handled, RpcRefused, OnlyAnswered
<1>2. CASE t \in RpcContacts(s)
  BY <1>2, PartsChanged DEF RpcContacts, ContactChanges
<1>3. CASE t \in RpcHistory(s)
  BY <1>3, PartsChanged, FollowsItself DEF RpcHistory
<1>4. CASE t \in RpcBlocking(s)
  <2>1. \E b: t = [s EXCEPT !.blocked = b]
    <3>1. CASE \E p \in UiPeers, how \in {"peer", "device"}:
                 t = [s EXCEPT !.blocked = s.blocked \cup {<<p, how>>}]
      BY <3>1, Zenon
    <3>2. CASE \E p \in UiPeers: t = [s EXCEPT !.blocked = s.blocked \ {<<p, "peer">>}]
      BY <3>2, Zenon
    <3> QED
      BY <1>4, <3>1, <3>2 DEF RpcBlocking
  <2> QED
    BY <2>1, PartsChanged
<1>5. CASE t \in RpcRequests(d, s)
  BY <1>5, PartsChanged DEF RpcRequests
<1>6. CASE t \in RpcImport(s)
  BY <1>6, ImportedFollows, FollowsItself, Zenon DEF RpcImport
<1> QED
  BY <1>1, <1>2, <1>3, <1>4, <1>5, <1>6, FollowsItself, Zenon

-----------------------------------------------------------------------------
(* No process runs at first.                                               *)
LEMMA OwnerInitially == ASSUME ConsoleInit PROVE OwnerInv
<1>1. /\ process = [p \in Processes |-> NoProcess] /\ NoProcess \in ProcessStates
      /\ NoProcess.at # "serving" /\ NoProcess.kind \notin {"start", "relay"}
  BY Zenon DEF ConsoleInit, NoProcess, ProcessStates
<1>2. IsStore(disk) /\ uiPort = [u \in UiPorts |-> uiPort[u]]
  BY Zenon DEF ConsoleInit, EmptyStore, IsStore
<1> QED
  BY <1>1, <1>2, Zenon DEF OwnerInv

(* A process that ends gives its port back and takes nobody else's.        *)
LEMMA EndedKeepsOwner ==
    ASSUME OwnerInv, NEW p \in Processes, Ended(p), Follows(disk, disk')
    PROVE  OwnerInv'
<1>1. /\ NoProcess \in ProcessStates
      /\ NoProcess.at # "serving" /\ NoProcess.kind \notin {"start", "relay"}
  BY Zenon DEF NoProcess, ProcessStates
<1>2. /\ process' \in [Processes -> ProcessStates] /\ process'[p] = NoProcess
      /\ \A q \in Processes \ {p}: process'[q] = process[q]
  BY <1>1, Zenon DEF OwnerInv, Ended
<1>3. /\ uiPort' = [u \in UiPorts |-> uiPort'[u]]
      /\ \A u \in UiPorts: uiPort[u] # p => uiPort'[u] = uiPort[u]
  BY Zenon DEF OwnerInv, Ended
<1>4. ASSUME NEW q \in Processes, process'[q].at = "serving" PROVE Serves(q)'
  <2>1. q # p /\ process'[q] = process[q]
    BY <1>1, <1>2, <1>4, Zenon
  <2>2. process[q].port \in UiPorts /\ uiPort[process[q].port] = q
    BY <1>4, <2>1, Zenon DEF OwnerInv, Serves
  <2>3. uiPort'[process[q].port] = q
    BY <1>3, <2>1, <2>2, Zenon
  <2> QED
    BY <2>1, <2>2, <2>3, Zenon DEF Serves
<1>5. \A q \in Processes: process'[q].kind \in {"start", "relay"} => process'[q].port \in UiPorts
  BY <1>1, <1>2, Zenon DEF OwnerInv
<1> QED
  BY <1>2, <1>3, <1>4, <1>5, Zenon DEF OwnerInv, Follows

(* A process that moves on without serving leaves the ports alone.         *)
LEMMA AdvanceKeepsOwner ==
    ASSUME OwnerInv, NEW p \in Processes, NEW x \in ProcessStates, x.at # "serving",
           x.kind \in {"start", "relay"} => x.port \in UiPorts,
           process' = [process EXCEPT ![p] = x], UNCHANGED uiPort, Follows(disk, disk')
    PROVE  OwnerInv'
<1>1. process'[p] = x /\ \A q \in Processes \ {p}: process'[q] = process[q]
  BY Zenon DEF OwnerInv
<1>2. process' \in [Processes -> ProcessStates]
  BY Zenon DEF OwnerInv
<1>3. ASSUME NEW q \in Processes, process'[q].at = "serving" PROVE Serves(q)'
  BY <1>1, <1>3, Zenon DEF OwnerInv, Serves
<1>4. \A q \in Processes: process'[q].kind \in {"start", "relay"} => process'[q].port \in UiPorts
  BY <1>1, Zenon DEF OwnerInv
<1> QED
  BY <1>2, <1>3, <1>4, Zenon DEF OwnerInv, Follows

(* A node begins to serve a port only while nobody serves it.              *)
LEMMA ListeningKeepsOwner ==
    ASSUME OwnerInv, NEW p \in Processes, process[p].kind \in {"start", "relay"},
           PortFree(p), Listening(p), Follows(disk, disk')
    PROVE  OwnerInv'
<1> DEFINE u == process[p].port
           x == [process[p] EXCEPT !.at = "serving"]
<1>1. u \in UiPorts /\ \A q \in Processes: uiPort[u] # q
  BY ConsoleAssumption, Zenon DEF OwnerInv, PortFree
<1>2. x \in ProcessStates /\ x.port = u
  BY Zenon DEF OwnerInv, ProcessStates
<1>3. process' = [process EXCEPT ![p] = x] /\ uiPort' = [uiPort EXCEPT ![u] = p]
  BY Zenon DEF Listening, OwnerInv
<1> HIDE DEF u, x
<1>4. /\ process' \in [Processes -> ProcessStates] /\ process'[p] = x
      /\ \A q \in Processes \ {p}: process'[q] = process[q]
  BY <1>2, <1>3, Zenon DEF OwnerInv
<1>5. /\ uiPort' = [v \in UiPorts |-> uiPort'[v]] /\ uiPort'[u] = p
      /\ \A v \in UiPorts \ {u}: uiPort'[v] = uiPort[v]
  BY <1>1, <1>3, Zenon DEF OwnerInv
<1>6. ASSUME NEW q \in Processes, process'[q].at = "serving" PROVE Serves(q)'
  <2>1. CASE q = p
    BY <1>1, <1>2, <1>4, <1>5, <2>1, Zenon DEF Serves
  <2>2. CASE q # p
    <3>1. process'[q] = process[q] /\ process[q].port \in UiPorts /\ uiPort[process[q].port] = q
      BY <1>4, <1>6, <2>2, Zenon DEF OwnerInv, Serves
    <3>2. process[q].port # u
      BY <1>1, <3>1, Zenon
    <3>3. uiPort'[process[q].port] = q
      BY <1>5, <3>1, <3>2, Zenon
    <3> QED
      BY <3>1, <3>3, Zenon DEF Serves
  <2> QED
    BY <2>1, <2>2, Zenon
<1>7. \A q \in Processes: process'[q].kind \in {"start", "relay"} => process'[q].port \in UiPorts
  BY <1>1, <1>2, <1>4, Zenon DEF OwnerInv
<1> QED
  BY <1>4, <1>5, <1>6, <1>7, Zenon DEF OwnerInv, Follows

(* Steps that move no process keep the owner.                              *)
LEMMA OthersKeepOwner ==
    ASSUME OwnerInv, UNCHANGED <<process, uiPort>>, Follows(disk, disk')
    PROVE  OwnerInv'
  BY Zenon DEF OwnerInv, Follows, Serves

-----------------------------------------------------------------------------
(* Every step keeps the port with its owner, and what it leaves on disk    *)
(* follows what was there.                                                 *)
LEMMA OwnerKept ==
    ASSUME OwnerInv, ConsoleNext
    PROVE  OwnerInv' /\ Follows(disk, disk')
<1>0. IsStore(disk) /\ Follows(disk, disk)
  BY FollowsItself, Zenon DEF OwnerInv
<1>1. ASSUME NEW p \in Processes, NEW kind \in {"start", "relay", "command"},
             NEW port \in UiPorts \cup {"none"}, kind # "command" => port \in UiPorts,
             Launch(p, kind, port)
      PROVE  OwnerInv' /\ Follows(disk, disk')
  <2> DEFINE x == [kind |-> kind, at |-> "begun", port |-> port]
  <2>1. /\ x \in ProcessStates /\ x.at # "serving"
        /\ x.kind \in {"start", "relay"} => x.port \in UiPorts
    BY <1>1, Zenon DEF ProcessStates
  <2>2. process' = [process EXCEPT ![p] = x] /\ UNCHANGED uiPort
    BY <1>1, Zenon DEF Launch
  <2>3. Follows(disk, disk')
    BY <1>0, <1>1, Zenon DEF Launch
  <2> HIDE DEF x
  <2> QED
    BY <2>1, <2>2, <2>3, AdvanceKeepsOwner, Zenon
<1>2. ASSUME NEW p \in Processes, CheckPorts(p) PROVE OwnerInv' /\ Follows(disk, disk')
  <2>1. Follows(disk, disk')
    BY <1>0, <1>2, Zenon DEF CheckPorts
  <2>2. CASE apiPort # "none" \/ uiPort[process[p].port] # "none"
    BY <1>2, <2>1, <2>2, EndedKeepsOwner, Zenon DEF CheckPorts
  <2>3. CASE ~(apiPort # "none" \/ uiPort[process[p].port] # "none")
    <3> DEFINE x == [process[p] EXCEPT !.at = "checked"]
    <3>1. process' = [process EXCEPT ![p] = x] /\ UNCHANGED uiPort
      BY <1>2, <2>3, Zenon DEF CheckPorts, OwnerInv
    <3>2. /\ x \in ProcessStates /\ x.at # "serving"
          /\ x.kind \in {"start", "relay"} => x.port \in UiPorts
      BY Zenon DEF OwnerInv, ProcessStates
    <3> HIDE DEF x
    <3> QED
      BY <2>1, <3>1, <3>2, AdvanceKeepsOwner, Zenon
  <2> QED
    BY <2>2, <2>3, Zenon
<1>3. ASSUME NEW p \in Processes, OpenStore(p) PROVE OwnerInv' /\ Follows(disk, disk')
  <2>1. Follows(disk, disk')
    BY <1>0, <1>3, Zenon DEF OpenStore
  <2> DEFINE x == [process[p] EXCEPT !.at = "opened"]
  <2>2. process' = [process EXCEPT ![p] = x]
    BY <1>3, Zenon DEF OpenStore, OwnerInv
  <2>3. /\ x \in ProcessStates /\ x.at # "serving"
        /\ x.kind \in {"start", "relay"} => x.port \in UiPorts
    BY Zenon DEF OwnerInv, ProcessStates
  <2> HIDE DEF x
  <2> QED
    BY <1>3, <2>1, <2>2, <2>3, AdvanceKeepsOwner, Zenon DEF OpenStore
<1>4. ASSUME NEW p \in Processes, ServeStart(p) PROVE OwnerInv' /\ Follows(disk, disk')
  <2>1. Follows(disk, disk')
    BY <1>0, <1>4, InitializedFollows, Zenon DEF ServeStart, WriteStore, StoreOf
  <2> QED
    BY <1>4, <2>1, ListeningKeepsOwner, Zenon DEF ServeStart
<1>5. ASSUME NEW p \in Processes, ServeRelay(p) PROVE OwnerInv' /\ Follows(disk, disk')
  <2>1. Follows(disk, disk')
    BY <1>0, <1>5, Zenon DEF ServeRelay
  <2> QED
    BY <1>5, <2>1, ListeningKeepsOwner, Zenon DEF ServeRelay
<1>6. ASSUME NEW p \in Processes, ServeRefused(p) PROVE OwnerInv' /\ Follows(disk, disk')
  <2>1. Follows(disk, disk')
    BY <1>0, <1>6, InitializedFollows, Zenon DEF ServeRefused
  <2> QED
    BY <1>6, <2>1, EndedKeepsOwner, Zenon DEF ServeRefused
<1>7. ASSUME NEW p \in Processes, StopDaemon(p) PROVE OwnerInv' /\ Follows(disk, disk')
  <2>1. Follows(disk, disk')
    BY <1>0, <1>7, Zenon DEF StopDaemon
  <2> QED
    BY <1>7, <2>1, EndedKeepsOwner, Zenon DEF StopDaemon
<1>8. ASSUME NEW p \in Processes, RunCommand(p) PROVE OwnerInv' /\ Follows(disk, disk')
  <2>1. PICK t \in {StoreOf(p)} \cup ContactCommand(StoreOf(p)) \cup HistoryCommand(StoreOf(p)):
           disk' = IF lockHolder = p THEN t ELSE disk
    BY <1>8, Zenon DEF RunCommand
  <2>2. Follows(disk, disk')
    BY <1>0, <2>1, CommandFollows, Zenon DEF StoreOf
  <2> QED
    BY <1>8, <2>2, EndedKeepsOwner, Zenon DEF RunCommand
<1>9. ASSUME NEW p \in Processes, RunIdentityCommand(p) PROVE OwnerInv' /\ Follows(disk, disk')
  <2>1. PICK s \in {Initialized(StoreOf(p))} \cup ImportedIdentity(StoreOf(p)):
           disk' = IF lockHolder = p THEN s ELSE disk
    BY <1>9, Zenon DEF RunIdentityCommand
  <2>2. Follows(disk, disk')
    BY <1>0, <2>1, InitializedFollows, ImportedFollows, Zenon DEF StoreOf
  <2> QED
    BY <1>9, <2>2, EndedKeepsOwner, Zenon DEF RunIdentityCommand
<1>10. ASSUME NEW p \in Processes, AddContactViaApi(p) PROVE OwnerInv' /\ Follows(disk, disk')
  <2>1. PICK peer \in UiPeers:
           disk' = IF lockHolder = apiPort THEN [StoreOf(apiPort) EXCEPT !.contact[peer] = "key"]
                      ELSE disk
    BY <1>10, Zenon DEF AddContactViaApi
  <2>2. Follows(disk, disk')
    BY <1>0, <2>1, PartsChanged, Zenon DEF StoreOf
  <2> QED
    BY <1>10, <2>2, EndedKeepsOwner, Zenon DEF AddContactViaApi
<1>11. ASSUME NEW c \in UiClients, RpcRequest(c) PROVE OwnerInv' /\ Follows(disk, disk')
  <2>1. PICK d, t: t \in Handled(d, StoreOf(d)) /\ WriteStore(d, t)
    BY <1>11, Zenon DEF RpcRequest
  <2>2. Follows(disk, disk')
    BY <1>0, <2>1, HandledFollows, Zenon DEF WriteStore, StoreOf
  <2> QED
    BY <1>11, <2>2, OthersKeepOwner, Zenon DEF RpcRequest
<1>12. ASSUME NEW p \in Processes, NEW peer \in UiPeers,
              OnMessageReceived(p, peer) \/ RelayReceives(p, peer)
       PROVE  OwnerInv' /\ Follows(disk, disk')
  <2>1. KeptMessage(p, peer)
    BY <1>12, Zenon DEF OnMessageReceived, RelayReceives
  <2>2. Follows(disk, disk')
    BY <1>0, <2>1, PartsChanged, Zenon DEF KeptMessage, WriteStore, StoreOf
  <2> QED
    BY <2>1, <2>2, OthersKeepOwner, Zenon DEF KeptMessage
<1>13. ASSUME UNCHANGED <<process, uiPort, disk>> PROVE OwnerInv' /\ Follows(disk, disk')
  BY <1>0, <1>13, OthersKeepOwner, Zenon
<1>14. ASSUME NEW c \in UiClients,
              \/ UiDisconnects(c) \/ ForwarderTakes(c) \/ ForwarderReceives(c)
              \/ \E d \in Processes: UiConnects(c, d)
              \/ \E peer \in UiPeers: RpcSendMessage(c, peer)
       PROVE  UNCHANGED <<process, uiPort, disk>>
  BY <1>14, Zenon DEF UiConnects, UiDisconnects, ForwarderTakes, ForwarderReceives,
     RpcSendMessage
<1>15. ASSUME NEW p \in Processes, TakeUiCommand(p) \/ StatusPushed(p) PROVE UNCHANGED <<process, uiPort, disk>>
  BY <1>15, Zenon DEF TakeUiCommand, StatusPushed
<1> QED
  BY <1>1, <1>2, <1>3, <1>4, <1>5, <1>6, <1>7, <1>8, <1>9, <1>10, <1>11, <1>12,
     <1>13, <1>14, <1>15, Zenon
     DEF ConsoleNext

(* One listener on a port, so one daemon.                                  *)
LEMMA OwnerIsAlone == ASSUME OwnerInv PROVE OneDaemon
  BY Zenon DEF OwnerInv, Serves, OneDaemon

(* However many processes are started on one data directory, at most one   *)
(* of them serves a port, and the identity in the store is replaced by     *)
(* nothing but the import of a backup (cli/src/main.rs, cli/src/api.rs).   *)
THEOREM StoreKeepsOneOwner == ConsoleSpec => StoreHasOneOwner
<1>1. ConsoleInit => OwnerInv
  BY OwnerInitially, Zenon
<1>2. OwnerInv /\ [ConsoleNext]_consoleVars => OwnerInv'
  <2>1. OwnerInv /\ UNCHANGED consoleVars => OwnerInv'
    BY Zenon DEF OwnerInv, consoleVars, Serves
  <2> QED
    BY <2>1, OwnerKept, Zenon
<1>3. OwnerInv => OneDaemon
  BY OwnerIsAlone, Zenon
<1>4. OwnerInv /\ [ConsoleNext]_consoleVars => UNCHANGED consoleVars \/ IdentityKept
  BY OwnerKept, Zenon DEF Follows, IdentityKept
<1> QED
  BY <1>1, <1>2, <1>3, <1>4, PTL DEF ConsoleSpec, StoreHasOneOwner
=============================================================================
