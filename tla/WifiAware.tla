------------------------------ MODULE WifiAware ------------------------------
(***************************************************************************)
(* Wi-Fi Aware data paths: WifiAwareTransport, and the bridge that asks    *)
(* the platform for a path and waits for its confirmation.  The bridge     *)
(* keeps one sender per peer; a later request for the same peer replaces   *)
(* it, and the platform's confirmation, which names only the peer, goes to *)
(* whoever's sender is there.  Requests run concurrently: every sighting   *)
(* of a peer spawns one.                                                   *)
(*                                                                         *)
(* Wi-Fi Direct groups: WifiDirectTransport and its bridge.  The state and *)
(* the group information of the transport have a lock each, so that what   *)
(* the platform reports can come between the two writes of a call.         *)
(***************************************************************************)
EXTENDS Integers, Sequences, FiniteSets

CONSTANTS
    AwarePeers,       \* the peers that can be sighted
    PathRequests,     \* the requests that can be in progress at once
    MAX_DATA_PATHS,   \* max_data_paths of WifiAwareConfig
    NoRequest,
    DirectPeers,      \* the devices Wi-Fi Direct can sight
    DirectCallers     \* the calls of WifiDirectTransport in progress at once

ASSUME PathsAssumption ==
    /\ IsFiniteSet(PathRequests) /\ NoRequest \notin PathRequests
    /\ MAX_DATA_PATHS \in Nat \ {0}

VARIABLES
    awareState,       \* WifiAwareTransport::state
    sighted,          \* WifiAwareTransport::discovered_peers
    dataPaths,        \* WifiAwareTransport::data_paths, as the set of its keys
    pathSender,       \* data_path_results: the request whose sender a peer has
    pathStep,         \* pathStep[r]: where request r is
    pathPeer,         \* pathPeer[r]: the peer it is for
    closing,          \* what shutdown still has to close
    shuttingDown,
    openedSince,      \* the paths opened since the last shutdown began
    directState,      \* WifiDirectTransport::state
    groupInfo,        \* WifiDirectTransport::group_info: whether it is set
    directPeers,      \* WifiDirectTransport::discovered_peers
    bridgePeers,      \* PlatformWifiDirectBridge::discovered_peers
    wired,            \* the transport's callbacks are registered
    directCall,       \* directCall[c]: the step call c has to take next
    reporting,        \* the writes a report of the platform still has to make
    sighting,         \* the sightings registered, not yet given to the bridge
    pathsCrossed,          \* a report came between the two writes of a removal
    current           \* the bridge took a sighting since the wiring

awareVars == <<awareState, sighted, dataPaths, pathSender, pathStep, pathPeer,
               closing, shuttingDown, openedSince>>

AwareInit ==
    /\ awareState = "Available"
    /\ sighted = {} /\ dataPaths = {}
    /\ pathSender = [p \in AwarePeers |-> NoRequest]
    /\ pathStep = [r \in PathRequests |-> "idle"]
    /\ pathPeer \in [PathRequests -> AwarePeers]
    /\ closing = {} /\ shuttingDown = FALSE
    /\ openedSince = {}

pathVars == <<pathSender, pathStep, pathPeer>>
tableVars == <<sighted, dataPaths, openedSince>>
shutVars == <<closing, shuttingDown>>

GoTo(r, step) == pathStep' = [pathStep EXCEPT ![r] = step]

(* A sender that leaves the table unsent wakes its request with an error.    *)
WithoutSender(p, steps) ==
    [r \in PathRequests |-> IF pathSender[p] = r /\ steps[r] = "waiting" THEN "dropped" ELSE steps[r]]

-----------------------------------------------------------------------------
Initialize(available) ==
    /\ awareState' = IF available THEN awareState ELSE "Unavailable"
    /\ UNCHANGED <<pathVars, tableVars, shutVars>>

PublishService ==
    /\ awareState # "Unavailable"
    /\ awareState' = "Publishing"
    /\ UNCHANGED <<pathVars, tableVars, shutVars>>

Subscribe ==
    /\ awareState # "Unavailable"
    /\ awareState' = "Subscribing"
    /\ UNCHANGED <<pathVars, tableVars, shutVars>>

(* on_wifi_aware_peer_discovered records the sighting and spawns a request,  *)
(* which makes its checks: the number of paths is read here, used later.     *)
CheckPath(r, p) ==
    /\ pathStep[r] = "idle"
    /\ sighted' = sighted \cup {p}
    /\ awareState # "Unavailable"
    /\ Cardinality(dataPaths) < MAX_DATA_PATHS
    /\ GoTo(r, "checked")
    /\ pathPeer' = [pathPeer EXCEPT ![r] = p]
    /\ UNCHANGED <<awareState, dataPaths, openedSince, pathSender, shutVars>>

RefusePath(p) ==
    /\ sighted' = sighted \cup {p}
    /\ awareState = "Unavailable" \/ Cardinality(dataPaths) >= MAX_DATA_PATHS
    /\ UNCHANGED <<awareState, dataPaths, openedSince, pathVars, shutVars>>

(* The sender is filed and the platform asked; when it rejects, the entry of *)
(* the peer is removed again.                                                *)
RequestPath(r, accepted) ==
    LET p == pathPeer[r] IN
    /\ pathStep[r] = "checked"
    /\ pathSender' = [pathSender EXCEPT ![p] = IF accepted THEN r ELSE NoRequest]
    /\ pathStep' = [WithoutSender(p, pathStep) EXCEPT ![r] = IF accepted THEN "waiting" ELSE "idle"]
    /\ UNCHANGED <<pathPeer, awareState, tableVars, shutVars>>

(* handle_data_path_confirmed; a confirmation nobody waits for is lost.      *)
ConfirmPath(p) ==
    /\ pathSender[p] # NoRequest
    /\ pathStep' = [r \in PathRequests |->
                      IF pathSender[p] = r /\ pathStep[r] = "waiting" THEN "confirmed" ELSE pathStep[r]]
    /\ pathSender' = [pathSender EXCEPT ![p] = NoRequest]
    /\ UNCHANGED <<pathPeer, awareState, tableVars, shutVars>>

(* 30 seconds without an answer; the entry is removed a moment later.        *)
ExpirePath(r) ==
    /\ pathStep[r] = "waiting"
    /\ GoTo(r, "expired")
    /\ UNCHANGED <<pathSender, pathPeer, awareState, tableVars, shutVars>>

(* Mutant: the request gives up and leaves its sender behind.                *)
GiveUpPathLeaky(r) ==
    /\ pathStep[r] = "expired"
    /\ GoTo(r, "idle")
    /\ UNCHANGED <<pathSender, pathPeer, awareState, tableVars, shutVars>>

GiveUpPath(r) ==
    LET p == pathPeer[r] IN
    /\ pathStep[r] = "expired"
    /\ pathStep' = [WithoutSender(p, pathStep) EXCEPT ![r] = "idle"]
    /\ pathSender' = [pathSender EXCEPT ![p] = NoRequest]
    /\ UNCHANGED <<pathPeer, awareState, tableVars, shutVars>>

FailPath(r) ==
    /\ pathStep[r] = "dropped"
    /\ GoTo(r, "idle")
    /\ UNCHANGED <<pathSender, pathPeer, awareState, tableVars, shutVars>>

OpenPath(r) ==
    /\ pathStep[r] = "confirmed"
    /\ dataPaths' = dataPaths \cup {pathPeer[r]}
    /\ openedSince' = openedSince \cup {pathPeer[r]}
    /\ awareState' = "DataPathActive"
    /\ GoTo(r, "idle")
    /\ UNCHANGED <<pathSender, pathPeer, sighted, shutVars>>

-----------------------------------------------------------------------------
BeginShutdown ==
    /\ ~shuttingDown
    /\ shuttingDown' = TRUE
    /\ closing' = dataPaths
    /\ openedSince' = {}
    /\ UNCHANGED <<awareState, sighted, dataPaths, pathVars>>

ClosePath(p) ==
    /\ p \in closing
    /\ closing' = closing \ {p}
    /\ dataPaths' = dataPaths \ {p}
    /\ UNCHANGED <<awareState, sighted, openedSince, pathVars, shuttingDown>>

EndShutdown ==
    /\ shuttingDown /\ closing = {}
    /\ shuttingDown' = FALSE
    /\ awareState' = "Available"
    /\ UNCHANGED <<closing, tableVars, pathVars>>

AwareNext ==
    \/ \E available \in BOOLEAN : Initialize(available)
    \/ PublishService
    \/ Subscribe
    \/ \E p \in AwarePeers : \/ RefusePath(p)
                             \/ ConfirmPath(p)
                             \/ ClosePath(p)
                             \/ \E r \in PathRequests : CheckPath(r, p)
    \/ \E r \in PathRequests : \/ \E accepted \in BOOLEAN : RequestPath(r, accepted)
                               \/ ExpirePath(r)
                               \/ GiveUpPath(r)
                               \/ FailPath(r)
                               \/ OpenPath(r)
    \/ BeginShutdown
    \/ EndShutdown

AwareSpec == AwareInit /\ [][AwareNext]_awareVars

-----------------------------------------------------------------------------
(* Wi-Fi Direct.                                                             *)
directVars == <<directState, groupInfo, directPeers, bridgePeers, wired,
                directCall, reporting, sighting, pathsCrossed, current>>

DirectInit ==
    /\ directState = "Idle" /\ groupInfo = FALSE
    /\ directPeers = {} /\ bridgePeers = {} /\ sighting = {}
    /\ wired = FALSE /\ current = FALSE
    /\ directCall = [c \in DirectCallers |-> "none"]
    /\ reporting = <<>>
    /\ pathsCrossed = FALSE

directTables == <<directPeers, bridgePeers, sighting, current>>
reportVars == <<groupInfo, reporting, pathsCrossed>>

(* WifiDirectTransport::initialize. *)
InitializedState(available) == IF available THEN directState ELSE "Unavailable"

(* The task that start() spawns: initialize, then the callbacks are wired    *)
(* and discovery started; without a platform it ends Unavailable.            *)
InitializeDirect(c, available) ==
    /\ ~wired /\ directCall[c] = "none"
    /\ directState' = InitializedState(available)
    /\ wired' = available
    /\ directCall' = [directCall EXCEPT ![c] = IF available THEN "Discovering" ELSE "none"]
    /\ UNCHANGED <<directTables, reportVars>>

(* start_discovery, connect_to_peer, create_group: refused when Unavailable, *)
(* else the platform is asked, and the state written once it has agreed.     *)
AskPlatform(c, goal) ==
    /\ directCall[c] = "none"
    /\ directState # "Unavailable"
    /\ directCall' = [directCall EXCEPT ![c] = goal]
    /\ UNCHANGED <<directState, wired, directTables, reportVars>>

PlatformAnswers(c, agreed) ==
    /\ directCall[c] \in {"Discovering", "Connecting", "GroupOwner"}
    /\ directState' = IF agreed THEN directCall[c] ELSE directState
    /\ directCall' = [directCall EXCEPT ![c] = "none"]
    /\ UNCHANGED <<wired, directTables, reportVars>>

StopDiscovery(c) ==
    /\ directCall[c] \in {"none", "stopping"}
    /\ directState' = IF directState = "Discovering" \/ directCall[c] = "stopping" THEN "Idle" ELSE directState
    /\ directCall' = [directCall EXCEPT ![c] = "none"]
    /\ UNCHANGED <<wired, directTables, reportVars>>

(* Mutant: the removal forgets the information and keeps the state.          *)
RemoveGroupKeepsState(c, next) ==
    /\ directCall[c] = "none"
    /\ directCall' = [directCall EXCEPT ![c] = next]
    /\ UNCHANGED <<directState, wired, directTables, reportVars>>

(* remove_group, on its own or as the first step of shutdown, which then     *)
(* stops discovery and makes the state Idle.                                 *)
RemoveGroup(c, next) ==
    /\ directCall[c] = "none"
    /\ directState' = "Idle"
    /\ directCall' = [directCall EXCEPT ![c] = next]
    /\ UNCHANGED <<wired, directTables, reportVars>>

ForgetGroup(c) ==
    /\ directCall[c] \in {"removing", "removing for shutdown"}
    /\ groupInfo' = FALSE
    /\ directCall' = [directCall EXCEPT ![c] = IF @ = "removing" THEN "none" ELSE "stopping"]
    /\ UNCHANGED <<directState, reporting, pathsCrossed, wired, directTables>>

(* The wired callback writes the state and the information once more. *)
CallbackWrites(state) == IF wired THEN <<state, "info">> ELSE <<>>

(* on_wifi_direct_connection_info: set_group_info writes the state and then  *)
(* the information; the bridge then runs the callback.                       *)
ReportConnection(state) ==
    /\ reporting = <<>>
    /\ reporting' = <<state, "info">> \o CallbackWrites(state)
    /\ UNCHANGED <<directState, groupInfo, pathsCrossed, wired, directCall, directTables>>

ReportWrites ==
    /\ reporting # <<>>
    /\ IF Head(reporting) = "info" THEN groupInfo' = TRUE /\ UNCHANGED directState
       ELSE directState' = Head(reporting) /\ UNCHANGED groupInfo
    /\ reporting' = Tail(reporting)
    /\ pathsCrossed' = (pathsCrossed \/ \E c \in DirectCallers :
                                 directCall[c] \in {"removing", "removing for shutdown"})
    /\ UNCHANGED <<wired, directCall, directTables>>

(* on_wifi_direct_peer_discovered: the transport registers the device, then  *)
(* the bridge is given it as the whole list of devices.                      *)
SightDevice(p) ==
    /\ sighting' = sighting \cup {p}
    /\ directPeers' = directPeers \cup {p}
    /\ UNCHANGED <<directState, bridgePeers, current, wired, directCall, reportVars>>

(* Mutant: the callback adds to the transport's table without clearing it.   *)
HandlePeersChangedAdds(p) ==
    /\ p \in sighting
    /\ sighting' = sighting \ {p}
    /\ bridgePeers' = {p}
    /\ directPeers' = IF wired THEN directPeers \cup {p} ELSE directPeers
    /\ current' = wired
    /\ UNCHANGED <<directState, wired, directCall, reportVars>>

HandlePeersChanged(p) ==
    /\ p \in sighting
    /\ sighting' = sighting \ {p}
    /\ bridgePeers' = {p}
    /\ directPeers' = IF wired THEN {p} ELSE directPeers
    /\ current' = wired
    /\ UNCHANGED <<directState, wired, directCall, reportVars>>

DirectNext ==
    \/ \E c \in DirectCallers :
          \/ \E answer \in BOOLEAN : InitializeDirect(c, answer) \/ PlatformAnswers(c, answer)
          \/ \E goal \in {"Discovering", "Connecting", "GroupOwner"} : AskPlatform(c, goal)
          \/ \E next \in {"removing", "removing for shutdown"} : RemoveGroup(c, next)
          \/ StopDiscovery(c)
          \/ ForgetGroup(c)
    \/ \E state \in {"GroupOwner", "GroupClient"} : ReportConnection(state)
    \/ ReportWrites
    \/ \E p \in DirectPeers : SightDevice(p) \/ HandlePeersChanged(p)

DirectSpec == DirectInit /\ [][DirectNext]_directVars

(* A client of a group knows the group, unless a report of the platform came *)
(* between the two writes of a removal: remove_group and the callback each   *)
(* write the state first and the information second.                         *)
ClientKnowsGroup ==
    directState = "GroupClient" /\ ~groupInfo => pathsCrossed \/ Len(reporting) \in {1, 3}

(* Once the callbacks are wired, the transport knows the devices the bridge  *)
(* knows, whatever it had registered before.                                 *)
DeviceTablesAgree == current /\ sighting = {} => directPeers = bridgePeers

-----------------------------------------------------------------------------
(* The senders of data_path_results and the requests that wait are the same: *)
(* the platform's confirmation can reach every request that waits, and never *)
(* goes to one that has given up.                                            *)
SendersMatchWaiters ==
    /\ \A r \in PathRequests : pathStep[r] = "waiting" => pathSender[pathPeer[r]] = r
    /\ \A p \in AwarePeers : pathSender[p] # NoRequest =>
           /\ pathStep[pathSender[p]] \in {"waiting", "expired"}
           /\ pathPeer[pathSender[p]] = p

(* shutdown leaves open only paths that were confirmed after it had begun.   *)
ShutdownClosesPaths ==
    shuttingDown /\ ~shuttingDown' => dataPaths' \subseteq openedSince

(* Requests, confirmations, timeouts and a shutdown in any order: senders  *)
(* belong to waiting requests and a shutdown closes what was open; and the *)
(* state, the group and the devices of Wi-Fi Direct agree with each other  *)
(* and with the bridge.                                                    *)
PathsSound ==
    [][UNCHANGED <<awareVars, directVars>> \/
       /\ (SendersMatchWaiters /\ ClientKnowsGroup /\ DeviceTablesAgree)'
       /\ ShutdownClosesPaths]_<<awareVars, directVars>>
=============================================================================
