----------------------------- MODULE MCNetwork ------------------------------
(***************************************************************************)
(* What a node does on the network: links, transports, swarm and routing,  *)
(* model-checked side by side.                                             *)
(*                                                                         *)
(* focus names the component that takes steps; the others stay in an       *)
(* initial state, so that every behaviour is one of a single component.    *)
(***************************************************************************)
EXTENDS
    RoutingRoutes, BleLink, TransportPeers, WasmNode, InternetRelays,
    LedgerExchange, SwarmDelivery, SwarmConnections, RelayLink,
    RoutingGossip, WebSockets, WifiAware, TLC

VARIABLE focus

(* Frames of two and of three fragments, the last of them a single byte.   *)
MCBodyLen == [x \in BleMessages |-> IF x = "m" THEN 2 ELSE 5]

MCBootAddrs == <<[peer |-> "p", at |-> "p", text |-> "a"], [peer |-> "none", at |-> "p", text |-> "ab"],
                 [peer |-> "self", at |-> "self", text |-> "c"]>>
MCContains == {<<"a", "ab">>}

MCCommonPorts == <<443>>
MCAdditionalPorts == {<<>>, <<443>>, <<20000>>}

MCHints == {[head |-> 5, tail |-> "x"], [head |-> 133, tail |-> "x"], [head |-> 5, tail |-> "y"]}

MCBloomBits == [x |-> {1, 2}, y |-> {2, 3}, z |-> {1, 3}]

MCKinds == [c \in Calls |-> IF c = "c2" THEN {"send", "register", "reflect", "query", "endpoint", "ranking", "post", "shutdown"} ELSE {"send"}]

MCRank == [ble |-> 1, net |-> 2]

NetworkInit ==
    /\ focus \in {"activity", "beacon", "central", "ble", "bridge", "browse",
                   "net", "ledger", "nat", "pace", "ports", "directory",
                   "link", "gossip", "routes", "conn", "delivery", "manager",
                   "wasm", "pool", "web", "aware", "direct"}
    /\ ActivityInit
    /\ BeaconInit /\ (focus = "beacon" \/ beaconSkew = 0)
    /\ CentralInit
    /\ BleInit
    /\ BridgeInit
    /\ BrowseInit
    /\ NetInit
    /\ LedgerInit
    /\ NatInit /\ (focus = "nat" \/ mapping.kind = "same")
    /\ PaceInit
    /\ PortsInit /\ (focus = "ports" \/ portConfig = [common |-> TRUE, random |-> TRUE, additional |-> <<>>, families |-> {"ip4"}])
    /\ DirectoryInit
    /\ LinkInit
    /\ GossipInit
    /\ RoutesInit
    /\ ConnInit
    /\ DeliveryInit /\ (focus = "delivery" \/ kindOf = [c \in Calls |-> "send"])
    /\ ManagerInit
    /\ WasmInit
    /\ PoolInit
    /\ WebInit
    /\ AwareInit /\ (focus = "aware" \/ pathPeer = [r \in PathRequests |-> CHOOSE p \in AwarePeers : TRUE])
    /\ DirectInit

(* What a step of the component f leaves alone. *)
OthersIdle(f) ==
    /\ UNCHANGED focus
    /\ f # "activity" => UNCHANGED activityVars
    /\ f # "beacon" => UNCHANGED beaconVars
    /\ f # "central" => UNCHANGED bleVarsAll
    /\ f # "ble" => UNCHANGED bleVars
    /\ f # "bridge" => UNCHANGED peerBridgeVars
    /\ f # "browse" => UNCHANGED browseVars
    /\ f # "net" => UNCHANGED netVars
    /\ f # "ledger" => UNCHANGED ledgerVars
    /\ f # "nat" => UNCHANGED natVars
    /\ f # "pace" => UNCHANGED paceVars
    /\ f # "ports" => UNCHANGED portVars
    /\ f # "directory" => UNCHANGED directoryVars
    /\ f # "link" => UNCHANGED linkVars
    /\ f # "gossip" => UNCHANGED gossipVars
    /\ f # "routes" => UNCHANGED routesVars
    /\ f # "conn" => UNCHANGED connVars
    /\ f # "delivery" => UNCHANGED deliveryVars
    /\ f # "manager" => UNCHANGED managerVars
    /\ f # "wasm" => UNCHANGED wasmVars
    /\ f # "pool" => UNCHANGED poolVars
    /\ f # "web" => UNCHANGED webVars
    /\ f # "aware" => UNCHANGED awareVars
    /\ f # "direct" => UNCHANGED directVars

NetworkNext ==
    \/ focus = "activity" /\ ActivityNext /\ OthersIdle("activity")
    \/ focus = "beacon" /\ BeaconNext /\ OthersIdle("beacon")
    \/ focus = "central" /\ CentralNext /\ OthersIdle("central")
    \/ focus = "ble" /\ BleNext /\ OthersIdle("ble")
    \/ focus = "bridge" /\ BridgeNext /\ OthersIdle("bridge")
    \/ focus = "browse" /\ BrowseNext /\ OthersIdle("browse")
    \/ focus = "net" /\ NetNext /\ OthersIdle("net")
    \/ focus = "ledger" /\ LedgerNext /\ OthersIdle("ledger")
    \/ focus = "nat" /\ NatNext /\ OthersIdle("nat")
    \/ focus = "pace" /\ PaceNext /\ OthersIdle("pace")
    \/ focus = "ports" /\ PortsNext /\ OthersIdle("ports")
    \/ focus = "directory" /\ DirectoryNext /\ OthersIdle("directory")
    \/ focus = "link" /\ LinkNext /\ OthersIdle("link")
    \/ focus = "gossip" /\ GossipNext /\ OthersIdle("gossip")
    \/ focus = "routes" /\ RoutesNext /\ OthersIdle("routes")
    \/ focus = "conn" /\ ConnNext /\ OthersIdle("conn")
    \/ focus = "delivery" /\ DeliveryNext /\ OthersIdle("delivery")
    \/ focus = "manager" /\ ManagerNext /\ OthersIdle("manager")
    \/ focus = "wasm" /\ WasmNext /\ OthersIdle("wasm")
    \/ focus = "pool" /\ PoolNext /\ OthersIdle("pool")
    \/ focus = "web" /\ WebNext /\ OthersIdle("web")
    \/ focus = "aware" /\ AwareNext /\ OthersIdle("aware")
    \/ focus = "direct" /\ DirectNext /\ OthersIdle("direct")

NetworkVars ==
    <<focus, activityVars, beaconVars, bleVarsAll, bleVars, peerBridgeVars,
      browseVars, netVars, ledgerVars, natVars, paceVars, portVars,
      directoryVars, linkVars, gossipVars, routesVars, connVars, deliveryVars,
      managerVars, wasmVars, poolVars, webVars, awareVars, directVars>>

NetworkSpec ==
    /\ NetworkInit /\ [][NetworkNext]_NetworkVars

(* Every component keeps its types: counters and indices stay in their     *)
(* ranges and no table gets a key that is not one of its own.              *)
NetworkTypeOK ==
    /\ focus = "central" => CentralTypeOK
    /\ focus = "ble" => BleTypeOK
    /\ focus = "net" => NetTypeOK
    /\ focus = "ledger" => LedgerTypeOK
    /\ focus = "nat" => NatTypeOK
    /\ focus = "directory" => DirectoryTypeOK
    /\ focus = "link" => LinkTypeOK
    /\ focus = "gossip" => GossipTypeOK
    /\ focus = "routes" => RoutesTypeOK
    /\ focus = "conn" => ConnTypeOK
    /\ focus = "delivery" => DeliveryTypeOK
    /\ focus = "manager" => ManagerTypeOK
    /\ focus = "wasm" => WasmTypeOK
    /\ focus = "web" => WebTypeOK
=============================================================================
