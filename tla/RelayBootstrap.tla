--------------------------- MODULE RelayBootstrap ---------------------------
(***************************************************************************)
(* BootstrapManager::bootstrap (core/src/transport/bootstrap.rs): the      *)
(* nodes are tried in their order, each behind its circuit breaker and     *)
(* with a bounded number of attempts (RelayFallback,                       *)
(* core/src/transport/relay_health.rs).  The first node that is neither    *)
(* connected nor out of attempts is the candidate; while its circuit       *)
(* refuses, the loop spins on it.  A node with a WebSocket address whose   *)
(* dial failed is tried once more over a WebSocket (websocket.rs).         *)
(***************************************************************************)
EXTENDS BreakerEntry, Sequences

CONSTANTS
    BootstrapNodes, \* the nodes, in order: their addresses, each a sequence of
                    \* protocols <<kind, value>>
    MaxRetries,     \* max_retries_per_node
    MaxBootstraps   \* bound on the calls of bootstrap

ASSUME BootstrapAssumption == MaxRetries \in Nat \ {0} /\ MaxBootstraps \in Nat

VARIABLES
    bootState,      \* BootstrapManager.state
    bootNode,       \* per node: attempts, connected
    fallback,       \* per node: attempts of RelayFallback
    bootCircuit,    \* per node: the entry of the breaker
    bootDial,       \* the node being dialled, 0 when none
    bootVia,        \* how it is dialled: "swarm" or "websocket"
    bootstraps      \* calls made (bound)

bootVars == <<bootState, bootNode, fallback, bootCircuit, bootDial, bootVia, bootstraps>>

NodeIds == 1 .. Len(BootstrapNodes)

BootstrapInit ==
    /\ bootState = "Idle" /\ bootDial = 0 /\ bootVia = "swarm" /\ bootstraps = 0
    /\ bootNode = [n \in NodeIds |-> [attempts |-> 0, connected |-> FALSE]]
    /\ fallback = [n \in NodeIds |-> 0]
    /\ bootCircuit = [n \in NodeIds |-> NewBreaker]

-----------------------------------------------------------------------------
(* WebSocket addresses. *)

ProtocolsOf(addr, kinds) == SelectSeq(addr, LAMBDA p : p[1] \in kinds)
LastOf(s) == s[Len(s)]

IsWebsocketAddress(addr) == ProtocolsOf(addr, {"ws", "wss"}) # <<>>

(* The last host and the last port count; port 443 is taken as secure.     *)
MultiaddrToWebsocketUrl(addr) ==
    LET hosts == ProtocolsOf(addr, {"ip4", "ip6", "dns", "dns4", "dns6"})
        ports == ProtocolsOf(addr, {"tcp"})
        port  == IF ports = <<>> THEN 80 ELSE LastOf(ports)[2]
    IN  IF ~IsWebsocketAddress(addr) \/ hosts = <<>> THEN {}
        ELSE {[scheme |-> IF ProtocolsOf(addr, {"wss"}) # <<>> \/ port = 443 THEN "wss" ELSE "ws",
               host |-> LastOf(hosts)[2], port |-> port]}

Looping == bootState \in {"Connecting", "FallbackDiscovery"} /\ bootDial = 0

Connectable(n) == ~bootNode[n].connected /\ fallback[n] < MaxRetries

(* next_connectable_node                                                   *)
Candidate(n) == Connectable(n) /\ \A k \in 1 .. n - 1 : ~Connectable(k)

StartBootstrap ==
    /\ bootState \notin {"Connecting", "FallbackDiscovery"} /\ bootstraps < MaxBootstraps
    /\ bootState' = "Connecting" /\ bootstraps' = bootstraps + 1
    /\ UNCHANGED <<bootNode, fallback, bootCircuit, bootDial, bootVia>>

(* record_attempt, record_success *)
AttemptRecorded(n) ==
    /\ bootNode' = [bootNode EXCEPT ![n].attempts = @ + 1]
    /\ fallback' = [fallback EXCEPT ![n] = @ + 1]
SuccessRecorded(n) ==
    /\ bootNode' = [bootNode EXCEPT ![n].connected = TRUE]
    /\ fallback' = [k \in NodeIds |-> 0]

(* The candidate's circuit lets the request through: wait out the backoff, *)
(* count the attempt, dial.  A refusal changes nothing but the reason kept *)
(* for the node, and the loop looks for a candidate again.                 *)
DialCandidate(n) ==
    /\ Looping /\ Candidate(n) /\ LetThrough(bootCircuit[n])
    /\ bootCircuit' = [bootCircuit EXCEPT ![n] = IF ProbeDue(@) THEN HalfOpened(@) ELSE @]
    /\ AttemptRecorded(n)
    /\ bootDial' = n /\ bootVia' = "swarm"
    /\ UNCHANGED <<bootState, bootstraps>>

(* The dial failed, but the address is a WebSocket address: it is dialled  *)
(* over one, with a timeout of its own, if it gives a URL.                 *)
TryWebsocketConnection ==
    /\ bootDial # 0 /\ bootVia = "swarm"
    /\ IsWebsocketAddress(BootstrapNodes[bootDial])
    /\ MultiaddrToWebsocketUrl(BootstrapNodes[bootDial]) # {}
    /\ bootVia' = "websocket"
    /\ UNCHANGED <<bootState, bootNode, fallback, bootCircuit, bootDial, bootstraps>>

(* The dial, or the WebSocket connection tried after it, succeeded.        *)
DialSucceeded ==
    /\ bootDial # 0
    /\ SuccessRecorded(bootDial)
    /\ bootCircuit' = [bootCircuit EXCEPT ![bootDial] = Succeeded(@)]
    /\ bootState' = "Connected" /\ bootDial' = 0 /\ bootVia' = "swarm"
    /\ UNCHANGED bootstraps

(* Nothing is left to try for this attempt.                                *)
DialOver ==
    /\ bootDial # 0
    /\ bootVia = "websocket" \/ MultiaddrToWebsocketUrl(BootstrapNodes[bootDial]) = {}

(* Mutant: a failed dial takes the node's attempt back.                    *)
DialFailedForgets ==
    /\ DialOver
    /\ bootCircuit' = [bootCircuit EXCEPT ![bootDial] = Failed(@)]
    /\ fallback' = [fallback EXCEPT ![bootDial] = 0]
    /\ bootNode' = [bootNode EXCEPT ![bootDial].attempts = 0]
    /\ bootDial' = 0 /\ bootVia' = "swarm"
    /\ UNCHANGED <<bootState, bootstraps>>

DialFailed ==
    /\ DialOver
    /\ bootCircuit' = [bootCircuit EXCEPT ![bootDial] = Failed(@)]
    /\ bootDial' = 0 /\ bootVia' = "swarm"
    /\ UNCHANGED <<bootState, bootNode, fallback, bootstraps>>

(* The sources of fallback nodes (DNS, WebSocket, local peers, backup      *)
(* relays) are all empty in this build.                                    *)
DiscoverFallbackNodes == {}

(* No candidate: the loop goes on only for a node that was never           *)
(* attempted.                                                              *)
BootstrapExhausted ==
    /\ Looping /\ \A n \in NodeIds : ~Connectable(n)
    /\ bootState' = IF bootState # "FallbackDiscovery"
                       /\ \E n \in NodeIds \cup DiscoverFallbackNodes : bootNode[n].attempts = 0 /\ ~bootNode[n].connected
                       THEN "FallbackDiscovery" ELSE "Failed"
    /\ UNCHANGED <<bootNode, fallback, bootCircuit, bootDial, bootVia, bootstraps>>

(* open_timeout passes for a node.                                         *)
OpenTimeoutOf(n) ==
    /\ bootCircuit[n].state = "Open" /\ ~bootCircuit[n].expired
    /\ bootCircuit' = [bootCircuit EXCEPT ![n].expired = TRUE]
    /\ UNCHANGED <<bootState, bootNode, fallback, bootDial, bootVia, bootstraps>>

(* reset_circuit_breakers: needs the manager, which bootstrap holds while  *)
(* it runs.                                                                *)
ResetCircuitBreakers ==
    /\ bootState \notin {"Connecting", "FallbackDiscovery"}
    /\ \E n \in NodeIds : bootCircuit[n] # NewBreaker
    /\ bootCircuit' = [n \in NodeIds |-> NewBreaker]
    /\ UNCHANGED <<bootState, bootNode, fallback, bootDial, bootVia, bootstraps>>

BootstrapNext ==
    \/ StartBootstrap \/ TryWebsocketConnection \/ DialSucceeded \/ DialFailed \/ BootstrapExhausted \/ ResetCircuitBreakers
    \/ \E n \in NodeIds : DialCandidate(n) \/ OpenTimeoutOf(n)

BootstrapSpec == BootstrapInit /\ [][BootstrapNext]_bootVars

(* The loop runs on, a dial ends (it has a timeout), and time passes.      *)
BootstrapStep ==
    \/ TryWebsocketConnection \/ DialSucceeded \/ DialFailed \/ BootstrapExhausted
    \/ \E n \in NodeIds : DialCandidate(n) \/ OpenTimeoutOf(n)

BootstrapFairness == WF_bootVars(BootstrapStep)

BootstrapLiveSpec == BootstrapSpec /\ BootstrapFairness

-----------------------------------------------------------------------------
(* A call of bootstrap returns, with a connection or with an error, even   *)
(* when the circuit of the first candidate is open and the loop spins on   *)
(* it: the circuit times out, the probe is counted, and the attempts run   *)
(* out.                                                                    *)
BootstrapReturns == bootState = "Connecting" ~> bootState \in {"Connected", "Failed"}
=============================================================================
