----------------------------- MODULE CliConsole -----------------------------
(***************************************************************************)
(* The processes of the command-line program that share one data           *)
(* directory: `scm start` and `scm relay`, which serve a UI port and an    *)
(* API port, and the short commands.  Each opens the store for itself; one *)
(* that finds it locked works on an empty store in memory instead, without *)
(* a word (IronCore::with_storage).  A short command that needs an         *)
(* identity but grants no consent fails (block, send, test).  The UI port  *)
(* is the one asked for (--port, --http-port), the API port is fixed; a    *)
(* UI port stands for it and for the P2P port next to it.                  *)
(*                                                                         *)
(* A store is abstracted to the identity (0 for none), what it knows of    *)
(* each peer, and the messages kept.  The UI talks JSON-RPC over           *)
(* WebSockets; the handler of a connection answers one request at a time,  *)
(* and every request is one step on the store of the process that serves.  *)
(***************************************************************************)
EXTENDS Naturals, Sequences

CONSTANTS
    Processes,        \* slots for processes
    UiPorts,          \* UI ports a node may be started on
    UiPeers,          \* peers the user may know
    UiClients,        \* WebSocket connections of the UI
    MaxIdentities,    \* bound on the identities generated
    MaxLaunches,      \* bound on the processes started
    MaxUiSteps,       \* bound on what the UI asks and the messages that arrive
    MaxUiEvents       \* capacity of the UI broadcast

ASSUME ConsoleAssumption == "none" \notin Processes \cup UiPorts

VARIABLES
    process,      \* per slot: what runs there
    lockHolder,   \* the process that has the store open, or "none"
    uiPort,       \* per UI port: the process listening on it, or "none"
    apiPort,      \* the process listening on the API port, or "none"
    disk,         \* the store on disk
    memory,       \* per process: the store it has instead of the disk's
    rpcRequests,  \* per process: peers with a message in the inbox of its core
    uiCommands,   \* per process: ui_cmd_rx, sends the UI asked for, not yet taken
    relayKey,     \* the network key of relay_network_key.pb: whose it is, 0 for no file
    client,       \* per connection: its server, open or not, its forwarder's queue
    identities, processLaunches, uiSteps

consoleVars == <<process, lockHolder, uiPort, apiPort, disk, memory, rpcRequests, uiCommands, client,
                 identities, processLaunches, uiSteps, relayKey>>

EmptyStore == [id |-> 0, contact |-> [p \in UiPeers |-> "none"],
               blocked |-> {}, history |-> [p \in UiPeers |-> "none"]]
NoProcess == [kind |-> "none", at |-> "none", port |-> "none"]
NoClient == [of |-> "none", open |-> FALSE, queue |-> 0, taken |-> 0]

(* The identity of the backup the user may import.                         *)
BackupIdentity == MaxIdentities + 1

(* A network key that is no identity's.                                    *)
OwnKey == BackupIdentity + 1

Stores == [id : 0 .. BackupIdentity, contact : [UiPeers -> {"none", "nokey", "key"}],
           blocked : SUBSET (UiPeers \X {"peer", "device"}),
           history : [UiPeers -> {"none", "received"}]]

ConsoleTypeOK ==
    /\ process \in [Processes -> [kind : {"none", "start", "relay", "command"},
                                  at : {"none", "begun", "checked", "opened", "serving"},
                                  port : UiPorts \cup {"none"}]]
    /\ {lockHolder, apiPort} \subseteq Processes \cup {"none"}
    /\ uiPort \in [UiPorts -> Processes \cup {"none"}]
    /\ disk \in Stores /\ memory \in [Processes -> Stores]
    /\ rpcRequests \in [Processes -> SUBSET UiPeers] /\ uiCommands \in [Processes -> Seq(UiPeers)]
    /\ \A c \in UiClients : client[c].queue \in 0 .. MaxUiEvents /\ client[c].taken \in 0 .. 1
    /\ identities \in 0 .. MaxIdentities /\ processLaunches \in 0 .. MaxLaunches
    /\ uiSteps \in 0 .. MaxUiSteps /\ relayKey \in 0 .. OwnKey

ConsoleInit ==
    /\ process = [p \in Processes |-> NoProcess] /\ lockHolder = "none"
    /\ uiPort = [u \in UiPorts |-> "none"] /\ apiPort = "none"
    /\ disk = EmptyStore /\ memory = [p \in Processes |-> EmptyStore]
    /\ rpcRequests = [p \in Processes |-> {}] /\ uiCommands = [p \in Processes |-> <<>>]
    /\ client = [c \in UiClients |-> NoClient] /\ identities = 0 /\ processLaunches = 0 /\ uiSteps = 0
    /\ relayKey = 0

uiVars == <<rpcRequests, uiCommands, client>>

-----------------------------------------------------------------------------
(* The store a process works on.                                           *)
StoreOf(p) == IF lockHolder = p THEN disk ELSE memory[p]

(* p leaves store s behind in the one it works on.                         *)
WriteStore(p, s) ==
    /\ disk' = IF lockHolder = p THEN s ELSE disk
    /\ memory' = IF lockHolder = p THEN memory ELSE [memory EXCEPT ![p] = s]

(* Mutant: an identity is generated although the store holds one.          *)
InitializedAnew(s) == [s EXCEPT !.id = identities + 1]

(* IdentityManager::initialize: what the store holds, else a new identity. *)
Initialized(s) == IF s.id # 0 THEN s ELSE [s EXCEPT !.id = identities + 1]

CliInitializeIdentity(s) ==
    /\ Initialized(s).id \in 1 .. MaxIdentities \cup {s.id}
    /\ identities' = IF Initialized(s).id = s.id THEN identities ELSE Initialized(s).id

(* import_identity_backup: the whole backup is validated before any of it  *)
(* is applied; its contacts are added to the ones there are.               *)
ImportedIdentity(s) == {[s EXCEPT !.id = BackupIdentity,
                          !.contact = [p \in UiPeers |-> IF p \in known THEN "key" ELSE s.contact[p]]]
                  : known \in SUBSET UiPeers}

Launch(p, kind, port) ==
    /\ process[p] = NoProcess /\ processLaunches < MaxLaunches
    /\ processLaunches' = processLaunches + 1
    /\ process' = [process EXCEPT ![p] = [kind |-> kind, at |-> "begun", port |-> port]]
    /\ UNCHANGED <<lockHolder, uiPort, apiPort, disk, memory, uiVars, identities, uiSteps, relayKey>>

(* A process ends: its locks, ports and memory go with it.                 *)
Ended(p) ==
    /\ process' = [process EXCEPT ![p] = NoProcess]
    /\ lockHolder' = IF lockHolder = p THEN "none" ELSE lockHolder
    /\ uiPort' = [u \in UiPorts |-> IF uiPort[u] = p THEN "none" ELSE uiPort[u]]
    /\ apiPort' = IF apiPort = p THEN "none" ELSE apiPort
    /\ rpcRequests' = [rpcRequests EXCEPT ![p] = {}] /\ uiCommands' = [uiCommands EXCEPT ![p] = <<>>]
    /\ client' = [c \in UiClients |-> IF client[c].of = p THEN NoClient ELSE client[c]]

(* cmd_start: it looks whether the API answers and whether its own ports   *)
(* are free, and gives up otherwise; nothing is kept from the test.        *)
(* cmd_relay does not look.                                                *)
CheckPorts(p) ==
    /\ process[p].kind = "start" /\ process[p].at = "begun"
    /\ IF apiPort # "none" \/ uiPort[process[p].port] # "none"
         THEN /\ Ended(p) /\ memory' = [memory EXCEPT ![p] = EmptyStore] /\ UNCHANGED <<disk>>
         ELSE /\ process' = [process EXCEPT ![p].at = "checked"]
              /\ UNCHANGED <<lockHolder, uiPort, apiPort, disk, memory, uiVars>>
    /\ UNCHANGED <<identities, processLaunches, uiSteps, relayKey>>

(* IronCore::with_storage                                                  *)
OpenStore(p) ==
    /\ \/ process[p].kind = "start" /\ process[p].at = "checked"
       \/ process[p].kind \in {"relay", "command"} /\ process[p].at = "begun"
    /\ lockHolder' = IF lockHolder = "none" THEN p ELSE lockHolder
    /\ memory' = [memory EXCEPT ![p] = EmptyStore]
    /\ process' = [process EXCEPT ![p].at = "opened"]
    /\ UNCHANGED <<uiPort, apiPort, disk, uiVars, identities, processLaunches, uiSteps, relayKey>>

(* Mutant: a UI port that cannot be bound is passed over.                  *)
PortFreeAlways(p) == TRUE

(* server::start binds the UI port, or the node fails.                     *)
PortFree(p) == uiPort[process[p].port] = "none"

(* The API server's failure to bind is only logged.                        *)
Listening(p) ==
    /\ process' = [process EXCEPT ![p].at = "serving"]
    /\ uiPort' = [uiPort EXCEPT ![process[p].port] = p]
    /\ apiPort' = IF apiPort = "none" THEN p ELSE apiPort

(* The rest of cmd_start, which grants consent and has an identity.        *)
ServeStart(p) ==
    /\ process[p].kind = "start" /\ process[p].at = "opened" /\ PortFree(p)
    /\ Listening(p)
    /\ CliInitializeIdentity(StoreOf(p)) /\ WriteStore(p, Initialized(StoreOf(p)))
    /\ UNCHANGED <<lockHolder, uiVars, processLaunches, uiSteps, relayKey>>

(* load_or_create_headless_network_keypair: the key of the file, else the  *)
(* identity's, else a new one; kept in the file.                           *)
NetworkKey(s) == IF relayKey # 0 THEN relayKey ELSE IF s.id # 0 THEN s.id ELSE OwnKey

(* cmd_relay grants no consent: its initialize_identity fails unheard and  *)
(* the node goes on with the network key it has.                           *)
ServeRelay(p) ==
    /\ process[p].kind = "relay" /\ process[p].at = "opened" /\ PortFree(p)
    /\ Listening(p)
    /\ relayKey' = NetworkKey(StoreOf(p))
    /\ UNCHANGED <<lockHolder, disk, memory, identities, uiVars, processLaunches, uiSteps>>

(* The identity is initialized before the port is found to be taken.       *)
ServeRefused(p) ==
    /\ process[p].kind \in {"start", "relay"} /\ process[p].at = "opened" /\ ~PortFree(p)
    /\ IF process[p].kind = "start"
         THEN /\ CliInitializeIdentity(StoreOf(p))
              /\ disk' = IF lockHolder = p THEN Initialized(disk) ELSE disk
         ELSE UNCHANGED <<disk, identities>>
    /\ relayKey' = IF process[p].kind = "relay" THEN NetworkKey(StoreOf(p)) ELSE relayKey
    /\ memory' = [memory EXCEPT ![p] = EmptyStore]
    /\ Ended(p) /\ UNCHANGED <<processLaunches, uiSteps>>

(* cmd_stop through /api/shutdown, `quit`, Ctrl-C or a crash: every change *)
(* of the store is written when it is made.                                *)
StopDaemon(p) ==
    /\ process[p].at = "serving"
    /\ Ended(p) /\ memory' = [memory EXCEPT ![p] = EmptyStore]
    /\ UNCHANGED <<disk, identities, processLaunches, uiSteps, relayKey>>

-----------------------------------------------------------------------------
(* What one request or command may make of a store.                        *)
ContactChanges(s) ==
    {[s EXCEPT !.contact[p] = "none"] : p \in UiPeers}

(* cmd_contact without a daemon, after the key was validated.              *)
ContactCommand(s) == {[s EXCEPT !.contact[p] = "key"] : p \in UiPeers} \cup ContactChanges(s)

(* The RPC adds a contact without a key, over one that has one too.        *)
RpcContacts(s) == {[s EXCEPT !.contact[p] = "nokey"] : p \in UiPeers} \cup ContactChanges(s)

HistoryDeleted(s) == {[s EXCEPT !.history[p] = "none"] : p \in UiPeers}

(* history clear, enforce-retention, prune-before, delete, clear-conversation *)
HistoryCommand(s) == HistoryDeleted(s)

(* ClearHistory.  Every other history intent reads or changes history.db,  *)
(* the database of the mobile bridge, in which no command-line process     *)
(* keeps a message.                                                        *)
RpcHistory(s) == {s, [s EXCEPT !.history = [p \in UiPeers |-> "none"]]}

(* block_peer is called with the reason where the device goes: a block     *)
(* with a reason is one of a device of that name.  unblock lifts the       *)
(* peer's own block.                                                       *)
RpcBlocking(s) ==
    {[s EXCEPT !.blocked = @ \cup {<<p, how>>}] : p \in UiPeers, how \in {"peer", "device"}}
    \cup {[s EXCEPT !.blocked = @ \ {<<p, "peer">>}] : p \in UiPeers}

(* AcceptMessageRequest takes the key from the sender's message;           *)
(* RejectMessageRequest blocks the peer.                                   *)
RpcRequests(d, s) ==
    {[s EXCEPT !.contact[p] = "key"] : p \in rpcRequests[d]}
    \cup {[s EXCEPT !.blocked = @ \cup {<<p, "peer">>}] : p \in UiPeers}

(* A short command opens the store, does its one change, if any, and ends. *)
(* The ones that only show something change nothing; block and test fail   *)
(* for want of consent.  Settings and nicknames are not part of the store  *)
(* here.                                                                   *)
RunCommand(p) ==
    /\ process[p].kind = "command" /\ process[p].at = "opened"
    /\ LET s == StoreOf(p) IN
       \E t \in {s} \cup ContactCommand(s) \cup HistoryCommand(s) :
         disk' = IF lockHolder = p THEN t ELSE disk
    /\ memory' = [memory EXCEPT ![p] = EmptyStore]
    /\ Ended(p) /\ UNCHANGED <<identities, processLaunches, uiSteps, relayKey>>

(* cmd_init and cmd_identity grant consent: they show, name, export or     *)
(* replace the identity of the store they opened.                          *)
RunIdentityCommand(p) ==
    /\ process[p].kind = "command" /\ process[p].at = "opened"
    /\ CliInitializeIdentity(StoreOf(p))
    /\ \E s \in {Initialized(StoreOf(p))} \cup ImportedIdentity(StoreOf(p)) :
         disk' = IF lockHolder = p THEN s ELSE disk
    /\ memory' = [memory EXCEPT ![p] = EmptyStore]
    /\ Ended(p) /\ UNCHANGED <<processLaunches, uiSteps, relayKey>>

(* With a daemon whose API answers, a new contact goes to the daemon's     *)
(* store and not to the one the command opened.                            *)
AddContactViaApi(p) ==
    /\ process[p].kind = "command" /\ process[p].at = "opened" /\ apiPort \notin {"none", p}
    /\ \E peer \in UiPeers :
         LET d == apiPort
             s == [StoreOf(d) EXCEPT !.contact[peer] = "key"] IN
         /\ disk' = IF lockHolder = d THEN s ELSE disk
         /\ memory' = [q \in Processes |-> IF q = p THEN EmptyStore
                                           ELSE IF q = d /\ lockHolder # d THEN s ELSE memory[q]]
    /\ Ended(p) /\ UNCHANGED <<identities, processLaunches, uiSteps, relayKey>>

-----------------------------------------------------------------------------
(* handle_ws_connection: the connection gets a forwarder, subscribed to    *)
(* the broadcast of its server.                                            *)
UiConnects(c, d) ==
    /\ uiSteps < MaxUiSteps /\ uiSteps' = uiSteps + 1
    /\ process[d].at = "serving" /\ client[c] = NoClient
    /\ client' = [client EXCEPT ![c] = [NoClient EXCEPT !.of = d, !.open = TRUE]]
    /\ UNCHANGED <<process, lockHolder, uiPort, apiPort, disk, memory, rpcRequests, uiCommands, identities, processLaunches, relayKey>>

(* The read loop ends; the forwarder does not notice.                      *)
UiDisconnects(c) ==
    /\ client[c].open
    /\ client' = [client EXCEPT ![c].open = FALSE]
    /\ UNCHANGED <<process, lockHolder, uiPort, apiPort, disk, memory, rpcRequests, uiCommands, identities, processLaunches, uiSteps, relayKey>>

(* parse_intent refuses a request of another version, with an unknown      *)
(* method or without a parameter it needs: nothing changes.                *)
RpcRefused(s) == {s}

(* The other intents only answer, or change what the store does not show   *)
(* (settings, the nickname, the routing engine).  initialize_identity      *)
(* finds an identity, or fails in a relay for want of consent.             *)
OnlyAnswered(s) == {s}

(* An import fails on a bad passphrase.                                    *)
RpcImport(s) == {s} \cup ImportedIdentity(s)

(* handle_jsonrpc_request: what a request may leave of the store s of d.   *)
Handled(d, s) ==
    RpcRefused(s) \cup OnlyAnswered(s) \cup RpcContacts(s) \cup RpcHistory(s) \cup RpcBlocking(s)
    \cup RpcRequests(d, s) \cup RpcImport(s)

RpcRequest(c) ==
    /\ uiSteps < MaxUiSteps /\ uiSteps' = uiSteps + 1
    /\ client[c].open
    /\ LET d == client[c].of IN \E t \in Handled(d, StoreOf(d)) : WriteStore(d, t)
    /\ UNCHANGED <<process, lockHolder, uiPort, apiPort, uiVars, identities, processLaunches, relayKey>>

(* SendMessage only queues: "queued" is the answer.                        *)
RpcSendMessage(c, peer) ==
    /\ uiSteps < MaxUiSteps /\ uiSteps' = uiSteps + 1
    /\ client[c].open /\ Len(uiCommands[client[c].of]) < 1
    /\ uiCommands' = [uiCommands EXCEPT ![client[c].of] = Append(@, peer)]
    /\ UNCHANGED <<process, lockHolder, uiPort, apiPort, disk, memory, rpcRequests, client, identities, processLaunches, relayKey>>

(* A push to every forwarder of d; one that lags loses its oldest.         *)
Broadcast(d) ==
    client' = [c \in UiClients |-> IF client[c].of = d
                                   THEN [client[c] EXCEPT !.queue = IF @ < MaxUiEvents THEN @ + 1 ELSE @]
                                   ELSE client[c]]

(* UiCommand::Send in the loop of cmd_start: a send the swarm accepts is   *)
(* announced, any failure is silent.  The loop of cmd_relay takes no       *)
(* commands.                                                               *)
TakeUiCommand(d) ==
    /\ process[d].kind = "start" /\ uiCommands[d] # <<>>
    /\ uiCommands' = [uiCommands EXCEPT ![d] = Tail(@)]
    /\ \E sent \in BOOLEAN :
         /\ sent => StoreOf(d).contact[Head(uiCommands[d])] = "key"
         /\ IF sent THEN Broadcast(d) ELSE UNCHANGED client
    /\ UNCHANGED <<process, lockHolder, uiPort, apiPort, disk, memory, rpcRequests, identities, processLaunches, uiSteps, relayKey>>

(* SwarmEvent::MessageReceived: a core with an identity keeps the message, *)
(* hidden if its sender is blocked.                                        *)
KeptMessage(d, peer) ==
    /\ uiSteps < MaxUiSteps /\ uiSteps' = uiSteps + 1
    /\ process[d].at = "serving" /\ StoreOf(d).id # 0
    /\ rpcRequests' = [rpcRequests EXCEPT ![d] = @ \cup {peer}]
    /\ WriteStore(d, [StoreOf(d) EXCEPT !.history[peer] = "received"])
    /\ UNCHANGED <<process, lockHolder, uiPort, apiPort, uiCommands, identities, processLaunches, relayKey>>

(* start tells the UI and sends a receipt, a relay does neither.           *)
OnMessageReceived(d, peer) == KeptMessage(d, peer) /\ process[d].kind = "start" /\ Broadcast(d)
RelayReceives(d, peer) == KeptMessage(d, peer) /\ process[d].kind = "relay" /\ UNCHANGED client

(* Every 5 or 10 seconds, and for a peer discovered, whose contact is      *)
(* marked as seen.                                                         *)
StatusPushed(d) ==
    /\ uiSteps < MaxUiSteps /\ uiSteps' = uiSteps + 1
    /\ process[d].at = "serving" /\ Broadcast(d)
    /\ UNCHANGED <<process, lockHolder, uiPort, apiPort, disk, memory, rpcRequests, uiCommands, identities, processLaunches, relayKey>>

(* The forwarder puts a push into the channel of its client ...            *)
ForwarderTakes(c) ==
    /\ client[c].queue > 0 /\ client[c].taken = 0
    /\ client' = [client EXCEPT ![c].queue = @ - 1, ![c].taken = 1]
    /\ UNCHANGED <<process, lockHolder, uiPort, apiPort, disk, memory, rpcRequests, uiCommands, identities, processLaunches, uiSteps, relayKey>>

(* ... whose receiver it holds itself, and drops what it receives.         *)
ForwarderReceives(c) ==
    /\ client[c].taken = 1
    /\ client' = [client EXCEPT ![c].taken = 0]
    /\ UNCHANGED <<process, lockHolder, uiPort, apiPort, disk, memory, rpcRequests, uiCommands, identities, processLaunches, uiSteps, relayKey>>

ConsoleNext ==
    \/ \E p \in Processes :
         \/ \E port \in UiPorts : Launch(p, "start", port) \/ Launch(p, "relay", port)
         \/ Launch(p, "command", "none")
         \/ CheckPorts(p) \/ OpenStore(p) \/ ServeStart(p) \/ ServeRelay(p) \/ ServeRefused(p) \/ StopDaemon(p)
         \/ RunCommand(p) \/ RunIdentityCommand(p) \/ AddContactViaApi(p)
         \/ TakeUiCommand(p) \/ StatusPushed(p)
         \/ \E peer \in UiPeers : OnMessageReceived(p, peer) \/ RelayReceives(p, peer)
    \/ \E c \in UiClients : \/ UiDisconnects(c) \/ RpcRequest(c)
                            \/ ForwarderTakes(c) \/ ForwarderReceives(c)
                            \/ \E d \in Processes : UiConnects(c, d)
                            \/ \E peer \in UiPeers : RpcSendMessage(c, peer)

ConsoleSpec == ConsoleInit /\ [][ConsoleNext]_consoleVars

-----------------------------------------------------------------------------
(* Two nodes started at once on a port both find it free; only one of them *)
(* gets to serve there, because the other fails to bind it.                *)
OneDaemon ==
    \A p, q \in Processes : process[p].at = "serving" /\ process[q].at = "serving"
                            /\ process[p].port = process[q].port => p = q

(* Whatever processes come and go and however they overlap, the identity   *)
(* on disk, once there, is replaced by nothing but an imported backup.     *)
IdentityKept == disk.id # 0 => disk'.id \in {disk.id, BackupIdentity}

(* One daemon at most serves a port, and starting a second process, on     *)
(* that port or on another, whether it gets to serve or not, leaves the    *)
(* stored identity alone.                                                  *)
StoreHasOneOwner ==
    [][UNCHANGED consoleVars \/ (OneDaemon' /\ IdentityKept)]_consoleVars
=============================================================================
