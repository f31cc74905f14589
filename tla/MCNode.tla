------------------------------- MODULE MCNode -------------------------------
(***************************************************************************)
(* What a node keeps: stores, sessions, locks, the mobile service, the     *)
(* command line and the relay it runs, model-checked side by side.         *)
(*                                                                         *)
(* focus names the component that takes steps; the others stay in an       *)
(* initial state, so that every behaviour is one of a single component.    *)
(***************************************************************************)
EXTENDS
    RelayAdmission, LocalRecords, CircuitBreaker, RatchetSessions,
    CliConsole, CoreInbox, CoreLocks, CoreOutbox, MobileService, DriftRelay,
    MobileStores, RelayRegistry, TLC

VARIABLE focus

MCSegmentOf == [p \in HopPeers |-> IF p \in {"p", "q"} THEN "x" ELSE "y"]

MCSenderOf == [m \in Mail |-> CHOOSE p \in Contacts : TRUE]

MCCallsOf ==
    [t \in Threads |->
        CASE t = "app"     -> {"initialize_identity", "start", "set_nickname", "import_backup", "set_delegate"}
          [] t = "network" -> {"receive_message", "prepare_message"}
          [] t = "timer"   -> {"routing_tick", "maintenance", "prepare_message"}]

MCDriftPriority == [e |-> 1, f |-> 2]
MCDriftHint == [e |-> "other", f |-> "a"]
MCDriftExpiry == [e |-> 0, f |-> 1]

MCEndpointDevices == {<<"a", 1>>, <<"a", 2>>, <<"b", 1>>}

MCNoticeFrom == [n \in Notices |-> CHOOSE p \in Contacts : TRUE]

MCIdentityOfKey == [k \in Keys |-> CHOOSE i \in Identities : TRUE]

NodeInit ==
    /\ focus \in {"admission", "backup", "circuit", "hop", "console",
                   "inbox", "locks", "outbox", "cover", "dedup", "device",
                   "drift", "sketch", "endpoint", "identity", "records",
                   "service", "stores", "notice", "onion", "pad", "page",
                   "ratchet", "registry"}
    /\ AdmissionInit /\ (focus = "admission" \/ meter.peer = CHOOSE p \in SourcePeers : TRUE)
    /\ BackupInit
    /\ CircuitInit
    /\ HopInit
    /\ ConsoleInit
    /\ InboxInit
    /\ LocksInit
    /\ OutboxInit
    /\ CoverInit
    /\ DedupInit /\ (focus = "dedup" \/ dedupClock = 0)
    /\ DeviceInit
    /\ DriftInit /\ (focus = "drift" \/ \A n \in DriftNodes : engine[n] = "none")
    /\ SketchInit /\ (focus = "sketch" \/ (mine = {} /\ theirs = {}))
    /\ EndpointInit
    /\ IdentityInit
    /\ RecordsInit /\ (focus = "records" \/ owned = {})
    /\ ServiceInit
    /\ StoresInit
    /\ NoticeInit
    /\ OnionInit
    /\ PadInit
    /\ PageInit
    /\ RatchetInit
    /\ RegistryInit

(* What a step of the component f leaves alone. *)
OthersIdle(f) ==
    /\ UNCHANGED focus
    /\ f # "admission" => UNCHANGED admissionVars
    /\ f # "backup" => UNCHANGED backupVars
    /\ f # "circuit" => UNCHANGED circuitVars
    /\ f # "hop" => UNCHANGED hopVars
    /\ f # "console" => UNCHANGED consoleVars
    /\ f # "inbox" => UNCHANGED inboxVars
    /\ f # "locks" => UNCHANGED lockVars
    /\ f # "outbox" => UNCHANGED outboxVars
    /\ f # "cover" => UNCHANGED coverVars
    /\ f # "dedup" => UNCHANGED dedupVars
    /\ f # "device" => UNCHANGED devVars
    /\ f # "drift" => UNCHANGED driftVars
    /\ f # "sketch" => UNCHANGED sketchVars
    /\ f # "endpoint" => UNCHANGED endpointVars
    /\ f # "identity" => UNCHANGED identityVars
    /\ f # "records" => UNCHANGED recordsVars
    /\ f # "service" => UNCHANGED svcVars
    /\ f # "stores" => UNCHANGED storesVars
    /\ f # "notice" => UNCHANGED noticeVars
    /\ f # "onion" => UNCHANGED onionVars
    /\ f # "pad" => UNCHANGED padVars
    /\ f # "page" => UNCHANGED pageVars
    /\ f # "ratchet" => UNCHANGED ratchetVars
    /\ f # "registry" => UNCHANGED registryVars

NodeNext ==
    \/ focus = "admission" /\ AdmissionNext /\ OthersIdle("admission")
    \/ focus = "backup" /\ BackupNext /\ OthersIdle("backup")
    \/ focus = "circuit" /\ CircuitNext /\ OthersIdle("circuit")
    \/ focus = "hop" /\ HopNext /\ OthersIdle("hop")
    \/ focus = "console" /\ ConsoleNext /\ OthersIdle("console")
    \/ focus = "inbox" /\ InboxNext /\ OthersIdle("inbox")
    \/ focus = "locks" /\ LocksNext /\ OthersIdle("locks")
    \/ focus = "outbox" /\ OutboxNext /\ OthersIdle("outbox")
    \/ focus = "cover" /\ CoverNext /\ OthersIdle("cover")
    \/ focus = "dedup" /\ DedupNext /\ OthersIdle("dedup")
    \/ focus = "device" /\ DeviceNext /\ OthersIdle("device")
    \/ focus = "drift" /\ DriftNext /\ OthersIdle("drift")
    \/ focus = "sketch" /\ SketchNext /\ OthersIdle("sketch")
    \/ focus = "endpoint" /\ EndpointNext /\ OthersIdle("endpoint")
    \/ focus = "identity" /\ IdentityNext /\ OthersIdle("identity")
    \/ focus = "records" /\ RecordsNext /\ OthersIdle("records")
    \/ focus = "service" /\ ServiceNext /\ OthersIdle("service")
    \/ focus = "stores" /\ StoresNext /\ OthersIdle("stores")
    \/ focus = "notice" /\ NoticeNext /\ OthersIdle("notice")
    \/ focus = "onion" /\ OnionNext /\ OthersIdle("onion")
    \/ focus = "pad" /\ PadNext /\ OthersIdle("pad")
    \/ focus = "page" /\ PageNext /\ OthersIdle("page")
    \/ focus = "ratchet" /\ RatchetNext /\ OthersIdle("ratchet")
    \/ focus = "registry" /\ RegistryNext /\ OthersIdle("registry")

NodeVars ==
    <<focus, admissionVars, backupVars, circuitVars, hopVars, consoleVars,
      inboxVars, lockVars, outboxVars, coverVars, dedupVars, devVars,
      driftVars, sketchVars, endpointVars, identityVars, recordsVars, svcVars,
      storesVars, noticeVars, onionVars, padVars, pageVars, ratchetVars,
      registryVars>>

NodeSpec ==
    /\ NodeInit /\ [][NodeNext]_NodeVars

(* Every component keeps its types: counters and indices stay in their     *)
(* ranges and no table gets a key that is not one of its own.              *)
NodeTypeOK ==
    /\ focus = "admission" => AdmissionTypeOK
    /\ focus = "circuit" => CircuitTypeOK
    /\ focus = "console" => ConsoleTypeOK
    /\ focus = "inbox" => InboxTypeOK
    /\ focus = "outbox" => OutboxTypeOK
    /\ focus = "drift" => DriftTypeOK
    /\ focus = "sketch" => SketchTypeOK
    /\ focus = "records" => RecordsTypeOK
    /\ focus = "stores" => StoresTypeOK
    /\ focus = "ratchet" => RatchetTypeOK
    /\ focus = "registry" => RegistryTypeOK
=============================================================================
