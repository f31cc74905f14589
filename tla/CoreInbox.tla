------------------------------ MODULE CoreInbox ------------------------------
(***************************************************************************)
(* The receiving side of IronCore: receive_message on the network thread,  *)
(* and the user's thread that meanwhile blocks, unblocks or deletes a peer *)
(* or learns of its devices.  The stores they share are locked one call at *)
(* a time, so receive_message is a sequence of steps: the check for a      *)
(* deleted peer, the check for a blocked one, the inbox, the history.  The *)
(* user's operations change the block list in one step and the history in  *)
(* the next.  The inbox is the one in memory, the only one IronCore makes. *)
(***************************************************************************)
EXTENDS Integers, Sequences, FiniteSets, Functions

CONSTANTS
    Contacts,           \* the peers
    DeviceIds,          \* their devices
    Mail,               \* message ids
    SenderOf,           \* SenderOf[m]: who sends m
    NoDeviceId,
    MAX_SEEN_IDS,
    MaxReceived,        \* bound on the receptions
    Notices,            \* messages offered for notification
    NoticeFrom,         \* NoticeFrom[n]: the peer that sent n
    Spellings,          \* how the platform may spell a conversation id (letter case)
    EndpointDevices,    \* device ids: <<first eight characters, the rest>>
    Platforms,          \* ios, android, web
    MaxNotices,         \* bound on the classifications
    MaxDedupId,         \* message ids of the duplicate statistics, in their order: 1..MaxDedupId
    MaxDedupEntries,    \* max_entries of the tracker (10000 in the code)
    MaxDedupTime,       \* bound on the clock
    MaxDedupSteps       \* bound on the receptions

ASSUME InboxAssumption ==
    /\ MAX_SEEN_IDS \in Nat \ {0} /\ SenderOf \in [Mail -> Contacts] /\ NoDeviceId \notin DeviceIds
    /\ <<>> \notin EndpointDevices
    /\ MaxDedupEntries \in Nat \ {0} /\ MaxDedupId \in Nat /\ MaxDedupTime \in Nat

VARIABLES
    peerBlock,     \* block record of a peer: "none", "blocked" or "deleted"
    deviceBlock,   \* block record of one device of a peer
    knownDevices,  \* the device registry of the block list
    lastDevice,    \* last_known_device_id of the contact
    seenOrder,     \* Inbox: the ids seen, oldest first
    newerThan,     \* newerThan[m]: ids recorded since m was (ghost)
    inboxStored,        \* Inbox: how often m was stored
    inboxHistory,       \* history records by id: "absent", "shown" or "hidden"
    reception,     \* the network thread inside receive_message
    pendingUser,   \* the user's thread between block list and history
    overlapped,    \* ids under reception when their sender was unblocked or deleted (ghost)
    inboxReceived       \* receptions so far

VARIABLES
    noticeSettings,   \* MeshSettings: the notification switches
    uiState,          \* NotificationUiState: the conversation on screen, if any
    standing,         \* of a sender: stranger, known (contact or conversation) or blocked
    offered,          \* notices classified before: the application's duplicate test
    alerts,           \* alerts[n]: the decisions of kind other than None (ghost)
    endpoints,        \* NotificationEndpointRegistry: endpoint id -> endpoint
    notices           \* classifications so far

VARIABLES
    dedupEntries,  \* DedupStatsTracker: message id -> statistics, or NoStats
    dedupClock,    \* the wall clock
    dedupSeen      \* receptions of each id since it is tracked (ghost)

dedupVars    == <<dedupEntries, dedupClock, dedupSeen>>
noticeVars   == <<noticeSettings, uiState, standing, offered, alerts, notices>>
endpointVars == <<endpoints>>

inboxVars == <<peerBlock, deviceBlock, knownDevices, lastDevice, seenOrder, newerThan,
               inboxStored, inboxHistory, reception, pendingUser, overlapped, inboxReceived>>
blockListVars == <<peerBlock, deviceBlock, knownDevices, lastDevice>>
mailVars      == <<seenOrder, newerThan, inboxStored>>

InboxIdle == [step |-> "idle"]

InboxInit ==
    /\ peerBlock = [p \in Contacts |-> "none"]
    /\ deviceBlock = [p \in Contacts |-> [d \in DeviceIds |-> "none"]]
    /\ knownDevices = [p \in Contacts |-> {}]
    /\ lastDevice = [p \in Contacts |-> NoDeviceId]
    /\ seenOrder = <<>>
    /\ newerThan = [m \in Mail |-> 0]
    /\ inboxStored = [m \in Mail |-> 0]
    /\ inboxHistory = [m \in Mail |-> "absent"]
    /\ reception = InboxIdle
    /\ pendingUser = InboxIdle
    /\ overlapped = {}
    /\ inboxReceived = 0

-----------------------------------------------------------------------------
(* The network thread: receive_message of an envelope that decrypts to m.    *)

(* is_blocked_and_deleted looks at the record of the peer alone.             *)
CheckDeleted(m) ==
    /\ reception = InboxIdle
    /\ inboxReceived < MaxReceived
    /\ inboxReceived' = inboxReceived + 1
    /\ reception' = IF peerBlock[SenderOf[m]] = "deleted"
                      THEN InboxIdle
                      ELSE [step |-> "check blocked", m |-> m]
    /\ UNCHANGED <<blockListVars, mailVars, inboxHistory, pendingUser, overlapped>>

(* is_blocked: the record of the device the contact was last seen on, or     *)
(* that of the peer.                                                         *)
IsBlocked(p) ==
    \/ lastDevice[p] # NoDeviceId /\ deviceBlock[p][lastDevice[p]] # "none"
    \/ peerBlock[p] # "none"

CheckBlocked ==
    /\ reception.step = "check blocked"
    /\ reception' = [step |-> "inbox", m |-> reception.m,
                     hidden |-> IsBlocked(SenderOf[reception.m])]
    /\ UNCHANGED <<blockListVars, mailVars, inboxHistory, pendingUser, overlapped, inboxReceived>>
(* Mutant: one id fewer is remembered.                                       *)
TrimmedShort(order) ==
    IF Len(order) >= MAX_SEEN_IDS
      THEN SubSeq(order, Len(order) - MAX_SEEN_IDS + 2, Len(order))
      ELSE order

(* Inbox::receive: a seen id is left alone; a new one is recorded, the       *)
(* oldest ids beyond the limit are forgotten, and the message is stored.     *)
Trimmed(order) ==
    IF Len(order) > MAX_SEEN_IDS
      THEN SubSeq(order, Len(order) - MAX_SEEN_IDS + 1, Len(order))
      ELSE order

StoreInInbox ==
    LET m == reception.m
    IN  /\ reception.step = "inbox"
        /\ IF m \in Range(seenOrder)
             THEN UNCHANGED mailVars
             ELSE /\ seenOrder' = Trimmed(Append(seenOrder, m))
                  /\ inboxStored' = [inboxStored EXCEPT ![m] = @ + 1]
                  /\ newerThan' = [x \in Mail |-> IF x = m THEN 0 ELSE newerThan[x] + 1]
        /\ reception' = [reception EXCEPT !.step = "history"]
        /\ UNCHANGED <<blockListVars, inboxHistory, pendingUser, overlapped, inboxReceived>>

(* history.add writes the record whether or not the inbox had seen the id,   *)
(* then the application is told.                                             *)
AddToHistory ==
    /\ reception.step = "history"
    /\ inboxHistory' = [inboxHistory EXCEPT ![reception.m] =
                      IF reception.hidden THEN "hidden" ELSE "shown"]
    /\ reception' = InboxIdle
    /\ UNCHANGED <<blockListVars, mailVars, pendingUser, overlapped, inboxReceived>>

-----------------------------------------------------------------------------
(* The user's thread.                                                        *)

MailFrom(p) == {m \in Mail : SenderOf[m] = p}

UnderReception(p) == IF reception = InboxIdle THEN {} ELSE {reception.m} \cap MailFrom(p)

(* Mutant: a device learnt while the peer is blocked inherits nothing.       *)
InheritedNot(p, ds) == deviceBlock

(* register_device_id of a set of devices: a device of a blocked peer        *)
(* inherits the record of the peer.                                          *)
Registered(p, ds) == [knownDevices EXCEPT ![p] = @ \cup ds]
Inherited(p, ds) ==
    [deviceBlock EXCEPT ![p] = [d \in DeviceIds |->
        IF d \in ds \ knownDevices[p] /\ peerBlock[p] # "none" THEN peerBlock[p] ELSE @[d]]]

LastKnown(p) == {lastDevice[p]} \ {NoDeviceId}

UserIdle == pendingUser = InboxIdle

(* block_peer without a device, and block_and_delete_peer: the peer and      *)
(* every device registered for it.                                           *)
BlockRecords(p, record) ==
    LET known == Registered(p, LastKnown(p))
    IN  /\ UserIdle
        /\ knownDevices' = known
        /\ peerBlock' = [peerBlock EXCEPT ![p] = record]
        /\ deviceBlock' = [deviceBlock EXCEPT ![p] =
                             [d \in DeviceIds |-> IF d \in known[p] THEN record ELSE @[d]]]
        /\ UNCHANGED <<lastDevice, mailVars, inboxHistory, reception, inboxReceived>>

BlockPeer(p) ==
    /\ BlockRecords(p, "blocked")
    /\ UNCHANGED <<pendingUser, overlapped>>

BlockAndDeletePeer(p) ==
    /\ BlockRecords(p, "deleted")
    /\ pendingUser' = [step |-> "remove conversation", p |-> p]
    /\ overlapped' = overlapped \cup UnderReception(p)

(* block_peer with a device.                                                 *)
BlockDevice(p, d) ==
    /\ UserIdle
    /\ knownDevices' = Registered(p, LastKnown(p) \cup {d})
    /\ deviceBlock' = [Inherited(p, LastKnown(p) \cup {d}) EXCEPT ![p][d] = "blocked"]
    /\ UNCHANGED <<peerBlock, lastDevice, mailVars, inboxHistory, reception, pendingUser,
                   overlapped, inboxReceived>>

(* Mutant: the history stays as it is.                                       *)
UnhideNothing ==
    /\ pendingUser.step = "unhide"
    /\ pendingUser' = InboxIdle
    /\ UNCHANGED <<inboxHistory, blockListVars, mailVars, reception, overlapped, inboxReceived>>

(* Mutant: the conversation outlives the peer.                               *)
RemoveConversationShown ==
    /\ pendingUser.step = "remove conversation"
    /\ inboxHistory' = [m \in Mail |->
                     IF m \in MailFrom(pendingUser.p) /\ inboxHistory[m] = "shown" THEN "absent" ELSE inboxHistory[m]]
    /\ pendingUser' = InboxIdle
    /\ UNCHANGED <<blockListVars, mailVars, reception, overlapped, inboxReceived>>

(* unblock_peer without and with a device; the history is unhidden next.     *)
UnblockPeer(p) ==
    /\ UserIdle
    /\ peerBlock' = [peerBlock EXCEPT ![p] = "none"]
    /\ deviceBlock' = [deviceBlock EXCEPT ![p] =
                         [d \in DeviceIds |-> IF d \in knownDevices[p] THEN "none" ELSE @[d]]]
    /\ knownDevices' = [knownDevices EXCEPT ![p] = {}]
    /\ pendingUser' = [step |-> "unhide", p |-> p]
    /\ overlapped' = overlapped \cup UnderReception(p)
    /\ UNCHANGED <<lastDevice, mailVars, inboxHistory, reception, inboxReceived>>

UnblockDevice(p, d) ==
    /\ UserIdle
    /\ deviceBlock' = [deviceBlock EXCEPT ![p][d] = "none"]
    /\ knownDevices' = [knownDevices EXCEPT ![p] = @ \ {d}]
    /\ pendingUser' = [step |-> "unhide", p |-> p]
    /\ overlapped' = overlapped \cup UnderReception(p)
    /\ UNCHANGED <<peerBlock, lastDevice, mailVars, inboxHistory, reception, inboxReceived>>

(* unhide_messages_for_peer.                                                 *)
Unhide ==
    /\ pendingUser.step = "unhide"
    /\ inboxHistory' = [m \in Mail |->
                     IF m \in MailFrom(pendingUser.p) /\ inboxHistory[m] = "hidden" THEN "shown" ELSE inboxHistory[m]]
    /\ pendingUser' = InboxIdle
    /\ UNCHANGED <<blockListVars, mailVars, reception, overlapped, inboxReceived>>

(* remove_conversation.                                                      *)
RemoveConversation ==
    /\ pendingUser.step = "remove conversation"
    /\ inboxHistory' = [m \in Mail |-> IF m \in MailFrom(pendingUser.p) THEN "absent" ELSE inboxHistory[m]]
    /\ pendingUser' = InboxIdle
    /\ UNCHANGED <<blockListVars, mailVars, reception, overlapped, inboxReceived>>

(* contact_update_last_known_device_id: the contact, then the registry.      *)
UpdateLastKnownDevice(p, d) ==
    /\ UserIdle
    /\ lastDevice' = [lastDevice EXCEPT ![p] = d]
    /\ IF d = NoDeviceId
         THEN UNCHANGED <<knownDevices, deviceBlock>>
         ELSE /\ knownDevices' = Registered(p, {d})
              /\ deviceBlock' = Inherited(p, {d})
    /\ UNCHANGED <<peerBlock, mailVars, inboxHistory, reception, pendingUser, overlapped, inboxReceived>>

InboxNext ==
    \/ \E m \in Mail : CheckDeleted(m)
    \/ CheckBlocked
    \/ StoreInInbox
    \/ AddToHistory
    \/ \E p \in Contacts :
          \/ BlockPeer(p) \/ BlockAndDeletePeer(p) \/ UnblockPeer(p)
          \/ \E d \in DeviceIds : BlockDevice(p, d) \/ UnblockDevice(p, d)
          \/ \E d \in DeviceIds \cup {NoDeviceId} : UpdateLastKnownDevice(p, d)
    \/ Unhide
    \/ RemoveConversation

InboxSpec == InboxInit /\ [][InboxNext]_inboxVars

-----------------------------------------------------------------------------
(* Notifications: the application offers each reception to                   *)
(* classify_notification with what it knows of it, while the user moves      *)
(* between conversations, answers requests and turns switches; and it keeps  *)
(* the registry of push endpoints.                                           *)

NoEndpoint  == [device |-> <<>>, able |-> {}]
NoActive    == <<"none", "none">>
Senders     == {NoticeFrom[n] : n \in Notices}
EndpointIds == Platforms \X {d[1] : d \in EndpointDevices}
Abilities   == {{"dm"}, {"dm_request"}, {"dm", "dm_request"}}
Switches    == {"notifications", "dm", "dm_request", "dm_foreground", "dm_request_foreground"}

NoticeInit ==
    /\ noticeSettings = Switches \ {"dm_foreground"}
    /\ uiState = [foreground |-> FALSE, active |-> NoActive]
    /\ standing = [p \in Senders |-> "stranger"]
    /\ offered = {}
    /\ alerts = [n \in Notices |-> <<>>]
    /\ notices = 0

(* The context the application builds for one reception of n.                *)
NoticeContext(n, explicit) ==
    [sender |-> NoticeFrom[n], explicit |-> explicit,
     known |-> standing[NoticeFrom[n]] = "known", duplicate |-> n \in offered,
     blocked |-> standing[NoticeFrom[n]] = "blocked"]

(* A request unless the sender is known, and always when it says so itself.  *)
NoticeKind(message) ==
    IF message.explicit \/ ~message.known THEN "dm_request" ELSE "dm"

(* ids_match ignores case, so the spelling of the active id is irrelevant.   *)
ActiveMatch(message) == uiState.foreground /\ uiState.active[1] = message.sender

(* Mutant: the duplicate test is dropped.                                    *)
ShouldAlertAgain(message) ==
    /\ "notifications" \in noticeSettings
    /\ ~message.blocked
    /\ NoticeKind(message) \in noticeSettings

(* classify_notification: every test that suppresses the alert.  Empty ids,  *)
(* which no received message has, and messages of our own are left out; a   *)
(* message seen already is treated as the duplicate is.                      *)
ShouldAlert(message) ==
    /\ "notifications" \in noticeSettings
    /\ ~message.duplicate
    /\ ~message.blocked
    /\ NoticeKind(message) \in noticeSettings
    /\ ActiveMatch(message) =>
          (IF NoticeKind(message) = "dm" THEN "dm_foreground" ELSE "dm_request_foreground")
              \in noticeSettings

ClassifyNotification(n, explicit) ==
    LET message == NoticeContext(n, explicit)
    IN  /\ notices < MaxNotices
        /\ notices' = notices + 1
        /\ offered' = offered \cup {n}
        /\ alerts' = IF ShouldAlert(message)
                       THEN [alerts EXCEPT ![n] = Append(@, NoticeKind(message))]
                       ELSE alerts
        /\ UNCHANGED <<noticeSettings, uiState, standing>>

(* The user: a switch, the screen, a request answered, a contact blocked.    *)
FlipSwitch(s) ==
    /\ noticeSettings' = IF s \in noticeSettings THEN noticeSettings \ {s} ELSE noticeSettings \cup {s}
    /\ UNCHANGED <<uiState, standing, offered, alerts, notices>>

ShowConversation(active, foreground) ==
    /\ uiState' = [foreground |-> foreground, active |-> active]
    /\ UNCHANGED <<noticeSettings, standing, offered, alerts, notices>>

ChangeStanding(p, s) ==
    /\ standing' = [standing EXCEPT ![p] = s]
    /\ UNCHANGED <<noticeSettings, uiState, offered, alerts, notices>>

EndpointInit == endpoints = [i \in EndpointIds |-> NoEndpoint]

(* register_endpoint: the id holds the platform and the first eight          *)
(* characters of the device id; an endpoint of that id is replaced.          *)
EndpointId(platform, device) == <<platform, device[1]>>

RegisterEndpoint(platform, device, able) ==
    endpoints' = [endpoints EXCEPT ![EndpointId(platform, device)] =
                        [device |-> device, able |-> able]]

(* unregister_endpoint of an id that is registered; touch_endpoint changes   *)
(* a time stamp only.                                                        *)
UnregisterEndpoint(i) ==
    /\ endpoints[i] # NoEndpoint
    /\ endpoints' = [endpoints EXCEPT ![i] = NoEndpoint]

WithoutEndpoints(drop(_)) ==
    [i \in EndpointIds |-> IF endpoints[i] # NoEndpoint /\ drop(endpoints[i])
                             THEN NoEndpoint ELSE endpoints[i]]

(* Mutant: endpoints that take requests among other things go too.           *)
ClearRequestsBroadly ==
    endpoints' = WithoutEndpoints(LAMBDA e : "dm_request" \in e.able)

(* clear_all_request_notifications: the endpoints for requests alone.        *)
ClearAllRequestNotifications ==
    endpoints' = WithoutEndpoints(LAMBDA e : "dm_request" \in e.able /\ "dm" \notin e.able)

(* clear_message_notifications: the endpoints of one device, by its full id. *)
ClearMessageNotifications(device) ==
    endpoints' = WithoutEndpoints(LAMBDA e : e.device = device)

CloseAllNotifications ==
    endpoints' = [i \in EndpointIds |-> NoEndpoint]

NoticeNext ==
    \/ \E n \in Notices, explicit \in BOOLEAN : ClassifyNotification(n, explicit)
    \/ \E s \in Switches : FlipSwitch(s)
    \/ \E a \in {NoActive} \cup Senders \X Spellings, f \in BOOLEAN : ShowConversation(a, f)
    \/ \E p \in Senders, s \in {"stranger", "known", "blocked"} : ChangeStanding(p, s)

NoticeSpec == NoticeInit /\ [][NoticeNext]_noticeVars

EndpointNext ==
    \/ \E platform \in Platforms, device \in EndpointDevices, able \in Abilities :
          RegisterEndpoint(platform, device, able)
    \/ \E i \in EndpointIds : UnregisterEndpoint(i)
    \/ ClearAllRequestNotifications
    \/ \E device \in EndpointDevices : ClearMessageNotifications(device)
    \/ CloseAllNotifications

EndpointSpec == EndpointInit /\ [][EndpointNext]_endpointVars

-----------------------------------------------------------------------------
(* The duplicate statistics (store/dedup.rs): bounded, oldest stamp out.     *)

DedupIds == 1 .. MaxDedupId
NoStats == [at |-> -1, dups |-> 0, via |-> FALSE]
StatsKept == {i \in DedupIds : dedupEntries[i] # NoStats}

DedupInit ==
    /\ dedupEntries = [i \in DedupIds |-> NoStats]
    /\ dedupClock \in 0 .. MaxDedupTime
    /\ dedupSeen = [i \in DedupIds |-> 0]

(* Mutant: the highest id goes first, whatever its stamp. *)
OldestById == CHOOSE i \in StatsKept : \A j \in StatsKept : i >= j
(* The oldest stamp, and of several the least id.                            *)
Oldest ==
    CHOOSE i \in StatsKept : \A j \in StatsKept :
        \/ dedupEntries[i].at < dedupEntries[j].at
        \/ dedupEntries[i].at = dedupEntries[j].at /\ i <= j

RecordReceived(i, via) ==
    /\ dedupSeen[i] < MaxDedupSteps
    /\ IF i \in StatsKept
         THEN /\ dedupEntries' = [dedupEntries EXCEPT ![i].dups = @ + 1]
              /\ dedupSeen' = [dedupSeen EXCEPT ![i] = @ + 1]
         ELSE LET evicted == IF Cardinality(StatsKept) >= MaxDedupEntries THEN {Oldest} ELSE {}
              IN  /\ dedupEntries' = [j \in DedupIds |->
                        IF j = i THEN [at |-> dedupClock, dups |-> 0, via |-> via]
                        ELSE IF j \in evicted THEN NoStats ELSE dedupEntries[j]]
                  /\ dedupSeen' = [dedupSeen EXCEPT ![i] = 1]
    /\ UNCHANGED dedupClock

ClearStats ==
    /\ dedupEntries' = [i \in DedupIds |-> NoStats]
    /\ UNCHANGED <<dedupClock, dedupSeen>>

DedupClockMoves ==
    /\ dedupClock' \in 0 .. MaxDedupTime
    /\ UNCHANGED <<dedupEntries, dedupSeen>>

DedupNext ==
    \/ \E i \in DedupIds, via \in BOOLEAN : RecordReceived(i, via)
    \/ ClearStats \/ DedupClockMoves

DedupSpec == DedupInit /\ [][DedupNext]_dedupVars

-----------------------------------------------------------------------------
InboxTypeOK ==
    /\ peerBlock \in [Contacts -> {"none", "blocked", "deleted"}]
    /\ deviceBlock \in [Contacts -> [DeviceIds -> {"none", "blocked", "deleted"}]]
    /\ knownDevices \in [Contacts -> SUBSET DeviceIds]
    /\ lastDevice \in [Contacts -> DeviceIds \cup {NoDeviceId}]
    /\ Range(seenOrder) \subseteq Mail /\ Len(seenOrder) <= MAX_SEEN_IDS
    /\ inboxHistory \in [Mail -> {"absent", "shown", "hidden"}]
    /\ inboxReceived \in 0..MaxReceived

(* The block list stays closed under the device registry, whatever order     *)
(* devices are learnt, blocked and unblocked in: a block of the peer covers  *)
(* every registered device, and every blocked device is registered, so that  *)
(* unblocking the peer finds and clears all of its records.                  *)
BlockListClosed ==
    \A p \in Contacts : \A d \in DeviceIds :
        /\ peerBlock[p] # "none" /\ d \in knownDevices[p] => deviceBlock[p][d] # "none"
        /\ deviceBlock[p][d] # "none" => d \in knownDevices[p]

(* A message is hidden only while its sender has a block record, apart from  *)
(* the messages that were being received when the user unblocked: the flag   *)
(* receive_message read before the unblock is written after the unhiding.    *)
HiddenOnlyWhileBlocked ==
    \A m \in Mail :
        inboxHistory[m] = "hidden" /\ m \notin overlapped /\ UserIdle =>
            \/ peerBlock[SenderOf[m]] # "none"
            \/ \E d \in DeviceIds : deviceBlock[SenderOf[m]][d] # "none"

(* Nothing of a deleted peer is in the history, apart from the messages      *)
(* whose reception had passed the check when the peer was deleted.           *)
DeletedLeavesNoTrace ==
    \A m \in Mail :
        peerBlock[SenderOf[m]] = "deleted" /\ UserIdle /\ m \notin overlapped =>
            inboxHistory[m] = "absent"

(* The inbox stores a message a second time only when MAX_SEEN_IDS newer     *)
(* messages have pushed its id out of the window of seen ids.                *)
DedupWindow ==
    \A m \in Mail :
       inboxStored'[m] # inboxStored[m] /\ inboxStored[m] > 0 => newerThan[m] >= MAX_SEEN_IDS

(* However often a message is received and whatever the user switches or     *)
(* opens in between, it alerts at most once: classify_notification keeps no  *)
(* memory, so this rests on the duplicate flag the caller passes.            *)
AlertsOnce == \A n \in Notices : Len(alerts[n]) <= 1

(* An endpoint that takes direct messages leaves the registry only by being  *)
(* unregistered or with its own device, never because requests were cleared, *)
(* and two devices of one platform share an endpoint only when the first     *)
(* eight characters of their ids agree.                                      *)
EndpointsKept ==
    \A i \in EndpointIds :
        endpoints[i] # NoEndpoint /\ "dm" \in endpoints[i].able /\ endpoints'[i] # endpoints[i] =>
            IF endpoints'[i] # NoEndpoint
              THEN endpoints'[i].device[1] = endpoints[i].device[1]
              ELSE \/ Cardinality({j \in EndpointIds : endpoints'[j] # endpoints[j]}) = 1
                   \/ \A j \in EndpointIds :
                         endpoints[j] # NoEndpoint /\ endpoints[j].device = endpoints[i].device
                             => endpoints'[j] = NoEndpoint

(* The statistics of a tracked id count every reception but the first, and *)
(* an id is forgotten only for as many others as the tracker holds, none   *)
(* stamped before it: record_received evicts the oldest stamp, also when   *)
(* the clock was set back in between.                                      *)
DedupExact ==
    \A i \in DedupIds :
        /\ dedupEntries'[i] # NoStats => dedupEntries'[i].dups = dedupSeen'[i] - 1
        /\ dedupEntries[i] # NoStats /\ dedupEntries'[i] = NoStats /\ StatsKept' # {} =>
              Cardinality({j \in DedupIds \ {i} : dedupEntries'[j] # NoStats
                              /\ (dedupEntries[j] # NoStats => dedupEntries[j].at >= dedupEntries[i].at)})
                  = MaxDedupEntries

(* Blocking and receiving together: after every step the block list is     *)
(* closed, nothing stays hidden without a block, a deleted peer has left   *)
(* no trace, and no step stores a message twice within the window; no      *)
(* message alerts twice, no endpoint is lost to another's clearing, and    *)
(* the duplicate statistics are exact.                                     *)
InboxSound ==
    [][/\ UNCHANGED inboxVars
          \/ ((BlockListClosed /\ HiddenOnlyWhileBlocked /\ DeletedLeavesNoTrace)' /\ DedupWindow)
       /\ UNCHANGED noticeVars \/ AlertsOnce'
       /\ UNCHANGED endpointVars \/ EndpointsKept
       /\ UNCHANGED dedupVars \/ DedupExact]_<<inboxVars, noticeVars, endpointVars, dedupVars>>
=============================================================================
