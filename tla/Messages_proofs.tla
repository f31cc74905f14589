-------------------------- MODULE Messages_proofs ---------------------------
(***************************************************************************)
(* Proofs about messages at the ends of their way: those a node receives   *)
(* (CoreInbox), for any contacts, devices and messages, and those the      *)
(* daemon has queued (CliNode), for any peers.                             *)
(***************************************************************************)
EXTENDS CoreInbox, CliNode, FiniteSetTheorems, SequenceTheorems, WellFoundedInduction, TLAPS

(* The inbox: blocking, receiving, alerts, endpoints, statistics. *)

(* The records of the block list.                                          *)
Blocks == {"none", "blocked", "deleted"}

(* The block list and its devices.                                         *)
ListTypes ==
    /\ peerBlock \in [Contacts -> Blocks] /\ deviceBlock \in [Contacts -> [DeviceIds -> Blocks]]
    /\ knownDevices \in [Contacts -> SUBSET DeviceIds]
    /\ lastDevice \in [Contacts -> DeviceIds \cup {NoDeviceId}]

(* What the block list keeps.                                              *)
ListInv == ListTypes /\ BlockListClosed

(* What block_peer, unblock_peer and register_device_id make of the list,  *)
(* device by device.                                                       *)
LEMMA InheritedAt ==
    ASSUME ListTypes, NEW p \in Contacts, NEW ds \in SUBSET DeviceIds
    PROVE  /\ Inherited(p, ds) \in [Contacts -> [DeviceIds -> Blocks]]
           /\ \A q \in Contacts, e \in DeviceIds: Inherited(p, ds)[q][e] =
                 IF q = p /\ e \in ds /\ e \notin knownDevices[p] /\ peerBlock[p] # "none"
                   THEN peerBlock[p] ELSE deviceBlock[q][e]
           /\ Registered(p, ds) \in [Contacts -> SUBSET DeviceIds]
           /\ \A q \in Contacts, e \in DeviceIds: e \in Registered(p, ds)[q] <=>
                 e \in knownDevices[q] \/ (q = p /\ e \in ds)
<1>1. \A e \in DeviceIds: deviceBlock[p][e] \in Blocks /\ peerBlock[p] \in Blocks
  BY Zenon DEF ListTypes
<1>2. /\ Inherited(p, ds) \in [Contacts -> [DeviceIds -> Blocks]]
      /\ \A q \in Contacts, e \in DeviceIds: Inherited(p, ds)[q][e] =
            IF q = p /\ e \in ds /\ e \notin knownDevices[p] /\ peerBlock[p] # "none"
              THEN peerBlock[p] ELSE deviceBlock[q][e]
  BY <1>1, Zenon DEF ListTypes, Inherited
<1>3. /\ Registered(p, ds) \in [Contacts -> SUBSET DeviceIds]
      /\ \A q \in Contacts, e \in DeviceIds: e \in Registered(p, ds)[q] <=>
            e \in knownDevices[q] \/ (q = p /\ e \in ds)
  BY Zenon DEF ListTypes, Registered
<1> QED
  BY <1>2, <1>3, Zenon

(* The last known device is a device.                                      *)
LEMMA LastKnownIsDevice ==
    ASSUME ListTypes, NEW p \in Contacts
    PROVE  LastKnown(p) \in SUBSET DeviceIds
  BY Zenon DEF ListTypes, LastKnown

(* Every block of a peer or a device is there after the step.              *)
BlocksStay(p) ==
    /\ peerBlock[p] # "none" => peerBlock'[p] # "none"
    /\ \A d \in DeviceIds: deviceBlock[p][d] # "none" => deviceBlock'[p][d] # "none"

(* Blocking a peer closes the list and takes no block away.                *)
LEMMA BlockRecordsKeep ==
    ASSUME ListInv, NEW p \in Contacts, NEW record \in {"blocked", "deleted"}, BlockRecords(p, record)
    PROVE  /\ ListInv' /\ \A q \in Contacts: BlocksStay(q)
           /\ peerBlock' = [peerBlock EXCEPT ![p] = record]
<1> DEFINE known == Registered(p, LastKnown(p))
<1>1. /\ knownDevices' = known /\ peerBlock' = [peerBlock EXCEPT ![p] = record]
      /\ deviceBlock' = [deviceBlock EXCEPT ![p] =
                           [d \in DeviceIds |-> IF d \in known[p] THEN record ELSE @[d]]]
      /\ lastDevice' = lastDevice
  BY Zenon DEF BlockRecords
<1>2. /\ known \in [Contacts -> SUBSET DeviceIds]
      /\ \A q \in Contacts, e \in DeviceIds: e \in known[q] <=>
            e \in knownDevices[q] \/ (q = p /\ e \in LastKnown(p))
  BY InheritedAt, LastKnownIsDevice, Zenon DEF ListInv
<1> HIDE DEF known
<1>3. /\ deviceBlock' \in [Contacts -> [DeviceIds -> Blocks]]
      /\ \A q \in Contacts, e \in DeviceIds: deviceBlock'[q][e] =
            IF q = p /\ e \in known[p] THEN record ELSE deviceBlock[q][e]
  BY <1>1, Zenon DEF ListInv, ListTypes, Blocks
<1>4. ListTypes'
  BY <1>1, <1>2, <1>3, Zenon DEF ListInv, ListTypes, Blocks
<1>5. BlockListClosed'
  BY <1>1, <1>2, <1>3 DEF ListInv, ListTypes, BlockListClosed
<1>6. \A q \in Contacts: BlocksStay(q)
  BY <1>1, <1>3, Zenon DEF ListInv, ListTypes, BlocksStay
<1> QED
  BY <1>1, <1>4, <1>5, <1>6, Zenon DEF ListInv

(* So does blocking a device.                                              *)
LEMMA BlockDeviceKeeps ==
    ASSUME ListInv, NEW p \in Contacts, NEW d \in DeviceIds, BlockDevice(p, d)
    PROVE  ListInv' /\ \A q \in Contacts: BlocksStay(q)
<1> DEFINE ds == LastKnown(p) \cup {d}
           known == Registered(p, ds)
           inherited == Inherited(p, ds)
<1>1. /\ knownDevices' = known /\ UNCHANGED <<peerBlock, lastDevice>>
      /\ deviceBlock' = [inherited EXCEPT ![p][d] = "blocked"]
  BY Zenon DEF BlockDevice
<1>2. ds \in SUBSET DeviceIds
  BY LastKnownIsDevice, Zenon DEF ListInv
<1>3. /\ inherited \in [Contacts -> [DeviceIds -> Blocks]]
      /\ \A q \in Contacts, e \in DeviceIds: inherited[q][e] =
            IF q = p /\ e \in ds /\ e \notin knownDevices[p] /\ peerBlock[p] # "none"
              THEN peerBlock[p] ELSE deviceBlock[q][e]
      /\ known \in [Contacts -> SUBSET DeviceIds]
      /\ \A q \in Contacts, e \in DeviceIds: e \in known[q] <=> e \in knownDevices[q]
                 \/ (q = p /\ e \in ds)
  BY <1>2, InheritedAt, Zenon DEF ListInv
<1>4. d \in ds
  BY Zenon
<1> HIDE DEF ds, known, inherited
<1>5. /\ deviceBlock' \in [Contacts -> [DeviceIds -> Blocks]]
      /\ \A q \in Contacts, e \in DeviceIds: deviceBlock'[q][e] =
            IF q = p /\ e = d THEN "blocked" ELSE inherited[q][e]
  BY <1>1, <1>3, Zenon DEF Blocks
<1>6. ListTypes'
  BY <1>1, <1>3, <1>5, Zenon DEF ListInv, ListTypes
<1>7. BlockListClosed'
  BY <1>1, <1>3, <1>4, <1>5 DEF ListInv, ListTypes, BlockListClosed
<1>8. \A q \in Contacts: BlocksStay(q)
  BY <1>1, <1>3, <1>5 DEF BlocksStay
<1> QED
  BY <1>6, <1>7, <1>8, Zenon DEF ListInv

(* So does learning a device.                                              *)
LEMMA UpdateKeeps ==
    ASSUME ListInv, NEW p \in Contacts, NEW d \in DeviceIds \cup {NoDeviceId}, UpdateLastKnownDevice(p, d)
    PROVE  ListInv' /\ \A q \in Contacts: BlocksStay(q)
<1>1. peerBlock' = peerBlock /\ lastDevice' \in [Contacts -> DeviceIds \cup {NoDeviceId}]
  BY Zenon DEF UpdateLastKnownDevice, ListInv, ListTypes
<1>2. CASE UNCHANGED <<knownDevices, deviceBlock>>
  BY <1>1, <1>2, Zenon DEF ListInv, ListTypes, BlockListClosed, BlocksStay
<1>3. CASE ~UNCHANGED <<knownDevices, deviceBlock>>
  <2>1. {d} \in SUBSET DeviceIds /\ knownDevices' = Registered(p, {d})
             /\ deviceBlock' = Inherited(p, {d})
    BY <1>3, Zenon DEF UpdateLastKnownDevice
  <2>2. /\ deviceBlock' \in [Contacts -> [DeviceIds -> Blocks]]
        /\ \A q \in Contacts, e \in DeviceIds: deviceBlock'[q][e] =
              IF q = p /\ e \in {d} /\ e \notin knownDevices[p] /\ peerBlock[p] # "none"
                THEN peerBlock[p] ELSE deviceBlock[q][e]
        /\ knownDevices' \in [Contacts -> SUBSET DeviceIds]
        /\ \A q \in Contacts, e \in DeviceIds: e \in knownDevices'[q] <=>
              e \in knownDevices[q] \/ (q = p /\ e \in {d})
    <3> DEFINE ds == {d}
    <3>1. ds \in SUBSET DeviceIds /\ knownDevices' = Registered(p, ds)
               /\ deviceBlock' = Inherited(p, ds)
      BY <2>1, Zenon
    <3> HIDE DEF ds
    <3>2. /\ deviceBlock' \in [Contacts -> [DeviceIds -> Blocks]]
          /\ \A q \in Contacts, e \in DeviceIds: deviceBlock'[q][e] =
                IF q = p /\ e \in ds /\ e \notin knownDevices[p] /\ peerBlock[p] # "none"
                  THEN peerBlock[p] ELSE deviceBlock[q][e]
          /\ knownDevices' \in [Contacts -> SUBSET DeviceIds]
          /\ \A q \in Contacts, e \in DeviceIds: e \in knownDevices'[q] <=>
                e \in knownDevices[q] \/ (q = p /\ e \in ds)
      BY <3>1, InheritedAt DEF ListInv
    <3> QED
      BY <3>2, Zenon DEF ds
  <2>3. ListTypes'
    BY <1>1, <2>2, Zenon DEF ListInv, ListTypes
  <2>4. BlockListClosed'
    BY <1>1, <2>2 DEF ListInv, ListTypes, BlockListClosed
  <2>5. \A q \in Contacts: BlocksStay(q)
    BY <1>1, <2>2, Zenon DEF BlocksStay
  <2> QED
    BY <2>3, <2>4, <2>5, Zenon DEF ListInv
<1> QED
  BY <1>2, <1>3, Zenon

(* Unblocking a peer keeps the list closed.                                *)
LEMMA UnblockPeerKeeps ==
    ASSUME ListInv, NEW p \in Contacts, UnblockPeer(p)
    PROVE  ListInv' /\ \A q \in Contacts \ {p}: BlocksStay(q) /\ peerBlock'[q] = peerBlock[q]
<1>1. /\ peerBlock' = [peerBlock EXCEPT ![p] = "none"]
           /\ knownDevices' = [knownDevices EXCEPT ![p] = {}]
      /\ deviceBlock' = [deviceBlock EXCEPT ![p] =
                           [d \in DeviceIds |-> IF d \in knownDevices[p] THEN "none" ELSE @[d]]]
      /\ lastDevice' = lastDevice
  BY Zenon DEF UnblockPeer
<1>2. /\ deviceBlock' \in [Contacts -> [DeviceIds -> Blocks]]
      /\ \A q \in Contacts, e \in DeviceIds: deviceBlock'[q][e] =
            IF q = p /\ e \in knownDevices[p] THEN "none" ELSE deviceBlock[q][e]
  BY <1>1, Zenon DEF ListInv, ListTypes, Blocks
<1>3. ListTypes'
  BY <1>1, <1>2, Zenon DEF ListInv, ListTypes, Blocks
<1>4. BlockListClosed'
  BY <1>1, <1>2 DEF ListInv, ListTypes, BlockListClosed
<1>5. \A q \in Contacts \ {p}: BlocksStay(q) /\ peerBlock'[q] = peerBlock[q]
  BY <1>1, <1>2, Zenon DEF ListInv, ListTypes, BlocksStay
<1> QED
  BY <1>3, <1>4, <1>5, Zenon DEF ListInv

(* Unblocking a device keeps the list closed.                              *)
LEMMA UnblockDeviceKeeps ==
    ASSUME ListInv, NEW p \in Contacts, NEW d \in DeviceIds, UnblockDevice(p, d)
    PROVE  ListInv' /\ peerBlock' = peerBlock /\ \A q \in Contacts \ {p}: BlocksStay(q)
<1>1. /\ peerBlock' = peerBlock /\ knownDevices' = [knownDevices EXCEPT ![p] = @ \ {d}]
      /\ deviceBlock' = [deviceBlock EXCEPT ![p][d] = "none"] /\ lastDevice' = lastDevice
  BY Zenon DEF UnblockDevice
<1>2. /\ deviceBlock' \in [Contacts -> [DeviceIds -> Blocks]]
      /\ \A q \in Contacts, e \in DeviceIds: deviceBlock'[q][e] =
            IF q = p /\ e = d THEN "none" ELSE deviceBlock[q][e]
  BY <1>1, Zenon DEF ListInv, ListTypes, Blocks
<1>3. ListTypes'
  BY <1>1, <1>2, Zenon DEF ListInv, ListTypes
<1>4. BlockListClosed'
  BY <1>1, <1>2 DEF ListInv, ListTypes, BlockListClosed
<1>5. \A q \in Contacts \ {p}: BlocksStay(q)
  BY <1>1, <1>2, Zenon DEF BlocksStay
<1> QED
  BY <1>1, <1>3, <1>4, <1>5, Zenon DEF ListInv

(* receive_message under way, and the user's thread between its two steps. *)
ReceptionTypes ==
    \/ reception = InboxIdle
    \/ \E m \in Mail: reception = [step |-> "check blocked", m |-> m]
    \/ \E m \in Mail, s \in {"inbox", "history"}, h \in BOOLEAN: reception = [step |-> s, m |-> m, hidden |-> h]

(* The second step a call of the user still has to make.                   *)
UserTypes ==
    \/ pendingUser = InboxIdle
    \/ \E p \in Contacts, s \in {"unhide", "remove conversation"}: pendingUser = [step |-> s, p |-> p]

(* A sender with a block record.                                           *)
Blocked(p) == peerBlock[p] # "none" \/ \E d \in DeviceIds: deviceBlock[p][d] # "none"

(* What is hidden has a blocked sender, or is about to be shown, and so    *)
(* has what a reception is about to hide.                                  *)
HideInv ==
    /\ \A m \in Mail: inboxHistory[m] = "hidden" /\ m \notin overlapped =>
          Blocked(SenderOf[m]) \/ pendingUser = [step |-> "unhide", p |-> SenderOf[m]]
    /\ reception.step \in {"inbox", "history"} /\ reception.hidden /\ reception.m \notin overlapped =>
          Blocked(SenderOf[reception.m])

(* What is left of a deleted peer is about to go, and a reception that     *)
(* goes on for one overlapped with the deletion.                           *)
DeleteInv ==
    /\ \A m \in Mail: peerBlock[SenderOf[m]] = "deleted" /\ m \notin overlapped =>
          inboxHistory[m] = "absent" \/ pendingUser = [step |-> "remove conversation", p |-> SenderOf[m]]
    /\ reception.step # "idle" /\ peerBlock[SenderOf[reception.m]] = "deleted" => reception.m \in overlapped

(* The history, and what receptions and the user keep of it.               *)
HistoryTypes == inboxHistory \in [Mail -> {"absent", "shown", "hidden"}]

(* What every step of the inbox keeps of its mail.                         *)
MailInv == ReceptionTypes /\ UserTypes /\ HistoryTypes /\ HideInv /\ DeleteInv

(* What a reception is of.                                                 *)
LEMMA ReceptionParts ==
    ASSUME ReceptionTypes
    PROVE  /\ reception.step \in {"idle", "check blocked", "inbox", "history"}
           /\ reception.step # "idle" <=> reception # InboxIdle
           /\ reception.step # "idle" => reception.m \in Mail
           /\ reception.step \in {"inbox", "history"} => reception.hidden \in BOOLEAN
           /\ reception.step \in {"inbox", "history"} =>
                 reception = [step |-> reception.step, m |-> reception.m, hidden |-> reception.hidden]
<1>1. CASE reception = InboxIdle
  BY <1>1, Zenon DEF InboxIdle
<1>2. CASE \E m \in Mail: reception = [step |-> "check blocked", m |-> m]
  <2>1. PICK m \in Mail: reception = [step |-> "check blocked", m |-> m]
    BY <1>2, Zenon
  <2>2. reception.step = "check blocked" /\ reception.m = m
    BY <2>1, Zenon
  <2>3. reception # InboxIdle
    <3>1. InboxIdle.step = "idle"
      BY Zenon DEF InboxIdle
    <3> QED
      BY <2>2, <3>1, Zenon
  <2> QED
    BY <2>2, <2>3, Zenon
<1>3. ASSUME NEW m \in Mail, NEW s \in {"inbox", "history"}, NEW h \in BOOLEAN,
             reception = [step |-> s, m |-> m, hidden |-> h]
      PROVE  /\ reception.step \in {"inbox", "history"} /\ reception # InboxIdle /\ reception.m \in Mail
             /\ reception.hidden \in BOOLEAN
             /\ reception = [step |-> reception.step, m |-> reception.m, hidden |-> reception.hidden]
  <2>1. reception.step = s /\ reception.m = m /\ reception.hidden = h
    BY <1>3, Zenon
  <2>2. reception # InboxIdle
    BY <2>1 DEF InboxIdle
  <2> QED
    BY <2>1, <2>2, <1>3, Zenon
<1> QED
  BY <1>1, <1>2, <1>3, Zenon DEF ReceptionTypes

(* A step that leaves receptions and history alone and unblocks no sender. *)
LEMMA ListsGrow ==
    ASSUME MailInv, UNCHANGED <<reception, pendingUser, inboxHistory, overlapped>>,
           \A q \in Contacts: BlocksStay(q) /\ (peerBlock'[q] = "deleted" => peerBlock[q] = "deleted")
    PROVE  MailInv'
<1>1. (ReceptionTypes /\ UserTypes /\ HistoryTypes)'
  BY Zenon DEF MailInv, ReceptionTypes, UserTypes, HistoryTypes
<1>2. \A q \in Contacts: Blocked(q) => Blocked(q)'
  BY Zenon DEF Blocked, BlocksStay
<1>3. \A m \in Mail: SenderOf[m] \in Contacts
  BY InboxAssumption, Zenon
<1>4. reception.step # "idle" => reception.m \in Mail
  BY ReceptionParts, Zenon DEF MailInv
<1>5. HideInv'
  BY <1>2, <1>3, <1>4, Zenon DEF MailInv, HideInv
<1>6. DeleteInv'
  BY <1>3, <1>4, Zenon DEF MailInv, DeleteInv
<1> QED
  BY <1>1, <1>5, <1>6, Zenon DEF MailInv

(* A step that blocks or unblocks one peer, and counts what is under       *)
(* reception from it.                                                      *)
LEMMA PeerChanged ==
    ASSUME MailInv, UserIdle, NEW p \in Contacts, NEW s \in {"unhide", "remove conversation"},
           UNCHANGED <<reception, inboxHistory>>, pendingUser' = [step |-> s, p |-> p],
           overlapped' = overlapped \cup UnderReception(p),
           \A q \in Contacts \ {p}: BlocksStay(q) /\ peerBlock'[q] = peerBlock[q],
           s = "unhide" => peerBlock'[p] \in {"none", peerBlock[p]},
           s = "remove conversation" => peerBlock'[p] = "deleted"
    PROVE  MailInv'
<1>1. (ReceptionTypes /\ UserTypes /\ HistoryTypes)'
  BY Zenon DEF MailInv, ReceptionTypes, UserTypes, HistoryTypes
<1>2. \A q \in Contacts \ {p}: Blocked(q) => Blocked(q)'
  BY Zenon DEF Blocked, BlocksStay
<1>3. \A m \in Mail: SenderOf[m] \in Contacts
  BY InboxAssumption, Zenon
<1>4. /\ reception.step # "idle" => reception.m \in Mail /\ reception # InboxIdle
      /\ \A q \in Contacts, t \in {"unhide", "remove conversation"}: pendingUser # [step |-> t, p |-> q]
  BY ReceptionParts, Zenon DEF MailInv, InboxIdle, UserIdle
<1>5. reception.step # "idle" /\ SenderOf[reception.m] = p => reception.m \in overlapped'
  BY <1>4, Zenon DEF UnderReception, MailFrom
<1>6. HideInv'
  <2>1. ASSUME NEW m \in Mail, inboxHistory[m] = "hidden", m \notin overlapped'
        PROVE  Blocked(SenderOf[m])' \/ pendingUser' = [step |-> "unhide", p |-> SenderOf[m]]
    <3>1. Blocked(SenderOf[m])
      BY <2>1, <1>3, <1>4, Zenon DEF MailInv, HideInv
    <3>2. CASE SenderOf[m] # p
      BY <3>1, <3>2, <1>2, <1>3, Zenon
    <3>3. CASE SenderOf[m] = p /\ s = "unhide"
      BY <3>3, Zenon
    <3>4. CASE SenderOf[m] = p /\ s = "remove conversation"
      BY <3>4, Zenon DEF Blocked
    <3> QED
      BY <3>2, <3>3, <3>4, Zenon
  <2>2. reception.step \in {"inbox", "history"} /\ reception.hidden /\ reception.m \notin overlapped' =>
           Blocked(SenderOf[reception.m])'
    BY <1>2, <1>3, <1>4, <1>5, Zenon DEF MailInv, HideInv
  <2> QED
    BY <2>1, <2>2, Zenon DEF HideInv
<1>7. DeleteInv'
  <2>1. ASSUME NEW m \in Mail, peerBlock'[SenderOf[m]] = "deleted", m \notin overlapped'
        PROVE  inboxHistory[m] = "absent"
                   \/ pendingUser' = [step |-> "remove conversation", p |-> SenderOf[m]]
    <3>1. CASE SenderOf[m] = p /\ s = "remove conversation"
      BY <3>1, Zenon
    <3>2. CASE SenderOf[m] # p \/ s = "unhide"
      <4>1. peerBlock[SenderOf[m]] = "deleted"
        BY <2>1, <3>2, <1>3, Zenon
      <4> QED
        BY <4>1, <2>1, <1>3, <1>4, Zenon DEF MailInv, DeleteInv
    <3> QED
      BY <3>1, <3>2, Zenon
  <2>2. reception.step # "idle" /\ peerBlock'[SenderOf[reception.m]] = "deleted" => reception.m \in overlapped'
    BY <1>3, <1>4, <1>5, Zenon DEF MailInv, DeleteInv
  <2> QED
    BY <2>1, <2>2, Zenon DEF DeleteInv
<1> QED
  BY <1>1, <1>6, <1>7, Zenon DEF MailInv

(* receive_message keeps what is hidden and what is deleted.               *)
LEMMA ReceptionKeeps ==
    ASSUME ListTypes, MailInv, UNCHANGED <<blockListVars, pendingUser, overlapped>>,
           (\E m \in Mail: CheckDeleted(m)) \/ CheckBlocked \/ StoreInInbox \/ AddToHistory
    PROVE  MailInv'
<1>1. /\ reception.step \in {"idle", "check blocked", "inbox", "history"}
      /\ reception.step # "idle" <=> reception # InboxIdle
      /\ reception.step # "idle" => reception.m \in Mail
      /\ reception.step \in {"inbox", "history"} => reception.hidden \in BOOLEAN
      /\ reception.step \in {"inbox", "history"} =>
            reception = [step |-> reception.step, m |-> reception.m, hidden |-> reception.hidden]
  BY ReceptionParts, Zenon DEF MailInv
<1>2. UserTypes' /\ \A q \in Contacts: Blocked(q)' = Blocked(q)
  BY Zenon DEF MailInv, UserTypes, Blocked, blockListVars
<1>3. \A m \in Mail: SenderOf[m] \in Contacts
  BY InboxAssumption, Zenon
<1>4. /\ InboxIdle.step = "idle"
      /\ \A m \in Mail: [step |-> "check blocked", m |-> m].step = "check blocked"
                     /\ [step |-> "check blocked", m |-> m].m = m
  BY Zenon DEF InboxIdle
<1>5. ASSUME NEW m \in Mail, CheckDeleted(m) PROVE MailInv'
  <2>1. /\ inboxHistory' = inboxHistory
        /\ \/ reception' = InboxIdle
           \/ reception' = [step |-> "check blocked", m |-> m] /\ peerBlock[SenderOf[m]] # "deleted"
    BY <1>5, Zenon DEF CheckDeleted
  <2>2. ReceptionTypes' /\ HistoryTypes'
    BY <2>1, Zenon DEF MailInv, ReceptionTypes, HistoryTypes
  <2>3. reception'.step \notin {"inbox", "history"}
    BY <2>1, <1>4, Zenon
  <2>4. HideInv'
    BY <2>1, <2>3, <1>2, <1>3, Zenon DEF MailInv, HideInv
  <2>5. DeleteInv'
    BY <2>1, <1>4, Zenon DEF MailInv, DeleteInv, blockListVars
  <2> QED
    BY <1>2, <2>2, <2>4, <2>5, Zenon DEF MailInv
<1>6. CASE CheckBlocked
  <2> DEFINE h == IsBlocked(SenderOf[reception.m])
  <2>1. /\ inboxHistory' = inboxHistory /\ reception.step = "check blocked"
        /\ reception' = [step |-> "inbox", m |-> reception.m, hidden |-> h]
    BY <1>6, Zenon DEF CheckBlocked
  <2>2. h \in BOOLEAN /\ (h => Blocked(SenderOf[reception.m]))
    <3>1. SenderOf[reception.m] \in Contacts
      BY <1>1, <1>3, <2>1, Zenon
    <3>2. lastDevice[SenderOf[reception.m]] # NoDeviceId
               => lastDevice[SenderOf[reception.m]] \in DeviceIds
      BY <3>1, Zenon DEF ListTypes
    <3> QED
      BY <3>2, Zenon DEF IsBlocked, Blocked
  <2> HIDE DEF h
  <2>3. reception'.step = "inbox" /\ reception'.m = reception.m /\ reception'.hidden = h
    BY <2>1, Zenon
  <2>4. ReceptionTypes' /\ HistoryTypes'
    BY <2>1, <2>2, <1>1, Zenon DEF MailInv, ReceptionTypes, HistoryTypes
  <2>5. HideInv'
    BY <2>1, <2>2, <2>3, <1>1, <1>2, <1>3, Zenon DEF MailInv, HideInv
  <2>6. DeleteInv'
    BY <2>1, <2>3, Zenon DEF MailInv, DeleteInv, blockListVars
  <2> QED
    BY <1>2, <2>4, <2>5, <2>6, Zenon DEF MailInv
<1>7. CASE StoreInInbox
  <2>1. /\ inboxHistory' = inboxHistory /\ reception.step = "inbox"
        /\ reception' = [reception EXCEPT !.step = "history"]
    BY <1>7, Zenon DEF StoreInInbox
  <2>2. /\ reception' = [step |-> "history", m |-> reception.m, hidden |-> reception.hidden]
        /\ reception'.step = "history" /\ reception'.m = reception.m
                   /\ reception'.hidden = reception.hidden
    BY <2>1, <1>1, Zenon
  <2>3. ReceptionTypes' /\ HistoryTypes'
    BY <2>1, <2>2, <1>1, Zenon DEF MailInv, ReceptionTypes, HistoryTypes
  <2>4. HideInv'
    BY <2>1, <2>2, <1>1, <1>2, <1>3, Zenon DEF MailInv, HideInv
  <2>5. DeleteInv'
    BY <2>1, <2>2, Zenon DEF MailInv, DeleteInv, blockListVars
  <2> QED
    BY <1>2, <2>3, <2>4, <2>5, Zenon DEF MailInv
<1>8. CASE AddToHistory
  <2>1. /\ reception.step = "history" /\ reception' = InboxIdle /\ reception'.step = "idle"
        /\ inboxHistory' = [inboxHistory EXCEPT ![reception.m] = IF reception.hidden THEN "hidden"
                   ELSE "shown"]
    BY <1>8, <1>4, Zenon DEF AddToHistory
  <2>2. ReceptionTypes' /\ HistoryTypes'
    BY <2>1, Zenon DEF MailInv, ReceptionTypes, HistoryTypes
  <2>3. \A m \in Mail: /\ m # reception.m => inboxHistory'[m] = inboxHistory[m]
                       /\ m = reception.m /\ inboxHistory'[m] = "hidden" => reception.hidden
    BY <2>1, Zenon DEF MailInv, HistoryTypes
  <2>4. HideInv'
    BY <2>1, <2>3, <1>2, <1>3, Zenon DEF MailInv, HideInv
  <2>5. DeleteInv'
    BY <2>1, <2>3, Zenon DEF MailInv, DeleteInv, blockListVars
  <2> QED
    BY <1>2, <2>2, <2>4, <2>5, Zenon DEF MailInv
<1> QED
  BY <1>5, <1>6, <1>7, <1>8, Zenon

(* The user's second step: unhiding a conversation, or removing it.        *)
LEMMA SecondStepKeeps ==
    ASSUME MailInv, UNCHANGED <<blockListVars, reception, overlapped>>, Unhide \/ RemoveConversation
    PROVE  MailInv'
<1>1. PICK p \in Contacts, s \in {"unhide", "remove conversation"}: pendingUser = [step |-> s, p |-> p]
  <2>1. pendingUser.step # "idle"
    BY Zenon DEF Unhide, RemoveConversation
  <2>2. pendingUser # InboxIdle
    BY <2>1 DEF InboxIdle
  <2> QED
    BY <2>2, Zenon DEF MailInv, UserTypes
<1>2. pendingUser.step = s /\ pendingUser.p = p
  BY <1>1, Zenon
<1>3. /\ pendingUser' = InboxIdle
      /\ \A q \in Contacts, t \in {"unhide", "remove conversation"}:
            pendingUser = [step |-> t, p |-> q] => t = s /\ q = p
  BY <1>1, Zenon DEF Unhide, RemoveConversation
<1>4. ReceptionTypes' /\ UserTypes' /\ \A q \in Contacts: Blocked(q)' = Blocked(q)
  BY <1>3, Zenon DEF MailInv, ReceptionTypes, UserTypes, Blocked, blockListVars
<1>5. \A m \in Mail: SenderOf[m] \in Contacts
  BY InboxAssumption, Zenon
<1>6. reception.step # "idle" => reception.m \in Mail
  BY ReceptionParts, Zenon DEF MailInv
<1>7. /\ inboxHistory' \in [Mail -> {"absent", "shown", "hidden"}]
      /\ \A m \in Mail: /\ SenderOf[m] # p => inboxHistory'[m] = inboxHistory[m]
                        /\ inboxHistory[m] = "absent" => inboxHistory'[m] = "absent"
                        /\ inboxHistory'[m] = "hidden" => inboxHistory[m] = "hidden"
                        /\ SenderOf[m] = p /\ s = "unhide" => inboxHistory'[m] # "hidden"
                        /\ SenderOf[m] = p /\ s = "remove conversation" => inboxHistory'[m] = "absent"
  <2>1. CASE Unhide
    BY <2>1, <1>2, Zenon DEF Unhide, MailFrom, MailInv, HistoryTypes
  <2>2. CASE RemoveConversation
    BY <2>2, <1>2, Zenon DEF RemoveConversation, MailFrom, MailInv, HistoryTypes
  <2> QED
    BY <2>1, <2>2, Zenon
<1>8. HideInv'
  <2>1. ASSUME NEW m \in Mail, inboxHistory'[m] = "hidden", m \notin overlapped
        PROVE  Blocked(SenderOf[m])'
    BY <2>1, <1>3, <1>4, <1>5, <1>7, Zenon DEF MailInv, HideInv
  <2> QED
    BY <2>1, <1>4, <1>5, <1>6, Zenon DEF MailInv, HideInv
<1>9. DeleteInv'
  <2>1. ASSUME NEW m \in Mail, peerBlock[SenderOf[m]] = "deleted", m \notin overlapped
        PROVE  inboxHistory'[m] = "absent"
    BY <2>1, <1>3, <1>5, <1>7, Zenon DEF MailInv, DeleteInv
  <2> QED
    BY <2>1, Zenon DEF MailInv, DeleteInv, blockListVars
<1> QED
  BY <1>4, <1>7, <1>8, <1>9, Zenon DEF MailInv, HistoryTypes

(* Blocking and receiving, with the user's steps and the network's in any  *)
(* order.                                                                  *)
LEMMA MailInitially ==
    InboxInit => ListInv /\ MailInv
<1> SUFFICES ASSUME InboxInit PROVE ListInv /\ MailInv
  BY Zenon
<1>1. ListInv
  BY Zenon DEF InboxInit, ListInv, ListTypes, Blocks, BlockListClosed
<1>2. InboxIdle.step = "idle"
  BY Zenon DEF InboxIdle
<1>3. ReceptionTypes /\ UserTypes /\ HistoryTypes
  BY Zenon DEF InboxInit, ReceptionTypes, UserTypes, HistoryTypes
<1>4. HideInv /\ DeleteInv
  BY <1>2, InboxAssumption, Zenon DEF InboxInit, HideInv, DeleteInv
<1> QED
  BY <1>1, <1>3, <1>4, Zenon DEF MailInv

(* Every step keeps what is hidden and what is deleted accounted for.      *)
LEMMA MailKept ==
    ListInv /\ MailInv /\ [InboxNext]_inboxVars => (ListInv /\ MailInv)'
<1> SUFFICES ASSUME ListInv, MailInv, [InboxNext]_inboxVars PROVE (ListInv /\ MailInv)'
  BY Zenon
<1>1. ASSUME UNCHANGED blockListVars PROVE ListInv'
  BY <1>1, Zenon DEF ListInv, ListTypes, BlockListClosed, blockListVars
<1>2. CASE UNCHANGED inboxVars
  <2>1. MailInv'
    BY <1>2, Zenon DEF inboxVars, MailInv, ReceptionTypes, UserTypes, HistoryTypes, HideInv,
       DeleteInv, Blocked
  <2> QED
    BY <1>1, <1>2, <2>1, Zenon DEF inboxVars, blockListVars
<1>3. CASE (\E m \in Mail: CheckDeleted(m)) \/ CheckBlocked \/ StoreInInbox \/ AddToHistory
  <2>1. UNCHANGED <<blockListVars, pendingUser, overlapped>>
    BY <1>3, Zenon DEF CheckDeleted, CheckBlocked, StoreInInbox, AddToHistory
  <2> QED
    BY <1>1, <1>3, <2>1, ReceptionKeeps, Zenon DEF ListInv
<1>4. CASE Unhide \/ RemoveConversation
  <2>1. UNCHANGED <<blockListVars, reception, overlapped>>
    BY <1>4, Zenon DEF Unhide, RemoveConversation
  <2> QED
    BY <1>1, <1>4, <2>1, SecondStepKeeps, Zenon
<1>5. ASSUME NEW p \in Contacts, BlockPeer(p) PROVE (ListInv /\ MailInv)'
  <2>1. BlockRecords(p, "blocked") /\ UNCHANGED <<reception, pendingUser, inboxHistory, overlapped>>
    BY <1>5, Zenon DEF BlockPeer, BlockRecords
  <2>2. ListInv' /\ (\A q \in Contacts: BlocksStay(q))
             /\ peerBlock' = [peerBlock EXCEPT ![p] = "blocked"]
    BY <2>1, BlockRecordsKeep, Zenon
  <2>3. \A q \in Contacts: peerBlock'[q] = "deleted" => peerBlock[q] = "deleted"
    BY <2>2, Zenon DEF ListInv, ListTypes
  <2> QED
    BY <2>1, <2>2, <2>3, ListsGrow, Zenon
<1>6. ASSUME NEW p \in Contacts, BlockAndDeletePeer(p) PROVE (ListInv /\ MailInv)'
  <2>1. /\ BlockRecords(p, "deleted") /\ UserIdle /\ UNCHANGED <<reception, inboxHistory>>
        /\ pendingUser' = [step |-> "remove conversation", p |-> p]
        /\ overlapped' = overlapped \cup UnderReception(p)
    BY <1>6, Zenon DEF BlockAndDeletePeer, BlockRecords
  <2>2. ListInv' /\ (\A q \in Contacts: BlocksStay(q))
             /\ peerBlock' = [peerBlock EXCEPT ![p] = "deleted"]
    BY <2>1, BlockRecordsKeep, Zenon
  <2>3. peerBlock'[p] = "deleted" /\ \A q \in Contacts \ {p}: BlocksStay(q)
             /\ peerBlock'[q] = peerBlock[q]
    BY <2>2, Zenon DEF ListInv, ListTypes
  <2>4. MailInv'
    BY <2>1, <2>3, PeerChanged, Zenon
  <2> QED
    BY <2>2, <2>4, Zenon
<1>7. ASSUME NEW p \in Contacts, UnblockPeer(p) PROVE (ListInv /\ MailInv)'
  <2>1. /\ UserIdle /\ UNCHANGED <<reception, inboxHistory>>
        /\ pendingUser' = [step |-> "unhide", p |-> p]
                   /\ overlapped' = overlapped \cup UnderReception(p)
        /\ peerBlock' = [peerBlock EXCEPT ![p] = "none"]
    BY <1>7, Zenon DEF UnblockPeer
  <2>2. ListInv' /\ \A q \in Contacts \ {p}: BlocksStay(q) /\ peerBlock'[q] = peerBlock[q]
    BY <1>7, UnblockPeerKeeps, Zenon
  <2>3. peerBlock'[p] = "none"
    BY <2>1, Zenon DEF ListInv, ListTypes
  <2>4. MailInv'
    BY <2>1, <2>2, <2>3, PeerChanged, Zenon
  <2> QED
    BY <2>2, <2>4, Zenon
<1>8. ASSUME NEW p \in Contacts, NEW d \in DeviceIds, UnblockDevice(p, d) PROVE (ListInv /\ MailInv)'
  <2>1. /\ UserIdle /\ UNCHANGED <<reception, inboxHistory>>
        /\ pendingUser' = [step |-> "unhide", p |-> p]
                   /\ overlapped' = overlapped \cup UnderReception(p)
    BY <1>8, Zenon DEF UnblockDevice
  <2>2. ListInv' /\ peerBlock' = peerBlock /\ \A q \in Contacts \ {p}: BlocksStay(q)
    BY <1>8, UnblockDeviceKeeps, Zenon
  <2>3. MailInv'
    BY <2>1, <2>2, PeerChanged, Zenon
  <2> QED
    BY <2>2, <2>3, Zenon
<1>9. ASSUME NEW p \in Contacts, NEW d \in DeviceIds, BlockDevice(p, d) PROVE (ListInv /\ MailInv)'
  <2>1. UNCHANGED <<reception, pendingUser, inboxHistory, overlapped>> /\ peerBlock' = peerBlock
    BY <1>9, Zenon DEF BlockDevice
  <2> QED
    BY <2>1, <1>9, BlockDeviceKeeps, ListsGrow, Zenon
<1>10. ASSUME NEW p \in Contacts, NEW d \in DeviceIds \cup {NoDeviceId}, UpdateLastKnownDevice(p, d)
       PROVE  (ListInv /\ MailInv)'
  <2>1. UNCHANGED <<reception, pendingUser, inboxHistory, overlapped>> /\ peerBlock' = peerBlock
    BY <1>10, Zenon DEF UpdateLastKnownDevice
  <2> QED
    BY <2>1, <1>10, UpdateKeeps, ListsGrow, Zenon
<1> QED
  BY <1>2, <1>3, <1>4, <1>5, <1>6, <1>7, <1>8, <1>9, <1>10, Zenon DEF InboxNext

-----------------------------------------------------------------------------
(* The window of seen ids, newest last.                                    *)
WindowInv ==
    /\ seenOrder \in Seq(Mail) /\ Len(seenOrder) <= MAX_SEEN_IDS
    /\ newerThan \in [Mail -> Nat] /\ inboxStored \in [Mail -> Nat]
    /\ \A m \in Mail: inboxStored[m] > 0 /\ newerThan[m] < MAX_SEEN_IDS =>
          newerThan[m] < Len(seenOrder) /\ seenOrder[Len(seenOrder) - newerThan[m]] = m

(* Inbox::receive keeps the newest ids in their order.                     *)
LEMMA TrimmedTail ==
    ASSUME NEW order \in Seq(Mail), NEW m \in Mail, Len(order) <= MAX_SEEN_IDS
    PROVE  LET t == Trimmed(Append(order, m))
           IN  /\ t \in Seq(Mail)
               /\ Len(t) = IF Len(order) < MAX_SEEN_IDS THEN Len(order) + 1 ELSE MAX_SEEN_IDS
               /\ t[Len(t)] = m
               /\ \A k \in Nat: k + 1 < Len(t) => t[Len(t) - (k + 1)] = order[Len(order) - k]
<1> DEFINE a == Append(order, m)
           t == Trimmed(a)
           n == MAX_SEEN_IDS
           l == Len(order)
<1>1. n \in Nat \ {0} /\ l \in Nat /\ l <= n
  BY InboxAssumption, LenProperties, Zenon
<1>2. a \in Seq(Mail) /\ Len(a) = l + 1 /\ a[l + 1] = m /\ \A i \in 1 .. l: a[i] = order[i]
  BY AppendProperties
<1>3. t = IF Len(a) > n THEN SubSeq(a, Len(a) - n + 1, Len(a)) ELSE a
  BY Zenon DEF Trimmed
<1> SUFFICES /\ t \in Seq(Mail) /\ Len(t) = (IF l < n THEN l + 1 ELSE n) /\ t[Len(t)] = m
             /\ \A k \in Nat: k + 1 < Len(t) => t[Len(t) - (k + 1)] = order[l - k]
  BY Zenon
<1> HIDE DEF a, t, n, l
<1>4. CASE l < n
  BY <1>1, <1>2, <1>3, <1>4
<1>5. CASE l = n
  <2>1. t = SubSeq(a, 2, n + 1)
    BY <1>1, <1>2, <1>3, <1>5
  <2>2. t \in Seq(Mail) /\ Len(t) = n /\ \A i \in 1 .. n: t[i] = a[i + 1]
    <3>1. \A i \in 2 .. n + 1: a[i] \in Mail
      BY <1>1, <1>2, <1>5, ElementOfSeq
    <3> QED
      BY <1>1, <1>2, <2>1, <3>1, SubSeqProperties
  <2> QED
    BY <1>1, <1>2, <1>5, <2>2
<1> QED
  BY <1>1, <1>4, <1>5

(* The window starts empty.                                                *)
LEMMA WindowInitially ==
    InboxInit => WindowInv
  BY InboxAssumption, EmptySeq DEF InboxInit, WindowInv

(* Every step keeps the window, and stores again only what left it.        *)
LEMMA WindowKept ==
    WindowInv /\ MailInv /\ [InboxNext]_inboxVars => WindowInv' /\ DedupWindow
<1> SUFFICES ASSUME WindowInv, MailInv, [InboxNext]_inboxVars PROVE WindowInv' /\ DedupWindow
  BY Zenon
<1>1. ASSUME UNCHANGED mailVars PROVE WindowInv' /\ DedupWindow
  BY <1>1, Zenon DEF mailVars, WindowInv, DedupWindow
<1>2. CASE StoreInInbox /\ reception.m \notin Range(seenOrder)
  <2> DEFINE m == reception.m
  <2>1. m \in Mail
    BY <1>2, ReceptionParts, Zenon DEF MailInv, StoreInInbox
  <2>2. /\ seenOrder' = Trimmed(Append(seenOrder, m))
        /\ inboxStored' = [inboxStored EXCEPT ![m] = @ + 1]
        /\ newerThan' = [x \in Mail |-> IF x = m THEN 0 ELSE newerThan[x] + 1]
    BY <1>2, Zenon DEF StoreInInbox
  <2>3. m \notin Range(seenOrder)
    BY <1>2, Zenon
  <2> HIDE DEF m
  <2>4. /\ seenOrder' \in Seq(Mail) /\ seenOrder'[Len(seenOrder')] = m
        /\ Len(seenOrder') = IF Len(seenOrder) < MAX_SEEN_IDS THEN Len(seenOrder) + 1 ELSE MAX_SEEN_IDS
        /\ \A k \in Nat: k + 1 < Len(seenOrder') =>
              seenOrder'[Len(seenOrder') - (k + 1)] = seenOrder[Len(seenOrder) - k]
    BY <2>1, <2>2, TrimmedTail, Zenon DEF WindowInv
  <2>5. Len(seenOrder) \in Nat /\ Len(seenOrder) <= MAX_SEEN_IDS /\ MAX_SEEN_IDS \in Nat \ {0}
    BY InboxAssumption, LenProperties, Zenon DEF WindowInv
  <2>6. /\ newerThan' \in [Mail -> Nat] /\ inboxStored' \in [Mail -> Nat]
        /\ \A x \in Mail: newerThan'[x] = IF x = m THEN 0 ELSE newerThan[x] + 1
        /\ \A x \in Mail: x # m => inboxStored'[x] = inboxStored[x]
    BY <2>1, <2>2 DEF WindowInv
  <2>7. ASSUME NEW x \in Mail, inboxStored'[x] > 0, newerThan'[x] < MAX_SEEN_IDS
        PROVE  newerThan'[x] < Len(seenOrder') /\ seenOrder'[Len(seenOrder') - newerThan'[x]] = x
    <3>1. CASE x = m
      BY <2>4, <2>5, <2>6, <3>1
    <3>2. CASE x # m
      <4>1. newerThan[x] \in Nat /\ newerThan'[x] = newerThan[x] + 1 /\ inboxStored[x] > 0
        BY <2>6, <2>7, <3>2, Zenon DEF WindowInv
      <4>2. newerThan[x] < Len(seenOrder) /\ seenOrder[Len(seenOrder) - newerThan[x]] = x
        BY <2>5, <2>7, <4>1 DEF WindowInv
      <4>3. newerThan[x] + 1 < Len(seenOrder')
        BY <2>4, <2>5, <2>7, <4>1, <4>2
      <4>4. seenOrder'[Len(seenOrder') - (newerThan[x] + 1)] = x
        BY <2>4, <4>1, <4>2, <4>3, Zenon
      <4> QED
        BY <4>1, <4>3, <4>4, Zenon
    <3> QED
      BY <3>1, <3>2, Zenon
  <2>8. WindowInv'
    <3>1. Len(seenOrder') <= MAX_SEEN_IDS
      BY <2>4, <2>5
    <3> QED
      BY SMTT(30), <2>4, <2>6, <2>7, <3>1 DEF WindowInv
  <2>9. DedupWindow
    <3>1. inboxStored[m] > 0 /\ newerThan[m] < MAX_SEEN_IDS => m \in Range(seenOrder)
      <4> SUFFICES ASSUME inboxStored[m] > 0, newerThan[m] < MAX_SEEN_IDS PROVE m \in Range(seenOrder)
        BY Zenon
      <4>1. Len(seenOrder) - newerThan[m] \in 1 .. Len(seenOrder)
        BY <2>1, <2>5 DEF WindowInv
      <4>2. seenOrder[Len(seenOrder) - newerThan[m]] = m
        BY <2>1, Zenon DEF WindowInv
      <4>3. DOMAIN seenOrder = 1 .. Len(seenOrder)
        BY LenProperties, Zenon DEF WindowInv
      <4> QED
        BY <4>1, <4>2, <4>3, Zenon DEF Range
    <3>2. newerThan[m] \in Nat
      BY <2>1, Zenon DEF WindowInv
    <3> QED
      BY <2>3, <2>5, <2>6, <3>1, <3>2 DEF DedupWindow
  <2> QED
    BY <2>8, <2>9, Zenon
<1>3. CASE StoreInInbox /\ reception.m \in Range(seenOrder)
  BY <1>1, <1>3, Zenon DEF StoreInInbox
<1>4. CASE (\E m \in Mail: CheckDeleted(m)) \/ CheckBlocked \/ AddToHistory \/ Unhide
           \/ RemoveConversation
  BY <1>1, <1>4, Zenon DEF CheckDeleted, CheckBlocked, AddToHistory, Unhide, RemoveConversation
<1>5. ASSUME NEW p \in Contacts, BlockPeer(p) \/ BlockAndDeletePeer(p) \/ UnblockPeer(p)
      PROVE  WindowInv' /\ DedupWindow
  BY <1>1, <1>5, Zenon DEF BlockPeer, BlockAndDeletePeer, BlockRecords, UnblockPeer
<1>6. ASSUME NEW p \in Contacts, NEW d, BlockDevice(p, d) \/ UnblockDevice(p, d)
           \/ UpdateLastKnownDevice(p, d)
      PROVE  WindowInv' /\ DedupWindow
  BY <1>1, <1>6, Zenon DEF BlockDevice, UnblockDevice, UpdateLastKnownDevice
<1>7. CASE UNCHANGED inboxVars
  BY <1>1, <1>7, Zenon DEF inboxVars, mailVars
<1> QED
  BY <1>2, <1>3, <1>4, <1>5, <1>6, <1>7, Zenon DEF InboxNext

-----------------------------------------------------------------------------
(* A message not offered before has not alerted.                           *)
NoticeInv ==
    /\ alerts \in [Notices -> Seq({"dm", "dm_request"})]
    /\ \A n \in Notices: Len(alerts[n]) <= 1 /\ (n \notin offered => alerts[n] = <<>>)

(* Every step keeps a message that was not offered without an alert.       *)
LEMMA NoticesKept ==
    /\ NoticeInit => NoticeInv
    /\ NoticeInv /\ [NoticeNext]_noticeVars => NoticeInv'
<1>1. NoticeInit => NoticeInv
  BY EmptySeq DEF NoticeInit, NoticeInv
<1>2. ASSUME NoticeInv, [NoticeNext]_noticeVars PROVE NoticeInv'
  <2>1. ASSUME UNCHANGED <<offered, alerts>> PROVE NoticeInv'
    BY <1>2, <2>1, Zenon DEF NoticeInv
  <2>2. ASSUME NEW n \in Notices, NEW explicit \in BOOLEAN, ClassifyNotification(n, explicit)
        PROVE  NoticeInv'
    <3> DEFINE message == NoticeContext(n, explicit)
               kind == NoticeKind(message)
    <3>1. /\ offered' = offered \cup {n} /\ kind \in {"dm", "dm_request"}
          /\ alerts' = alerts \/ (n \notin offered /\ alerts' = [alerts EXCEPT ![n] = Append(@, kind)])
      <4>1. ShouldAlert(message) => ~message.duplicate
        BY Zenon DEF ShouldAlert
      <4>2. message.duplicate <=> n \in offered
        BY Zenon DEF NoticeContext
      <4>3. kind \in {"dm", "dm_request"}
        BY Zenon DEF NoticeKind
      <4>4. /\ offered' = offered \cup {n}
            /\ alerts' = IF ShouldAlert(message) THEN [alerts EXCEPT ![n] = Append(@, kind)] ELSE alerts
        BY <2>2, Zenon DEF ClassifyNotification
      <4> QED
        BY <4>1, <4>2, <4>3, <4>4, Zenon
    <3> HIDE DEF message, kind
    <3>2. CASE alerts' = alerts
      BY <1>2, <3>1, <3>2, Zenon DEF NoticeInv
    <3>3. CASE n \notin offered /\ alerts' = [alerts EXCEPT ![n] = Append(@, kind)]
      <4>1. alerts[n] \in Seq({"dm", "dm_request"}) /\ alerts[n] = <<>>
        BY <1>2, <3>3, Zenon DEF NoticeInv
      <4>2. Append(alerts[n], kind) \in Seq({"dm", "dm_request"}) /\ Len(Append(alerts[n], kind)) = 1
        BY <3>1, <4>1, AppendProperties, EmptySeq
      <4> HIDE DEF kind
      <4> QED
        BY <1>2, <3>1, <3>3, <4>2 DEF NoticeInv
    <3> QED
      BY <3>1, <3>2, <3>3, Zenon
  <2>3. ASSUME NEW s, FlipSwitch(s) PROVE NoticeInv'
    BY <2>1, <2>3, Zenon DEF FlipSwitch
  <2>4. ASSUME NEW a, NEW f, ShowConversation(a, f) PROVE NoticeInv'
    BY <2>1, <2>4, Zenon DEF ShowConversation
  <2>5. ASSUME NEW p, NEW s, ChangeStanding(p, s) PROVE NoticeInv'
    BY <2>1, <2>5, Zenon DEF ChangeStanding
  <2>6. CASE UNCHANGED noticeVars
    BY <2>1, <2>6, Zenon DEF noticeVars
  <2> QED
    BY <1>2, <2>2, <2>3, <2>4, <2>5, <2>6, Zenon DEF NoticeNext
<1> QED
  BY <1>1, <1>2, Zenon

-----------------------------------------------------------------------------
(* A registered endpoint is of a device whose prefix is in its id.         *)
EndpointInv ==
    /\ endpoints = [i \in EndpointIds |-> endpoints[i]]
    /\ \A i \in EndpointIds: endpoints[i] # NoEndpoint => endpoints[i].device[1] = i[2]

(* Every step keeps the endpoints, and takes one only with its device.     *)
LEMMA EndpointsKeep ==
    /\ EndpointInit => EndpointInv
    /\ EndpointInv /\ [EndpointNext]_endpointVars =>
          EndpointInv' /\ (UNCHANGED endpointVars \/ EndpointsKept)
<1>1. EndpointInit => EndpointInv
  BY Zenon DEF EndpointInit, EndpointInv
<1>2. ASSUME EndpointInv, [EndpointNext]_endpointVars
      PROVE  EndpointInv' /\ (UNCHANGED endpointVars \/ EndpointsKept)
  <2>1. CASE UNCHANGED endpointVars
    BY <1>2, <2>1, Zenon DEF EndpointInv, endpointVars
  <2>2. ASSUME NEW platform \in Platforms, NEW device \in EndpointDevices, NEW able \in Abilities,
               RegisterEndpoint(platform, device, able)
        PROVE  EndpointInv' /\ EndpointsKept
    <3> DEFINE k == <<platform, device[1]>>
               e == [device |-> device, able |-> able]
    <3>1. k \in EndpointIds /\ k[2] = device[1]
      BY Zenon DEF EndpointIds
    <3>2. e # NoEndpoint /\ e.device = device
      BY InboxAssumption, Zenon DEF NoEndpoint
    <3>3. endpoints' = [endpoints EXCEPT ![k] = e]
      BY <2>2, Zenon DEF RegisterEndpoint, EndpointId
    <3> HIDE DEF k, e
    <3>4. /\ endpoints' = [i \in EndpointIds |-> endpoints'[i]] /\ endpoints'[k] = e
          /\ \A i \in EndpointIds: i # k => endpoints'[i] = endpoints[i]
      BY <1>2, <3>1, <3>3, Zenon DEF EndpointInv
    <3>5. EndpointInv'
      BY <1>2, <3>1, <3>2, <3>4, Zenon DEF EndpointInv
    <3>6. EndpointsKept
      BY <1>2, <3>1, <3>2, <3>4, Zenon DEF EndpointInv, EndpointsKept
    <3> QED
      BY <3>5, <3>6, Zenon
  <2>3. ASSUME NEW k \in EndpointIds, UnregisterEndpoint(k) PROVE EndpointInv' /\ EndpointsKept
    <3>1. /\ endpoints' = [i \in EndpointIds |-> endpoints'[i]] /\ endpoints'[k] = NoEndpoint
          /\ endpoints[k] # NoEndpoint /\ \A i \in EndpointIds: i # k => endpoints'[i] = endpoints[i]
      BY <1>2, <2>3, Zenon DEF UnregisterEndpoint, EndpointInv
    <3>2. EndpointInv'
      BY <1>2, <3>1, Zenon DEF EndpointInv
    <3>3. {j \in EndpointIds: endpoints'[j] # endpoints[j]} = {k}
      BY <3>1, Zenon
    <3>4. Cardinality({j \in EndpointIds: endpoints'[j] # endpoints[j]}) = 1
      BY <3>3, FS_Singleton, Zenon
    <3> QED
      BY <3>1, <3>2, <3>4, Zenon DEF EndpointsKept
  <2>4. ASSUME ClearAllRequestNotifications PROVE EndpointInv' /\ EndpointsKept
    <3>1. endpoints' = [i \in EndpointIds |->
             IF endpoints[i] # NoEndpoint
                        /\ ("dm_request" \in endpoints[i].able /\ "dm" \notin endpoints[i].able)
               THEN NoEndpoint ELSE endpoints[i]]
      BY <2>4, Zenon DEF ClearAllRequestNotifications, WithoutEndpoints
    <3> QED
      BY <1>2, <3>1, Zenon DEF EndpointInv, EndpointsKept
  <2>5. ASSUME NEW device \in EndpointDevices, ClearMessageNotifications(device)
        PROVE  EndpointInv' /\ EndpointsKept
    <3>1. endpoints' = [i \in EndpointIds |->
             IF endpoints[i] # NoEndpoint
                        /\ endpoints[i].device = device THEN NoEndpoint ELSE endpoints[i]]
      BY <2>5, Zenon DEF ClearMessageNotifications, WithoutEndpoints
    <3> QED
      BY <1>2, <3>1, Zenon DEF EndpointInv, EndpointsKept
  <2>6. CASE CloseAllNotifications
    BY <2>6, Zenon DEF CloseAllNotifications, EndpointInv, EndpointsKept
  <2> QED
    BY <1>2, <2>1, <2>2, <2>3, <2>4, <2>5, <2>6, Zenon DEF EndpointNext
<1> QED
  BY <1>1, <1>2, Zenon

-----------------------------------------------------------------------------
(* A set of numbers that is not empty has a least one.                     *)
LEMMA LeastNumber ==
    ASSUME NEW S \in SUBSET Nat, S # {}
    PROVE  \E x \in S: \A y \in S: x <= y
<1>1. PICK x \in S: \A y \in S: <<y, x>> \notin OpToRel(<, Nat)
  BY NatLessThanWellFounded, WFMin, Zenon
<1>2. \A y \in S: ~(y < x)
  BY <1>1, Zenon DEF OpToRel
<1> QED
  BY <1>2

(* The statistics of the tracker.                                          *)
IsStats(e) == e.at \in Nat /\ e.dups \in Nat /\ e = [at |-> e.at, dups |-> e.dups, via |-> e.via]

(* What the tracker keeps.                                                 *)
StatsInv ==
    /\ dedupEntries = [i \in DedupIds |-> dedupEntries[i]]
    /\ dedupSeen \in [DedupIds -> Nat] /\ dedupClock \in Nat
    /\ \A i \in StatsKept: IsStats(dedupEntries[i]) /\ dedupEntries[i].dups = dedupSeen[i] - 1
    /\ Cardinality(StatsKept) <= MaxDedupEntries

(* The tracker holds finitely many entries.                                *)
LEMMA KeptAreFinite ==
    /\ IsFiniteSet(DedupIds) /\ DedupIds \subseteq Nat
    /\ IsFiniteSet(StatsKept) /\ Cardinality(StatsKept) \in Nat
<1>1. IsFiniteSet(DedupIds) /\ DedupIds \subseteq Nat
  BY InboxAssumption, FS_Interval DEF DedupIds
<1>2. StatsKept \subseteq DedupIds
  BY Zenon DEF StatsKept
<1> QED
  BY <1>1, <1>2, FS_Subset, FS_CardinalityType, Zenon

(* record_received finds an oldest entry when the tracker is full.         *)
LEMMA OldestIsKept ==
    ASSUME StatsInv, StatsKept # {}
    PROVE  Oldest \in StatsKept /\ \A j \in StatsKept: dedupEntries[Oldest].at <= dedupEntries[j].at
<1> DEFINE at(i) == dedupEntries[i].at
           Older(i, j) == at(i) < at(j) \/ (at(i) = at(j) /\ i <= j)
<1>1. \A i \in StatsKept: at(i) \in Nat /\ i \in Nat
  BY KeptAreFinite, Zenon DEF StatsInv, IsStats, StatsKept
<1> HIDE DEF at
<1>2. PICK t \in {at(i): i \in StatsKept}: \A u \in {at(i): i \in StatsKept}: t <= u
  <2>1. {at(i): i \in StatsKept} \in SUBSET Nat /\ {at(i): i \in StatsKept} # {}
    BY <1>1, Zenon
  <2> QED
    BY <2>1, LeastNumber, Zenon
<1>3. PICK k \in {i \in StatsKept: at(i) = t}: \A j \in {i \in StatsKept: at(i) = t}: k <= j
  <2>1. {i \in StatsKept: at(i) = t} \in SUBSET Nat /\ {i \in StatsKept: at(i) = t} # {}
    BY <1>1, <1>2, Zenon
  <2> QED
    BY <2>1, LeastNumber, Zenon
<1>4. k \in StatsKept /\ \A j \in StatsKept: Older(k, j)
  <2>1. ASSUME NEW j \in StatsKept PROVE Older(k, j)
    <3>1. t <= at(j) /\ at(j) \in Nat /\ t \in Nat /\ at(k) = t
      BY <1>1, <1>2, <1>3, Zenon
    <3>2. at(j) = t => k <= j
      BY <1>3, Zenon
    <3> QED
      BY <3>1, <3>2
  <2> QED
    BY <1>3, <2>1, Zenon
<1>5. Oldest = CHOOSE i \in StatsKept: \A j \in StatsKept: Older(i, j)
  BY Zenon DEF Oldest, at
<1>6. Oldest \in StatsKept /\ \A j \in StatsKept: Older(Oldest, j)
  <2> HIDE DEF Older
  <2> QED
    BY <1>4, <1>5, Zenon
<1> QED
  BY <1>1, <1>6 DEF at

(* The statistics stay exact whatever the clock does, and an id goes only  *)
(* for younger ones.                                                       *)
LEMMA StatsKeep ==
    /\ DedupInit => StatsInv
    /\ StatsInv /\ [DedupNext]_dedupVars => StatsInv' /\ (UNCHANGED dedupVars \/ DedupExact)
<1>1. ASSUME DedupInit PROVE StatsInv
  <2>1. StatsKept = {}
    BY <1>1, Zenon DEF DedupInit, StatsKept
  <2>2. /\ dedupEntries = [i \in DedupIds |-> dedupEntries[i]]
        /\ dedupSeen \in [DedupIds -> Nat] /\ dedupClock \in Nat
    BY <1>1, InboxAssumption DEF DedupInit
  <2> QED
    BY <2>1, <2>2, InboxAssumption, FS_EmptySet DEF StatsInv
<1>2. ASSUME StatsInv, [DedupNext]_dedupVars PROVE StatsInv' /\ (UNCHANGED dedupVars \/ DedupExact)
  <2>1. CASE UNCHANGED dedupVars
    BY <1>2, <2>1, Zenon DEF StatsInv, StatsKept, dedupVars
  <2>2. CASE DedupClockMoves
    <3>1. StatsInv'
      BY <1>2, <2>2, InboxAssumption DEF DedupClockMoves, StatsInv, StatsKept
    <3> QED
      BY <1>2, <2>2, <3>1, Zenon DEF DedupClockMoves, StatsInv, StatsKept, DedupExact
  <2>3. CASE ClearStats
    <3>1. /\ dedupEntries' = [i \in DedupIds |-> NoStats] /\ UNCHANGED <<dedupClock, dedupSeen>>
          /\ StatsKept' = {}
      BY <2>3, Zenon DEF ClearStats, StatsKept
    <3>2. StatsInv'
      BY <1>2, <3>1, InboxAssumption, FS_EmptySet DEF StatsInv
    <3>3. DedupExact
      BY <3>1, Zenon DEF DedupExact
    <3> QED
      BY <3>2, <3>3, Zenon
  <2>4. ASSUME NEW i \in DedupIds, NEW via \in BOOLEAN, RecordReceived(i, via), i \in StatsKept
        PROVE  StatsInv' /\ DedupExact
    <3> DEFINE e == dedupEntries[i]
               f == [at |-> e.at, dups |-> e.dups + 1, via |-> e.via]
    <3>1. IsStats(e) /\ e.dups = dedupSeen[i] - 1
      BY <1>2, <2>4, Zenon DEF StatsInv
    <3>2. /\ dedupEntries' = [dedupEntries EXCEPT ![i] = [e EXCEPT !.dups = @ + 1]]
          /\ dedupSeen' = [dedupSeen EXCEPT ![i] = @ + 1] /\ dedupClock' = dedupClock
      BY <2>4, Zenon DEF RecordReceived
    <3>3. [e EXCEPT !.dups = @ + 1] = f
      BY <3>1 DEF IsStats
    <3>4. IsStats(f) /\ f.dups = e.dups + 1 /\ f # NoStats
      BY <3>1 DEF IsStats, NoStats
    <3> HIDE DEF e, f
    <3>5. /\ dedupEntries' = [j \in DedupIds |-> dedupEntries'[j]] /\ dedupEntries'[i] = f
          /\ \A j \in DedupIds \ {i}: dedupEntries'[j] = dedupEntries[j]
      BY <1>2, <3>2, <3>3, Zenon DEF StatsInv
    <3>6. /\ dedupSeen' \in [DedupIds -> Nat] /\ dedupSeen'[i] = dedupSeen[i] + 1
               /\ dedupSeen[i] \in Nat
          /\ \A j \in DedupIds \ {i}: dedupSeen'[j] = dedupSeen[j]
      BY <1>2, <3>2 DEF StatsInv
    <3>7. StatsKept' = StatsKept
      BY <2>4, <3>4, <3>5, Zenon DEF StatsKept
    <3>8. f.dups = dedupSeen'[i] - 1
      BY <3>1, <3>4, <3>6 DEF e, IsStats
    <3>9. \A j \in StatsKept: IsStats(dedupEntries'[j]) /\ dedupEntries'[j].dups = dedupSeen'[j] - 1
      BY <1>2, <3>4, <3>5, <3>6, <3>8, Zenon DEF StatsInv, StatsKept
    <3>10. StatsInv'
      BY <1>2, <3>2, <3>5, <3>6, <3>7, <3>9, Zenon DEF StatsInv
    <3>11. DedupExact
      BY <3>4, <3>5, <3>7, <3>9, Zenon DEF DedupExact, StatsKept
    <3> QED
      BY <3>10, <3>11, Zenon
  <2>5. ASSUME NEW i \in DedupIds, NEW via \in BOOLEAN, RecordReceived(i, via), i \notin StatsKept
        PROVE  StatsInv' /\ DedupExact
    <3> DEFINE f == [at |-> dedupClock, dups |-> 0, via |-> via]
               evicted == IF Cardinality(StatsKept) >= MaxDedupEntries THEN {Oldest} ELSE {}
               rest == StatsKept \ evicted
    <3>1. /\ dedupEntries' = [j \in DedupIds |-> IF j = i THEN f
                                ELSE IF j \in evicted THEN NoStats ELSE dedupEntries[j]]
          /\ dedupSeen' = [dedupSeen EXCEPT ![i] = 1] /\ dedupClock' = dedupClock
      BY <2>5, Zenon DEF RecordReceived
    <3>2. IsStats(f) /\ f.dups = 0 /\ f # NoStats
      BY <1>2 DEF StatsInv, IsStats, NoStats
    <3>3. /\ Cardinality(StatsKept) \in Nat /\ MaxDedupEntries \in Nat \ {0}
          /\ Cardinality(StatsKept) <= MaxDedupEntries
          /\ IsFiniteSet(StatsKept) /\ StatsKept \subseteq DedupIds
      BY <1>2, KeptAreFinite, InboxAssumption, Zenon DEF StatsInv, StatsKept
    <3>4. CASE Cardinality(StatsKept) < MaxDedupEntries
      <4>1. evicted = {}
        BY <3>3, <3>4
      <4> HIDE DEF f, evicted
      <4>2. /\ dedupEntries' = [j \in DedupIds |-> dedupEntries'[j]] /\ dedupEntries'[i] = f
            /\ \A j \in DedupIds \ {i}: dedupEntries'[j] = dedupEntries[j]
        BY <3>1, <4>1, Zenon
      <4>3. /\ dedupSeen' \in [DedupIds -> Nat] /\ dedupSeen'[i] = 1
            /\ \A j \in DedupIds \ {i}: dedupSeen'[j] = dedupSeen[j]
        BY <1>2, <3>1, Zenon DEF StatsInv
      <4>4. StatsKept' = StatsKept \cup {i}
        BY <3>2, <4>2, Zenon DEF StatsKept
      <4>5. \A j \in StatsKept': IsStats(dedupEntries'[j]) /\ dedupEntries'[j].dups = dedupSeen'[j] - 1
        BY <1>2, <2>5, <3>2, <3>3, <4>2, <4>3, <4>4 DEF StatsInv
      <4>6. Cardinality(StatsKept') <= MaxDedupEntries
        BY <2>5, <3>3, <3>4, <4>4, FS_AddElement
      <4>7. StatsInv'
        BY <1>2, <3>1, <4>2, <4>3, <4>5, <4>6, Zenon DEF StatsInv
      <4>8. DedupExact
        BY <3>2, <4>2, <4>5, Zenon DEF DedupExact, StatsKept
      <4> QED
        BY <4>7, <4>8, Zenon
    <3>5. CASE Cardinality(StatsKept) = MaxDedupEntries
      <4> DEFINE o == Oldest
      <4>1. evicted = {o}
        BY <3>3, <3>5, Zenon
      <4>2. StatsKept # {}
        BY <3>3, <3>5, FS_EmptySet, Zenon
      <4>3. o \in StatsKept /\ \A j \in StatsKept: dedupEntries[o].at <= dedupEntries[j].at
        BY <1>2, <4>2, OldestIsKept, Zenon
      <4> HIDE DEF f, evicted, o
      <4>4. /\ dedupEntries' = [j \in DedupIds |-> dedupEntries'[j]] /\ dedupEntries'[i] = f
            /\ dedupEntries'[o] = NoStats /\ i # o
            /\ \A j \in DedupIds \ {i, o}: dedupEntries'[j] = dedupEntries[j]
        BY <2>5, <3>1, <3>3, <4>1, <4>3, Zenon
      <4>5. /\ dedupSeen' \in [DedupIds -> Nat] /\ dedupSeen'[i] = 1
            /\ \A j \in DedupIds \ {i}: dedupSeen'[j] = dedupSeen[j]
        BY <1>2, <3>1, Zenon DEF StatsInv
      <4>6. StatsKept' = (StatsKept \ {o}) \cup {i}
        BY <3>2, <4>4, Zenon DEF StatsKept
      <4>7. \A j \in StatsKept': IsStats(dedupEntries'[j]) /\ dedupEntries'[j].dups = dedupSeen'[j] - 1
        BY <1>2, <2>5, <3>2, <3>3, <4>4, <4>5, <4>6 DEF StatsInv
      <4>8. Cardinality(StatsKept') = MaxDedupEntries
        <5>1. /\ IsFiniteSet(StatsKept \ {o}) /\ Cardinality(StatsKept \ {o}) = MaxDedupEntries - 1
          BY <3>3, <3>5, <4>3, FS_RemoveElement, Zenon
        <5>2. Cardinality((StatsKept \ {o}) \cup {i}) = MaxDedupEntries - 1 + 1
          BY <2>5, <5>1, FS_AddElement, Zenon
        <5> QED
          BY <3>3, <4>6, <5>2
      <4>9. StatsInv'
        BY <1>2, <3>1, <3>3, <4>4, <4>5, <4>7, <4>8 DEF StatsInv
      <4>10. {j \in DedupIds \ {o}: dedupEntries'[j] # NoStats
                /\ (dedupEntries[j] # NoStats => dedupEntries[j].at >= dedupEntries[o].at)} = StatsKept'
        <5>1. \A j \in StatsKept: dedupEntries[j].at >= dedupEntries[o].at
          BY <1>2, <4>3, Zenon DEF StatsInv, IsStats
        <5>2. \A j \in DedupIds: dedupEntries[j] # NoStats => dedupEntries[j].at >= dedupEntries[o].at
          BY <5>1, Zenon DEF StatsKept
        <5> QED
          BY <4>4, <5>2, Zenon DEF StatsKept
      <4>11. DedupExact
        <5>1. ASSUME NEW j \in DedupIds
              PROVE  /\ dedupEntries'[j] # NoStats => dedupEntries'[j].dups = dedupSeen'[j] - 1
                     /\ dedupEntries[j] # NoStats /\ dedupEntries'[j] = NoStats => j = o
          BY <3>2, <4>4, <4>7, Zenon DEF StatsKept
        <5> QED
          BY <4>8, <4>10, <5>1, Zenon DEF DedupExact
      <4> QED
        BY <4>9, <4>11, Zenon
    <3> QED
      BY <3>3, <3>4, <3>5
  <2> QED
    BY <1>2, <2>1, <2>2, <2>3, <2>4, <2>5, Zenon DEF DedupNext
<1> QED
  BY <1>1, <1>2, Zenon

-----------------------------------------------------------------------------
(* Blocking, unblocking and deleting contacts while messages of theirs are *)
(* received, for any contacts, devices and messages and any size of the    *)
(* window: the block list stays closed under the device registry, nothing  *)
(* stays hidden without a block and nothing stays of a deleted peer but    *)
(* what was under reception then, and the inbox stores nothing twice       *)
(* within its window; no message alerts twice, no endpoint is lost to      *)
(* another's clearing, and the duplicate statistics are exact              *)
(* (receive_message and the block list of core/src/iron_core.rs,           *)
(* core/src/store/, core/src/notification.rs).                             *)
THEOREM InboxStaysSound == InboxSpec /\ NoticeSpec /\ EndpointSpec /\ DedupSpec => InboxSound
<1> DEFINE Inv == ListInv /\ MailInv /\ WindowInv /\ NoticeInv /\ EndpointInv /\ StatsInv
           Steps == /\ [InboxNext]_inboxVars /\ [NoticeNext]_noticeVars
                    /\ [EndpointNext]_endpointVars /\ [DedupNext]_dedupVars
<1>1. InboxInit /\ NoticeInit /\ EndpointInit /\ DedupInit => Inv
  BY MailInitially, WindowInitially, NoticesKept, EndpointsKeep, StatsKeep, Zenon
<1>2. Inv /\ Steps => Inv'
  BY MailKept, WindowKept, NoticesKept, EndpointsKeep, StatsKeep, Zenon
<1>3. ListInv /\ MailInv => BlockListClosed /\ HiddenOnlyWhileBlocked /\ DeletedLeavesNoTrace
  <2> SUFFICES ASSUME ListInv, MailInv PROVE BlockListClosed /\ HiddenOnlyWhileBlocked
             /\ DeletedLeavesNoTrace
    BY Zenon
  <2>1. \A q, s: UserIdle /\ s # "idle" => pendingUser # [step |-> s, p |-> q]
    BY DEF UserIdle, InboxIdle
  <2>2. HiddenOnlyWhileBlocked
    BY <2>1, Zenon DEF MailInv, HideInv, HiddenOnlyWhileBlocked, Blocked
  <2>3. DeletedLeavesNoTrace
    BY <2>1, Zenon DEF MailInv, DeleteInv, DeletedLeavesNoTrace
  <2> QED
    BY <2>2, <2>3, Zenon DEF ListInv
<1>4. NoticeInv => AlertsOnce
  BY Zenon DEF NoticeInv, AlertsOnce
<1>5. Inv => BlockListClosed /\ HiddenOnlyWhileBlocked /\ DeletedLeavesNoTrace /\ AlertsOnce
  BY <1>3, <1>4, Zenon
<1>6. Inv /\ Steps => DedupWindow /\ (UNCHANGED endpointVars \/ EndpointsKept) /\ (UNCHANGED dedupVars \/ DedupExact)
  BY WindowKept, EndpointsKeep, StatsKeep, Zenon
<1> HIDE DEF Inv
<1> QED
  BY <1>1, <1>2, <1>5, <1>6, PTL DEF InboxSpec, NoticeSpec, EndpointSpec, DedupSpec, InboxSound

-----------------------------------------------------------------------------
(* The queue of the daemon. *)

(* What can become of a message.                                           *)
Fates == {"unsent", "queued", "handed", "refused", "lost"}

(* The store, the batch and the counts are what their names say, and they  *)
(* account for every message.                                              *)
FlushTypes ==
    /\ cliFate \in [CliMessages -> Fates]
    /\ cliOutbox \in SUBSET CliMessages
    /\ flushing # <<>> => flushing[2] \in SUBSET CliMessages
    /\ storeFaults \in Nat /\ cliCrashes \in Nat
FlushInv == FlushTypes /\ FlushLosesNothing

(* What becomes of the messages a crash or the store leaves nowhere.       *)
LEMMA GivenUpFates ==
    ASSUME FlushTypes, NEW ms
    PROVE  /\ GivenUp(ms) \in [CliMessages -> Fates]
           /\ \A m \in CliMessages: GivenUp(ms)[m] =
                 IF m \in ms /\ m \notin cliOutbox /\ cliFate[m] = "queued" THEN "lost" ELSE cliFate[m]
  BY Zenon DEF FlushTypes, GivenUp, Fates

(* A message is refused or handed over before it was queued.               *)
LEMMA UnsentEnds ==
    ASSUME FlushInv, NEW m \in CliMessages, cliFate[m] = "unsent", NEW f \in {"handed", "refused"},
           cliFate' = [cliFate EXCEPT ![m] = f],
           UNCHANGED <<cliOutbox, flushing, undeleted, storeFaults, cliCrashes>>
    PROVE  FlushInv'
<1>1. FlushBatch' = FlushBatch /\ FlushTypes'
  BY Zenon DEF FlushInv, FlushTypes, FlushBatch, Fates
<1>2. \A x \in CliMessages: cliFate'[x] = IF x = m THEN f ELSE cliFate[x]
  BY Zenon DEF FlushInv, FlushTypes
<1>3. f # "queued" /\ f # "lost"
  BY Zenon
<1>4. FlushLosesNothing'
  BY <1>1, <1>2, <1>3, Zenon DEF FlushInv, FlushLosesNothing
<1> QED
  BY <1>1, <1>4, Zenon DEF FlushInv

(* A crash keeps what was stored, and the batch is gone.                   *)
LEMMA CrashKeeps == FlushInv /\ CrashDaemon => FlushInv'
<1> SUFFICES ASSUME FlushInv, CrashDaemon PROVE FlushInv'
  BY Zenon
<1>1. /\ flushing' = <<>> /\ cliOutbox' = cliOutbox /\ cliFate' = GivenUp(FlushBatch)
      /\ cliCrashes' = cliCrashes + 1 /\ undeleted' = undeleted /\ storeFaults' = storeFaults
  BY Zenon DEF CrashDaemon
<1>2. cliCrashes' \in Nat /\ cliCrashes' > 0
  BY <1>1 DEF FlushInv, FlushTypes
<1>3. FlushTypes' /\ FlushBatch' = {}
  BY <1>1, <1>2, GivenUpFates, Zenon DEF FlushInv, FlushTypes, FlushBatch
<1>4. \A m \in CliMessages: cliFate'[m] =
         IF m \in FlushBatch /\ m \notin cliOutbox /\ cliFate[m] = "queued" THEN "lost" ELSE cliFate[m]
  BY <1>1, GivenUpFates, Zenon DEF FlushInv
<1>5. FlushLosesNothing'
  BY <1>1, <1>2, <1>3, <1>4, Zenon DEF FlushInv, FlushLosesNothing
<1> QED
  BY <1>3, <1>5, Zenon DEF FlushInv

(* Draining takes the whole of a queue into the batch.                     *)
LEMMA DrainKeeps ==
    ASSUME FlushInv, NEW p \in CliPeers, flushing = <<>>, Drain(p), cliCrashes' = cliCrashes
    PROVE  FlushInv'
<1> DEFINE queue == {m \in cliOutbox : CliRecipient[m] = p}
<1>1. PICK kept \in SUBSET queue:
         /\ storeFaults' = storeFaults + Cardinality(kept)
         /\ cliOutbox' = (cliOutbox \ queue) \cup kept /\ undeleted' = undeleted \cup kept
  BY Zenon DEF Drain
<1>2. flushing' = (IF queue = {} THEN <<>> ELSE <<p, queue>>) /\ cliFate' = cliFate
  BY Zenon DEF Drain
<1>3. queue \in SUBSET cliOutbox /\ queue \in SUBSET CliMessages
  BY Zenon DEF FlushInv, FlushTypes
<1> HIDE DEF queue
<1>4. Cardinality(kept) \in Nat
  BY <1>3, CliAssumption, FS_Subset, FS_CardinalityType, Zenon
<1>5. storeFaults' \in Nat /\ (storeFaults > 0 => storeFaults' > 0)
  BY <1>1, <1>4 DEF FlushInv, FlushTypes
<1>6. FlushBatch = {} /\ FlushBatch' = queue
  BY <1>2 DEF FlushBatch
<1>7. flushing' # <<>> => flushing'[2] = queue
  BY <1>2
<1>8. FlushTypes'
  BY <1>1, <1>2, <1>3, <1>5, <1>7, Zenon DEF FlushInv, FlushTypes
<1>9. FlushLosesNothing'
  BY <1>1, <1>2, <1>3, <1>5, <1>6, Zenon DEF FlushInv, FlushLosesNothing
<1> QED
  BY <1>8, <1>9, Zenon DEF FlushInv

(* The batch loses the message that was tried.                             *)
LEMMA RestOfBatch ==
    ASSUME FlushTypes, NEW m \in CliMessages, FlushOne(m)
    PROVE  /\ m \in FlushBatch /\ FlushBatch' = FlushBatch \ {m}
           /\ flushing' # <<>> => flushing'[2] \in SUBSET CliMessages
           /\ undeleted' = undeleted /\ cliCrashes' = cliCrashes
<1>1. /\ flushing # <<>> /\ m \in flushing[2] /\ FlushBatch = flushing[2]
      /\ flushing' = IF flushing[2] = {m} THEN <<>> ELSE <<flushing[1], flushing[2] \ {m}>>
      /\ undeleted' = undeleted /\ cliCrashes' = cliCrashes
  BY Zenon DEF FlushOne, FlushBatch
<1>2. CASE flushing[2] = {m}
  <2>1. flushing' = <<>> /\ FlushBatch' = {}
    BY <1>1, <1>2, Zenon DEF FlushBatch
  <2> QED
    BY <1>1, <1>2, <2>1, Zenon
<1>3. CASE flushing[2] # {m}
  <2>1. flushing' # <<>> /\ flushing'[2] = flushing[2] \ {m}
    BY <1>1, <1>3
  <2>2. FlushBatch' = flushing[2] \ {m}
    BY <2>1, Zenon DEF FlushBatch
  <2> QED
    BY <1>1, <2>1, <2>2, Zenon DEF FlushTypes
<1> QED
  BY <1>2, <1>3, Zenon

(* A message sent leaves the batch.                                        *)
LEMMA FlushSentKeeps ==
    ASSUME FlushInv, NEW m \in CliMessages, FlushSent(m)
    PROVE  FlushInv'
<1>1. /\ FlushOne(m) /\ cliOutbox' = cliOutbox /\ storeFaults' = storeFaults
      /\ cliFate' = [cliFate EXCEPT ![m] = "handed"]
  BY Zenon DEF FlushSent
<1>2. /\ m \in FlushBatch /\ FlushBatch' = FlushBatch \ {m} /\ undeleted' = undeleted /\ cliCrashes' = cliCrashes
      /\ flushing' # <<>> => flushing'[2] \in SUBSET CliMessages
  BY <1>1, RestOfBatch, Zenon DEF FlushInv
<1>3. FlushTypes'
  BY <1>1, <1>2, Zenon DEF FlushInv, FlushTypes, Fates
<1>4. cliFate'[m] = "handed" /\ \A x \in CliMessages \ {m}: cliFate'[x] = cliFate[x]
  BY <1>1, Zenon DEF FlushInv, FlushTypes
<1>5. FlushLosesNothing'
  BY <1>1, <1>2, <1>4 DEF FlushInv, FlushLosesNothing
<1> QED
  BY <1>3, <1>5, Zenon DEF FlushInv

(* A message that failed goes back to the store, or the store fails.       *)
LEMMA FlushFailedKeeps ==
    ASSUME FlushInv, NEW m \in CliMessages, FlushFailed(m)
    PROVE  FlushInv'
<1>1. /\ m \in FlushBatch /\ FlushBatch' = FlushBatch \ {m} /\ undeleted' = undeleted /\ cliCrashes' = cliCrashes
      /\ flushing' # <<>> => flushing'[2] \in SUBSET CliMessages
  BY RestOfBatch, Zenon DEF FlushInv, FlushFailed
<1>2. CASE cliOutbox' = cliOutbox \cup {m} /\ UNCHANGED <<cliFate, storeFaults>>
  <2>1. FlushTypes'
    BY <1>1, <1>2, Zenon DEF FlushInv, FlushTypes
  <2>2. FlushLosesNothing'
    BY <1>1, <1>2, Zenon DEF FlushInv, FlushLosesNothing
  <2> QED
    BY <2>1, <2>2, Zenon DEF FlushInv
<1>3. CASE storeFaults' = storeFaults + 1 /\ cliFate' = GivenUp({m}) /\ UNCHANGED cliOutbox
  <2>1. storeFaults' \in Nat /\ storeFaults' > 0
    BY <1>3 DEF FlushInv, FlushTypes
  <2>2. FlushTypes'
    BY <1>1, <1>3, <2>1, GivenUpFates, Zenon DEF FlushInv, FlushTypes
  <2>3. \A x \in CliMessages: cliFate'[x] =
           IF x = m /\ x \notin cliOutbox /\ cliFate[x] = "queued" THEN "lost" ELSE cliFate[x]
    BY <1>3, GivenUpFates, Zenon DEF FlushInv
  <2>4. FlushLosesNothing'
    BY <1>1, <1>3, <2>1, <2>3, Zenon DEF FlushInv, FlushLosesNothing
  <2> QED
    BY <2>2, <2>4, Zenon DEF FlushInv
<1> QED
  BY <1>2, <1>3, Zenon DEF FlushFailed

(* Every step of the daemon keeps its messages.                            *)
LEMMA FlushKept == FlushInv /\ [CliNext]_cliVars => FlushInv'
<1> SUFFICES ASSUME FlushInv, [CliNext]_cliVars PROVE FlushInv'
  BY Zenon
<1> USE DEF cliLoopVars, cliQueueVars
<1>1. CASE UNCHANGED <<cliQueueVars, flushing, cliCrashes>>
  <2>1. FlushBatch' = FlushBatch
    BY <1>1, Zenon DEF FlushBatch
  <2> QED
    BY <1>1, <2>1, Zenon DEF FlushInv, FlushTypes, FlushLosesNothing
<1>2. CASE CrashDaemon
  BY <1>2, CrashKeeps, Zenon
<1>3. ASSUME NEW m \in CliMessages, SendViaApi(m) PROVE FlushInv'
  <2>1. \E f \in {"handed", "refused"}: cliFate' = [cliFate EXCEPT ![m] = f]
    BY <1>3, Zenon DEF SendViaApi
  <2> QED
    BY <1>3, <2>1, UnsentEnds, Zenon DEF SendViaApi
<1>4. ASSUME NEW m \in CliMessages, SendOffline(m) PROVE FlushInv'
  BY <1>4, UnsentEnds, Zenon DEF SendOffline
<1>5. ASSUME NEW p \in CliPeers, OnPeerDiscovered(p) PROVE FlushInv'
  <2>1. flushing = <<>> /\ cliCrashes' = cliCrashes
    BY <1>5, Zenon DEF OnPeerDiscovered, LoopReads
  <2> QED
    BY <1>1, <1>5, <2>1, DrainKeeps, Zenon DEF OnPeerDiscovered
<1>6. ASSUME NEW m \in CliMessages, FlushSent(m) \/ FlushFailed(m) PROVE FlushInv'
  BY <1>6, FlushSentKeeps, FlushFailedKeeps, Zenon
<1>7. CASE StartDaemon
  BY <1>1, <1>7, Zenon DEF StartDaemon
<1>8. ASSUME NEW p \in CliPeers, PeerLinks(p) \/ PeerAnnounced(p) PROVE FlushInv'
  BY <1>1, <1>8, Zenon DEF PeerLinks, PeerAnnounced, ReportDiscovery
<1>9. ASSUME NEW p \in CliPeers, PeerUnlinks(p) \/ AnnouncementExpires(p) \/ OnPeerDisconnected(p)
      PROVE  FlushInv'
  BY <1>1, <1>9, Zenon DEF PeerUnlinks, AnnouncementExpires, OnPeerDisconnected
<1>10. CASE UNCHANGED cliVars
  BY <1>1, <1>10, Zenon DEF cliVars
<1> QED
  BY <1>2, <1>3, <1>4, <1>5, <1>6, <1>7, <1>8, <1>9, <1>10, Zenon DEF CliNext

(* For any peers and messages, whichever sends and writes fail, however    *)
(* connections and announcements come and go, and wherever the daemon      *)
(* crashes: the store, the batch being flushed and the fate of every       *)
(* message agree (the flush on discovery of cli/src/main.rs); a message is *)
(* in both only after a removal that failed, and is given up only by a     *)
(* crash or by a store that does not take it back.                         *)
THEOREM FlushNeverLoses == CliSpec => []FlushLosesNothing
<1>1. CliInit => FlushInv
  BY DEF CliInit, FlushInv, FlushTypes, FlushLosesNothing, Fates, FlushBatch
<1>2. FlushInv => FlushLosesNothing
  BY Zenon DEF FlushInv
<1> QED
  BY <1>1, <1>2, FlushKept, PTL DEF CliSpec
=============================================================================
