------------------------------ MODULE BleLink -------------------------------
(***************************************************************************)
(* Bluetooth: the links of the core and their beacons, and the central of  *)
(* the command line node.                                                  *)
(***************************************************************************)
EXTENDS Integers, Sequences, FiniteSets

-----------------------------------------------------------------------------
(***************************************************************************)
(* Messages over Bluetooth Low Energy: an L2CAP channel whose fragments    *)
(* the reassembly manager collects per peer, and GATT characteristic       *)
(* writes that pass through a bounded queue.  The radio and the program    *)
(* that moves fragments between the two ends belong to the platform.       *)
(* Beside it, and apart from it, the encrypted beacons by which nodes of a *)
(* group find one another.                                                 *)
(*                                                                         *)
(* A byte is a message with a position in it, and the checksum at the end  *)
(* of a frame is taken to be right exactly for the bytes of one frame.     *)
(***************************************************************************)
CONSTANTS
    BleMessages,
    BodyLen,           \* per message: its bytes
    FragmentPayload,   \* MTU less the fragment header
    CrcLen,            \* bytes of the checksum
    WriteDepth,        \* max_outstanding
    PeerMemory,        \* max_peer_memory_bytes
    PartialAge,        \* reassembly_timeout
    MaxBleSends,
    MaxBleRepeats

CONSTANTS
    GroupKeys,
    DEFAULT_ROTATION,    \* seconds of an epoch
    OtherRotation,       \* with_rotation_period
    MaxBeaconTime, MaxSkew

ASSUME BleAssumption ==
    /\ FragmentPayload \in Nat \ {0} /\ CrcLen \in Nat \ {0} /\ PeerMemory \in Nat
    /\ BodyLen \in [BleMessages -> Nat]

VARIABLES
    bleChannel,   \* L2capChannel::state
    air,          \* fragments under way: [send, fragment]
    partial,      \* the peer's PartialReassembly, if there is one
    delivered,    \* what feed_fragment returned
    dropStats,    \* reasons some reassembly was dropped for
    writes,       \* fragments the sender has yet to enqueue
    writeQueue,   \* GattWriteQueue
    written,      \* writes received and not yet reassembled
    notified,     \* what GattReassembler::reassemble returned
    bleSends, bleRepeats

bleVars == <<bleChannel, air, partial, delivered, dropStats, writes, writeQueue, written, notified,
             bleSends, bleRepeats>>
bleLinkVars == <<bleChannel, air, partial, delivered, dropStats, bleRepeats>>
bleGattVars == <<writes, writeQueue, written, notified>>

ChannelStates == {"Closed", "Connecting", "Connected", "Closing"}
DropReasons == {"Timeout", "MemoryCapExceeded", "CrcMismatch"}

-----------------------------------------------------------------------------
Body(m) == [i \in 1 .. BodyLen[m] |-> <<m, i>>]

(* append_crc32                                                            *)
Frame(m) == [i \in 1 .. BodyLen[m] + CrcLen |-> <<m, i>>]

(* L2capFragmenter::fragment and GattFragmenter::fragment.  A message of   *)
(* no bytes becomes one write without a header.                            *)
Fragments(bytes) ==
    LET n == (Len(bytes) + FragmentPayload - 1) \div FragmentPayload
        upto(i) == IF i * FragmentPayload < Len(bytes) THEN i * FragmentPayload ELSE Len(bytes) IN
    [i \in 1 .. n |-> [total |-> n, index |-> i - 1,
                       data |-> SubSeq(bytes, (i - 1) * FragmentPayload + 1, upto(i))]]

(* L2capReassembler::reassemble and GattReassembler::reassemble: the whole *)
(* message, in order, or an error.                                         *)
InOrder(fragments) ==
    /\ Len(fragments) = fragments[1].total
    /\ \A i \in 1 .. Len(fragments) :
          fragments[i].index = i - 1 /\ fragments[i].total = fragments[1].total

(* Joined(bytes)[k]: the data of the fragments numbered below k that the   *)
(* table holds.                                                            *)
Joined(table, n) ==
    LET upto[k \in 0 .. n] ==
            IF k = 0 THEN <<>>
            ELSE upto[k - 1] \o (IF k - 1 \in DOMAIN table THEN table[k - 1] ELSE <<>>)
    IN upto[n]

(* Mutant: the checksum of a joined frame is not compared.                 *)
ChecksumHoldsAlways(bytes) == TRUE

(* crc32 over all but the last bytes, against those last bytes.            *)
ChecksumHolds(bytes) == \E m \in BleMessages : bytes = Frame(m)

Fragment == UNION {{Fragments(Frame(m))[i] : i \in 1 .. Len(Fragments(Frame(m)))} : m \in BleMessages}

BleTypeOK ==
    /\ bleChannel \in ChannelStates
    /\ air \subseteq [send : 1 .. MaxBleSends, fragment : Fragment]
    /\ Cardinality(partial) <= 1
    /\ \A q \in partial : q.bytes <= PeerMemory /\ q.age \in 0 .. PartialAge + 1
    /\ dropStats \subseteq DropReasons
    /\ Len(writeQueue) <= WriteDepth
    /\ bleSends \in 0 .. MaxBleSends /\ bleRepeats \in 0 .. MaxBleRepeats

BleInit ==
    /\ bleChannel = "Closed" /\ air = {} /\ partial = {} /\ delivered = {} /\ dropStats = {}
    /\ writes = <<>> /\ writeQueue = <<>> /\ written = <<>> /\ notified = {}
    /\ bleSends = 0 /\ bleRepeats = 0

-----------------------------------------------------------------------------
(* L2capChannel: the calls that change its state.  A channel that goes     *)
(* takes the fragments on it along; the receiver's partial stays.          *)
InitiateConnection ==
    /\ bleChannel = "Closed" /\ bleSends < MaxBleSends /\ bleChannel' = "Connecting"
    /\ UNCHANGED <<air, partial, delivered, dropStats, bleSends, bleRepeats, bleGattVars>>
ConfirmConnection ==
    /\ bleChannel = "Connecting" /\ bleChannel' = "Connected"
    /\ UNCHANGED <<air, partial, delivered, dropStats, bleSends, bleRepeats, bleGattVars>>
InitiateClose ==
    /\ bleChannel \in {"Connected", "Connecting"} /\ bleChannel' = "Closing"
    /\ UNCHANGED <<air, partial, delivered, dropStats, bleSends, bleRepeats, bleGattVars>>
ConfirmClose ==
    /\ bleChannel # "Closed" /\ bleChannel' = "Closed" /\ air' = {}
    /\ UNCHANGED <<partial, delivered, dropStats, bleSends, bleRepeats, bleGattVars>>

SendOverChannel(m) ==
    LET fragments == Fragments(Frame(m)) IN
    /\ bleChannel = "Connected" /\ bleSends < MaxBleSends
    /\ bleSends' = bleSends + 1
    /\ air' = air \cup {[send |-> bleSends + 1, fragment |-> fragments[i]] : i \in 1 .. Len(fragments)}
    /\ UNCHANGED <<bleChannel, partial, delivered, dropStats, bleRepeats, bleGattVars>>

FragmentLost(x) ==
    /\ air' = air \ {x}
    /\ UNCHANGED <<bleChannel, partial, delivered, dropStats, bleSends, bleRepeats, bleGattVars>>

(* L2capReassemblyManager::feed_fragment, after evict_expired.  The table  *)
(* is one per peer, whichever message a fragment belongs to: the first one *)
(* says how many there are, and a number seen before is overwritten.       *)
Feed(f) ==
    LET kept == {q \in partial : q.age <= PartialAge}
        late == IF kept = partial THEN {} ELSE {"Timeout"}
        p == IF kept = {} THEN [table |-> <<>>, total |-> f.total, age |-> 0, bytes |-> 0]
             ELSE CHOOSE q \in kept : TRUE
        table == [k \in DOMAIN p.table \cup {f.index} |-> IF k = f.index THEN f.data ELSE p.table[k]]
        joined == Joined(table, p.total) IN
    \/ /\ p.bytes + Len(f.data) > PeerMemory
       /\ partial' = {} /\ dropStats' = dropStats \cup late \cup {"MemoryCapExceeded"}
       /\ UNCHANGED delivered
    \/ /\ p.bytes + Len(f.data) <= PeerMemory /\ Cardinality(DOMAIN table) # p.total
       /\ partial' = {[p EXCEPT !.table = table, !.bytes = @ + Len(f.data)]}
       /\ dropStats' = dropStats \cup late
       /\ UNCHANGED delivered
    \/ /\ p.bytes + Len(f.data) <= PeerMemory /\ Cardinality(DOMAIN table) = p.total
       /\ partial' = {}
       /\ \/ /\ Len(joined) >= CrcLen /\ ChecksumHolds(joined)
             /\ delivered' = delivered \cup {[data |-> SubSeq(joined, 1, Len(joined) - CrcLen), checked |-> TRUE]}
             /\ dropStats' = dropStats \cup late
          \/ /\ Len(joined) >= CrcLen /\ ~ChecksumHolds(joined)
             /\ dropStats' = dropStats \cup late \cup {"CrcMismatch"}
             /\ UNCHANGED delivered
          \/ /\ Len(joined) < CrcLen
             /\ delivered' = delivered \cup {[data |-> joined, checked |-> FALSE]}
             /\ dropStats' = dropStats \cup late

FragmentReceived(x) ==
    /\ Feed(x.fragment)
    /\ air' = air \ {x}
    /\ UNCHANGED <<bleChannel, bleSends, bleRepeats, bleGattVars>>

FragmentRepeated(x) ==
    /\ bleRepeats < MaxBleRepeats /\ bleRepeats' = bleRepeats + 1
    /\ Feed(x.fragment)
    /\ UNCHANGED <<bleChannel, air, bleSends, bleGattVars>>

PartialAges ==
    /\ \E q \in partial : q.age <= PartialAge /\ partial' = {[q EXCEPT !.age = @ + 1]}
    /\ UNCHANGED <<bleChannel, air, delivered, dropStats, bleSends, bleRepeats, bleGattVars>>

-----------------------------------------------------------------------------
(* A message over the characteristic, without a checksum.                  *)
SendOverGatt(m) ==
    /\ writes = <<>> /\ bleSends < MaxBleSends
    /\ bleSends' = bleSends + 1 /\ writes' = Fragments(Body(m))
    /\ UNCHANGED <<writeQueue, written, notified, bleLinkVars>>

(* GattWriteQueue::enqueue; WriteQueueFull leaves the sender to try again. *)
BleEnqueue ==
    /\ writes # <<>> /\ Len(writeQueue) < WriteDepth
    /\ writeQueue' = Append(writeQueue, Head(writes)) /\ writes' = Tail(writes)
    /\ UNCHANGED <<written, notified, bleSends, bleLinkVars>>

(* GattWriteQueue::dequeue: the write reaches the other end.               *)
Dequeue ==
    /\ writeQueue # <<>>
    /\ writeQueue' = Tail(writeQueue) /\ written' = Append(written, Head(writeQueue))
    /\ UNCHANGED <<writes, notified, bleSends, bleLinkVars>>

(* GattWriteQueue::clear when the peer is gone; its message is given up.   *)
ClearQueue ==
    /\ writeQueue # <<>>
    /\ writeQueue' = <<>> /\ writes' = <<>>
    /\ UNCHANGED <<written, notified, bleSends, bleLinkVars>>

(* The receiver has as many writes as the first one announces.             *)
ReassembleWrites ==
    /\ written # <<>> /\ Len(written) >= written[1].total
    /\ notified' = IF InOrder(written)
                   THEN notified \cup {Joined([k \in 0 .. Len(written) - 1 |-> written[k + 1].data], Len(written))}
                   ELSE notified
    /\ written' = <<>>
    /\ UNCHANGED <<writes, writeQueue, bleSends, bleLinkVars>>

-----------------------------------------------------------------------------
BleNext ==
    \/ InitiateConnection \/ ConfirmConnection \/ InitiateClose \/ ConfirmClose
    \/ \E m \in BleMessages : SendOverChannel(m) \/ SendOverGatt(m)
    \/ \E x \in air : FragmentLost(x) \/ FragmentReceived(x) \/ FragmentRepeated(x)
    \/ PartialAges
    \/ BleEnqueue \/ Dequeue \/ ClearQueue \/ ReassembleWrites

BleSpec == BleInit /\ [][BleNext]_bleVars

-----------------------------------------------------------------------------
(* Beacons.                                                                *)
VARIABLES
    beaconTime,   \* the sender's clock, and the true time
    beaconSkew,   \* the receiver's clock less the sender's
    beacon        \* what is on the air, or nothing

beaconVars == <<beaconTime, beaconSkew, beacon>>

NoBeacon == [key |-> "none", epoch |-> 0, period |-> 0, at |-> 0]
BeaconNow == beaconTime + beaconSkew

BeaconInit ==
    /\ beaconTime = 0 /\ beacon = NoBeacon
    /\ beaconSkew \in -MaxSkew .. MaxSkew

(* BeaconBuilder::build: the epoch goes into the payload and the nonce.    *)
BuildBeacon(key, period) ==
    /\ beacon' = [key |-> key, epoch |-> beaconTime \div period, period |-> period, at |-> beaconTime]
    /\ UNCHANGED <<beaconTime, beaconSkew>>

(* create_encrypted_beacon of the discovery module: the default period.    *)
CreateEncryptedBeacon(key) == BuildBeacon(key, DEFAULT_ROTATION)

BeaconSecond ==
    /\ beaconTime < MaxBeaconTime /\ beaconTime' = beaconTime + 1
    /\ UNCHANGED <<beaconSkew, beacon>>

BeaconNext ==
    \/ \E key \in GroupKeys :
         \/ CreateEncryptedBeacon(key)
         \/ \E period \in {DEFAULT_ROTATION, OtherRotation} : BuildBeacon(key, period)
    \/ BeaconSecond

BeaconSpec == BeaconInit /\ [][BeaconNext]_beaconVars

(* Mutant: the epoch to come is not tried.                                 *)
EpochsTriedPast(now, period) == {now \div period - 1, now \div period}

(* The epochs decrypt_beacon_with_period tries.                            *)
EpochsTried(now, period) == {now \div period + offset : offset \in -1 .. 1}

(* decrypt_beacon_with_period and BeaconParser::parse: the cipher opens    *)
(* with the key and the nonce of the epoch, and gives the payload's epoch. *)
DecryptBeacon(b, key, now, period) ==
    IF key = b.key /\ b.epoch \in EpochsTried(now, period) THEN b.epoch ELSE -1

(* BeaconParser::is_fresh                                                  *)
IsFresh(epoch, now, period) == now \div period - epoch \in -1 .. 1

(* A member of the group reads a beacon it hears within a period, by the   *)
(* two clocks and in either direction, never after two, and what it reads  *)
(* counts as fresh; nobody else reads it.                                  *)
BeaconsReadable ==
    beacon # NoBeacon /\ BeaconNow >= 0 =>
        LET period == beacon.period
            gap == BeaconNow - beacon.at
            read(key) == DecryptBeacon(beacon, key, BeaconNow, period)
        IN  /\ gap \in -period .. period => read(beacon.key) = beacon.epoch
            /\ gap >= 2 * period \/ gap <= -2 * period => read(beacon.key) = -1
            /\ (read(beacon.key) # -1) = IsFresh(beacon.epoch, BeaconNow, period)
            /\ \A key \in GroupKeys \ {beacon.key} : read(key) = -1

(* Whatever the radio loses, repeats or reorders, what passed the checksum *)
(* of feed_fragment or the numbering of GattReassembler::reassemble is a   *)
(* whole message that was sent, never fragments of two.                    *)
FragmentsNotMixed ==
    /\ \A d \in delivered : d.checked => \E m \in BleMessages : d.data = Body(m)
    /\ \A d \in notified : \E m \in BleMessages : d = Body(m)

(* Messages over Bluetooth that pass their check arrive whole, and beacons *)
(* are read for as long as they are fresh.                                 *)
MessagesWhole == FragmentsNotMixed /\ BeaconsReadable

-----------------------------------------------------------------------------
(***************************************************************************)
(* The Bluetooth central of the command line node: it connects to the      *)
(* advertising peripherals of the mesh and reads their notifications       *)
(* (cli/src/ble_mesh.rs).  The probe of the adapter (cli/src/              *)
(* ble_daemon.rs) runs beside it.                                          *)
(*                                                                         *)
(* The central's loop takes one event at a time and awaits the adapter in  *)
(* between; each peripheral it follows has a task of its own.              *)
(***************************************************************************)
CONSTANTS
    Peripherals,
    MaxSightings        \* bound on the advertisements that start a task

ASSUME CentralAssumption == MaxSightings \in Nat

VARIABLES
    central,       \* the central: "starting", "scanning" or "ended"
    followed,      \* tracked: the peripherals the central is busy with
    lookedUp,      \* the peripheral whose adapter.peripheral() is awaited, if any
    ingress,       \* the tasks: [of, no, at]
    attached,      \* peripherals connected at the adapter
    sightings,
    shown,         \* how often the notifications so far were shown
    adapters,      \* BleDaemon::adapters is not empty
    daemonStatus   \* BleDaemon::status

centralVars == <<central, followed, lookedUp, ingress, attached, sightings, shown>>
adapterVars == <<adapters, daemonStatus>>
bleVarsAll == <<centralVars, adapterVars>>

BleStatuses == {"Available", "ManagerInitFailed", "PermissionDenied", "NoAdapter", "Other", "Disabled"}

CentralTypeOK ==
    /\ central \in {"starting", "scanning", "ended"}
    /\ followed \subseteq Peripherals /\ lookedUp \subseteq Peripherals /\ attached \subseteq Peripherals
    /\ ingress \subseteq [of : Peripherals, no : 1 .. MaxSightings, at : {"matching", "connecting", "preparing", "reading"}]
    /\ shown \subseteq Nat
    /\ adapters \in BOOLEAN /\ daemonStatus \in BleStatuses

CentralInit ==
    /\ central = "starting" /\ followed = {} /\ lookedUp = {} /\ ingress = {} /\ attached = {} /\ sightings = 0 /\ shown = {}
    /\ adapters = FALSE /\ daemonStatus = "ManagerInitFailed"

-----------------------------------------------------------------------------
(* run_ble_central_ingress.  Without a manager, an adapter, a scan or its  *)
(* events the central ends, and nothing starts it again.                   *)
CentralStarts ==
    /\ central = "starting"
    /\ central' \in {"scanning", "ended"}
    /\ UNCHANGED <<followed, lookedUp, ingress, attached, sightings, shown, adapterVars>>

Sighted(p) == followed' = followed \cup {p}

(* An event of a peripheral that is not followed; any other is skipped.    *)
PeripheralSeen(p) ==
    /\ central = "scanning" /\ lookedUp = {} /\ p \notin followed
    /\ sightings < MaxSightings /\ sightings' = sightings + 1
    /\ lookedUp' = {p}
    /\ Sighted(p)
    /\ UNCHANGED <<central, ingress, attached, shown, adapterVars>>

PeripheralUnknown(p) ==
    /\ lookedUp = {p} /\ lookedUp' = {}
    /\ followed' = followed \ {p}
    /\ UNCHANGED <<central, ingress, attached, sightings, shown, adapterVars>>

FollowPeripheral(p) ==
    /\ lookedUp = {p} /\ lookedUp' = {}
    /\ ingress' = ingress \cup {[of |-> p, no |-> sightings, at |-> "matching"]}
    /\ UNCHANGED <<central, followed, attached, sightings, shown, adapterVars>>

IngressAt(t, step) ==
    /\ ingress' = (ingress \ {t}) \cup {[t EXCEPT !.at = step]}
    /\ UNCHANGED <<central, followed, lookedUp, sightings, shown, adapterVars>>

(* Mutant: a task that failed is not taken out of the set.                 *)
IngressEndsTracked(t) ==
    /\ ingress' = ingress \ {t}
    /\ UNCHANGED <<central, followed, lookedUp, sightings, shown, adapterVars>>

(* Every way a task ends, the peripheral is free to be followed again.     *)
IngressEnds(t) ==
    /\ ingress' = ingress \ {t}
    /\ followed' = followed \ {t.of}
    /\ UNCHANGED <<central, lookedUp, sightings, shown, adapterVars>>

(* The service is in the event or in the properties of the peripheral.     *)
MatchService(t) ==
    /\ t.at = "matching"
    /\ IngressAt(t, "connecting") \/ IngressEnds(t)
    /\ UNCHANGED attached

ConnectPeripheral(t) ==
    /\ t.at = "connecting"
    /\ \/ IngressAt(t, "preparing") /\ attached' = attached \cup {t.of}
       \/ IngressEnds(t) /\ UNCHANGED attached

(* discover_services, the characteristic, subscribe: a failure             *)
(* disconnects.  A failure of notifications() leaves the peripheral        *)
(* connected, which makes it stop advertising.                             *)
SubscribePeripheral(t) ==
    /\ t.at = "preparing"
    /\ \/ IngressAt(t, "reading") /\ UNCHANGED attached
       \/ IngressEnds(t) /\ attached' \in {attached, attached \ {t.of}}

Frames == {"message", "control", "raw", "refused"}

(* decode_ble_payload_for_ui: a frame that is no Data frame is dropped,    *)
(* bytes that are no frame are taken as an envelope, and an envelope that  *)
(* the core refuses is not shown.                                          *)
Decoded(frame) == frame \in {"message", "raw"}

(* Every task that reads the peripheral gets the notification.             *)
NotificationArrives(p, frame) ==
    /\ p \in attached
    /\ Decoded(frame)
    /\ shown' = shown \cup {Cardinality({t \in ingress : t.of = p /\ t.at = "reading"})}
    /\ UNCHANGED <<central, followed, lookedUp, ingress, attached, sightings, adapterVars>>

(* The stream of notifications ends when the peripheral disconnects.       *)
StreamEnds(t) ==
    /\ t.at = "reading"
    /\ IngressEnds(t) /\ attached' = attached \ {t.of}

(* At most one task follows a peripheral, so a notification is read and    *)
(* shown once, and a peripheral is held back only while a task or the      *)
(* lookup is busy with it: none is skipped for ever after a failure, at    *)
(* whatever step it happened (run_ble_central_ingress).                    *)
IngressExclusive ==
    /\ \A t, u \in ingress : t.of = u.of => t = u
    /\ followed = lookedUp \cup {t.of : t \in ingress}
    /\ \A t \in ingress : t.of \notin lookedUp
    /\ \A n \in shown : n <= 1

-----------------------------------------------------------------------------
(* BleDaemon::initialize.  A failure leaves the adapters of an earlier     *)
(* success.                                                                *)
InitializeDaemon ==
    /\ daemonStatus' \in BleStatuses \ {"Disabled"}
    /\ adapters' = (adapters \/ daemonStatus' = "Available")
    /\ UNCHANGED <<centralVars>>

ShutdownDaemon ==
    /\ daemonStatus' = "Disabled"
    /\ UNCHANGED <<adapters, centralVars>>

-----------------------------------------------------------------------------
CentralNext ==
    \/ CentralStarts
    \/ \E p \in Peripherals : PeripheralSeen(p) \/ PeripheralUnknown(p) \/ FollowPeripheral(p)
    \/ \E p \in Peripherals, frame \in Frames : NotificationArrives(p, frame)
    \/ \E t \in ingress : MatchService(t) \/ ConnectPeripheral(t) \/ SubscribePeripheral(t) \/ StreamEnds(t)
    \/ InitializeDaemon \/ ShutdownDaemon

CentralSpec == CentralInit /\ [][CentralNext]_bleVarsAll
=============================================================================
