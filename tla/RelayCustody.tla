---------------------------- MODULE RelayCustody ----------------------------
(***************************************************************************)
(* A relay's custody of messages for recipients that may be offline: the   *)
(* durable queue and the registry (core/src/store/relay_custody.rs) driven *)
(* by the swarm's event loop (core/src/transport/swarm.rs), with the       *)
(* recipients, the other relays, and crashes of the relay as environment.  *)
(* The event loop handles one event at a time and every store operation is *)
(* synchronous, so a handler is one step.  What interleaves are the        *)
(* events: relay requests, responses and failures of dispatches,           *)
(* connections, convergence markers, registrations, the periodic pull,     *)
(* crashes.                                                                *)
(***************************************************************************)
EXTENDS RelayRegistry, FiniteSets

CONSTANTS
    Senders,                         \* peers that ask the relay to take custody
    Destinations,                    \* recipient peer ids
    LocalPeer,                       \* the relay's own peer id
    Messages,                        \* relay_message_ids
    MAX_PENDING_PER_DESTINATION,
    MAX_DELIVERY_ATTEMPTS,
    RELAY_MAX_INFLIGHT_DISPATCHES,
    PULL_LIMIT,                      \* records one pull looks at (64)
    MaxCustody,                      \* bound on the number of custody ids
    MaxFaults,                       \* bound on failed or refused dispatches
    MaxCrashes                       \* bound on restarts

ASSUME CustodyAssumption ==
    /\ MAX_PENDING_PER_DESTINATION \in Nat \ {0}
    /\ MAX_DELIVERY_ATTEMPTS \in Nat \ {0}
    /\ RELAY_MAX_INFLIGHT_DISPATCHES \in Nat \ {0}
    /\ PULL_LIMIT \in Nat \ {0}
    /\ MaxCustody \in Nat
    /\ MaxFaults \in Nat
    /\ MaxCrashes \in Nat

VARIABLES
    \* persistent, beside reg
    queue,       \* custody id -> custody record
    nextId,      \* the next custody id; ids are issued in order of acceptance
    \* memory of the event loop, lost in a crash
    inflight,    \* pending_custody_dispatches
    recent,      \* RelayAbuseGuardrails.recent_duplicates
    seen,        \* seen_delivery_convergence_markers
    connected,   \* destinations the swarm has a connection to
    \* the network
    wire,        \* dispatched requests the recipient has not processed yet
    acks,        \* responses to in-flight dispatches on their way back
    faults,      \* number of failed or refused dispatches so far
    crashes,     \* number of restarts so far
    \* history
    promised,    \* <<destination, message>> answered with accepted: true
    arrived,     \* <<destination, message>> the recipient has received
    purged,      \* <<destination, message>> with a purge in the audit log
    orphans,     \* custody ids that were Dispatching when the relay crashed
    lapsed       \* identities whose queue a collapse or crash left behind

memoryVars == <<inflight, recent, seen, connected, acks>>
historyVars == <<promised, arrived, purged, orphans, lapsed>>
vars == <<now, reg, queue, nextId, inflight, recent, seen, connected, wire,
          acks, faults, crashes, promised, arrived, purged, orphans, lapsed>>

Pairs == Destinations \X Messages

CustodyMessage ==
    [dest : Destinations, mid : Messages,
     identity : Identities \cup Keys \cup {NoIdentity},
     device : Devices \cup {NoDevice},
     state : {"accepted", "dispatching"}, attempts : Nat]

(* An outbound request; the attempt number makes it unique, as the         *)
(* OutboundRequestId does.                                                 *)
Dispatch == [cid : Nat, attempt : Nat, dest : Destinations, mid : Messages]

PairOf(r) == <<r.dest, r.mid>>

Held(pair) == {c \in DOMAIN queue : PairOf(queue[c]) = pair}

DispatchesFor(pair) == {p \in inflight : PairOf(p) = pair}

-----------------------------------------------------------------------------
(* Operations of the store on a queue q. *)

RemoveMessages(q, S) == [c \in DOMAIN q \ S |-> q[c]]

MarkDispatching(q, S) ==
    [c \in DOMAIN q |->
        IF c \in S
        THEN [q[c] EXCEPT !.state = "dispatching", !.attempts = @ + 1] ELSE q[c]]

(* Mutant: a failure of the last attempt removes the record. *)
MarkDispatchFailedDropsExhausted(q, S) ==
    LET gone == {c \in S \cap DOMAIN q : q[c].attempts = MAX_DELIVERY_ATTEMPTS} IN
    [c \in DOMAIN q \ gone |->
        IF c \in S THEN [q[c] EXCEPT !.state = "accepted"] ELSE q[c]]

MarkDispatchFailed(q, S) ==
    [c \in DOMAIN q |->
        IF c \in S THEN [q[c] EXCEPT !.state = "accepted"] ELSE q[c]]

MigrateIdentityDevice(q, S, t) ==
    [c \in DOMAIN q |-> IF c \in S THEN [q[c] EXCEPT !.device = t] ELSE q[c]]

PutAccepted(q, c, d, m, i, dv) ==
    [x \in DOMAIN q \cup {c} |->
        IF x = c
        THEN [dest |-> d, mid |-> m, identity |-> i, device |-> dv,
              state |-> "accepted", attempts |-> 0]
        ELSE q[x]]

(* The records of identity i, all of them or those for one device. *)
IdentityMessages(i) == {c \in DOMAIN queue : queue[c].identity = i}

DeviceMessages(i, d) == {c \in IdentityMessages(i) : queue[c].device = d}

PendingForDestination(q, d) ==
    {c \in DOMAIN q : q[c].dest = d /\ q[c].state = "accepted"}

Oldest(S, n) == {c \in S : Cardinality({e \in S : e < c}) < n}

(* The records one pull for d dispatches when the in-flight cap allows it: *)
(* those that have used up their attempts are skipped, after the limit was *)
(* applied.                                                                *)
Batch(q, d) ==
    {c \in Oldest(PendingForDestination(q, d), PULL_LIMIT) :
        q[c].attempts < MAX_DELIVERY_ATTEMPTS}

(* R is what dispatch_pending_custody_for_peer dispatches when it is       *)
(* called for the destinations D in some order: oldest first, one          *)
(* destination after the other, up to the in-flight cap.                   *)
Pulled(q, fl, D, R) ==
    LET Want(d) == Batch(q, d)
        Got(d) == R \cap Want(d)
        all == UNION {Want(d) : d \in D}
        room == RELAY_MAX_INFLIGHT_DISPATCHES - Cardinality(fl) IN
    /\ R \subseteq all
    /\ R # {} => Cardinality(R) <= room
    /\ R # all => Cardinality(R) >= room
    /\ \A d \in D : Got(d) = Oldest(Want(d), Cardinality(Got(d)))
    /\ \A d, e \in D : d # e => \/ Got(d) \in {{}, Want(d)}
                              \/ Got(e) \in {{}, Want(e)}

DispatchesOf(q, R) ==
    {[cid |-> c, attempt |-> q[c].attempts + 1, dest |-> q[c].dest, mid |-> q[c].mid] :
        c \in R}

(* The pull itself, from the queue q that the handler has reached. *)
DispatchPending(q, D) ==
    \E R \in SUBSET UNION {Batch(q, d) : d \in D} :
        /\ Pulled(q, inflight, D, R)
        /\ queue' = MarkDispatching(q, R)
        /\ inflight' = inflight \cup DispatchesOf(q, R)
        /\ wire' = wire \cup DispatchesOf(q, R)

-----------------------------------------------------------------------------
(* Relay requests.  The cheap heuristics, the hourly budget, the token     *)
(* bucket and the spam score only refuse requests, without touching the    *)
(* state kept here: they are the environment's freedom not to send one.    *)

(* resolve_custody_metadata: device metadata is enforced when complete and *)
(* passed through otherwise (compat mode of legacy clients).               *)
Complete(h, dv) == h # NoIdentity /\ dv # NoDevice

Resolvable(h, dv) ==
    Complete(h, dv) =>
        LET i == NormalizeLookupIdentity(h) IN i \in Identities /\ EnforceOk(i, dv)

ResolvedDevice(h, dv) ==
    IF Complete(h, dv) THEN EnforcedDevice(NormalizeLookupIdentity(h), dv) ELSE dv

Admitted(h, dv) ==
    /\ Cardinality(inflight) < RELAY_MAX_INFLIGHT_DISPATCHES
    /\ Resolvable(h, dv)

(* A resend inside the duplicate window is confirmed without looking at    *)
(* the queue.                                                              *)
SuppressDuplicate(s, d, m, h, dv) ==
    /\ Admitted(h, dv)
    /\ <<s, d, m>> \in recent
    /\ promised' = promised \cup {<<d, m>>}
    /\ UNCHANGED <<now, reg, queue, nextId, memoryVars, wire, faults, crashes,
                   arrived, purged, orphans, lapsed>>

(* The message is already in custody, in whatever state. *)
AcceptExisting(s, d, m, h, dv) ==
    /\ Admitted(h, dv)
    /\ <<s, d, m>> \notin recent
    /\ Held(<<d, m>>) # {}
    /\ recent' = recent \cup {<<s, d, m>>}
    /\ promised' = promised \cup {<<d, m>>}
    /\ DispatchPending(queue, {d} \cap connected)
    /\ UNCHANGED <<now, reg, nextId, seen, connected, acks, faults, crashes,
                   arrived, purged, orphans, lapsed>>

(* What storage pressure may purge before a write: the oldest n records,   *)
(* those addressed to the relay itself only after all others.              *)
IdentityRelated == {c \in DOMAIN queue : queue[c].dest = LocalPeer}

PressurePurges ==
    LET others == DOMAIN queue \ IdentityRelated IN
    {Oldest(others, n) : n \in 0 .. Cardinality(others)} \cup
    {others \cup Oldest(IdentityRelated, n) : n \in 0 .. Cardinality(IdentityRelated)}

(* Mutant: the quota is off by one. *)
WritableNewOverQuota(s, d, m, h, dv) ==
    /\ Admitted(h, dv)
    /\ <<s, d, m>> \notin recent
    /\ Held(<<d, m>>) = {}
    /\ Cardinality(PendingForDestination(queue, d)) <= MAX_PENDING_PER_DESTINATION

WritableNew(s, d, m, h, dv) ==
    /\ Admitted(h, dv)
    /\ <<s, d, m>> \notin recent
    /\ Held(<<d, m>>) = {}
    /\ Cardinality(PendingForDestination(queue, d)) < MAX_PENDING_PER_DESTINATION

AcceptNew(s, d, m, h, dv, P) ==
    /\ WritableNew(s, d, m, h, dv)
    /\ nextId <= MaxCustody
    /\ nextId' = nextId + 1
    /\ recent' = recent \cup {<<s, d, m>>}
    /\ promised' = promised \cup {<<d, m>>}
    /\ purged' = purged \cup {PairOf(queue[c]) : c \in P}
    /\ DispatchPending(PutAccepted(RemoveMessages(queue, P), nextId, d, m,
                           NormalizeLookupIdentity(h), ResolvedDevice(h, dv)),
                       {d} \cap connected)
    /\ UNCHANGED <<now, reg, seen, connected, acks, faults, crashes, arrived,
                   orphans, lapsed>>

(* Mutant: the message that is refused is recorded as purged. *)
RefuseForPressureRecorded(s, d, m, h, dv, P) ==
    /\ WritableNew(s, d, m, h, dv)
    /\ queue' = RemoveMessages(queue, P)
    /\ purged' = purged \cup {<<d, m>>} \cup {PairOf(queue[c]) : c \in P}
    /\ UNCHANGED <<now, reg, nextId, memoryVars, wire, faults, crashes,
                   promised, arrived, orphans, lapsed>>

(* The purge did not make enough room, or the device is in emergency mode: *)
(* the request is refused, what was purged stays purged.                   *)
RefuseForPressure(s, d, m, h, dv, P) ==
    /\ WritableNew(s, d, m, h, dv)
    /\ queue' = RemoveMessages(queue, P)
    /\ purged' = purged \cup {PairOf(queue[c]) : c \in P}
    /\ UNCHANGED <<now, reg, nextId, memoryVars, wire, faults, crashes,
                   promised, arrived, orphans, lapsed>>

(* An entry of the duplicate window expires or is pruned. *)
ForgetRecent(k) ==
    /\ k \in recent
    /\ recent' = recent \ {k}
    /\ UNCHANGED <<now, reg, queue, nextId, inflight, seen, connected, acks,
                   wire, faults, crashes, historyVars>>

-----------------------------------------------------------------------------
(* Connections and dispatches. *)

ConnectionEstablished(d) ==
    /\ d # LocalPeer
    /\ connected' = connected \cup {d}
    /\ DispatchPending(queue, {d})
    /\ UNCHANGED <<now, reg, nextId, recent, seen, acks, faults, crashes, historyVars>>

CustodyPullTick ==
    /\ DispatchPending(queue, connected)
    /\ UNCHANGED <<now, reg, nextId, recent, seen, connected, acks, faults,
                   crashes, historyVars>>

(* Mutant: the dispatches stay in the table. *)
DispatchesFailKept(D) ==
    /\ queue' = MarkDispatchFailed(queue, {p.cid : p \in D})
    /\ UNCHANGED <<now, reg, nextId, inflight, acks, recent, seen, crashes, historyVars>>

(* Mutant: the records stay Dispatching. *)
DispatchesFailUnmarked(D) ==
    /\ inflight' = inflight \ D
    /\ acks' = {a \in acks : a.req \notin D}
    /\ UNCHANGED <<now, reg, queue, nextId, recent, seen, crashes, historyVars>>

(* Dispatches D end without a response: their records are pending again.   *)
DispatchesFail(D) ==
    /\ inflight' = inflight \ D
    /\ acks' = {a \in acks : a.req \notin D}
    /\ queue' = MarkDispatchFailed(queue, {p.cid : p \in D})
    /\ UNCHANGED <<now, reg, nextId, recent, seen, crashes, historyVars>>

(* Failures the network or a recipient causes, at most MaxFaults of them. *)
Fault ==
    /\ faults < MaxFaults
    /\ faults' = faults + 1

(* Any connection to d closes; another one may remain.  Every dispatch to  *)
(* d is given up, although requests on the wire may still arrive.          *)
ConnectionClosed(d) ==
    /\ Fault
    /\ d \in connected
    /\ connected' \in {connected, connected \ {d}}
    /\ wire' \in {wire, {p \in wire : p.dest # d}}
    /\ DispatchesFail({p \in inflight : p.dest = d})

OutboundFailure(p) ==
    /\ Fault
    /\ p \in inflight
    /\ wire' \in {wire, wire \ {p}}
    /\ DispatchesFail({p})
    /\ UNCHANGED connected

RecipientRejected(a) ==
    /\ a \in acks
    /\ ~a.ok
    /\ DispatchesFail({a.req})
    /\ UNCHANGED <<wire, connected, faults>>

(* Mutant: a marker clears the dispatches and leaves the records. *)
ApplyMarkerToDispatches(pair, D, S) ==
    LET done == D \cup DispatchesFor(pair) IN
    /\ seen' = seen \cup {pair}
    /\ inflight' = inflight \ done
    /\ acks' = {a \in acks : a.req \notin done}
    /\ queue' = RemoveMessages(queue, S)

(* apply_delivery_convergence_marker *)
ApplyMarker(pair, D, S) ==
    LET done == D \cup DispatchesFor(pair) IN
    /\ seen' = seen \cup {pair}
    /\ inflight' = inflight \ done
    /\ acks' = {a \in acks : a.req \notin done}
    /\ queue' = RemoveMessages(queue, S \cup Held(pair))

(* The recipient's acceptance finalizes the record, then converges         *)
(* everything else about the message unless a marker was seen before.      *)
RecipientAck(a) ==
    LET p == a.req IN
    /\ a \in acks
    /\ a.ok
    /\ \/ /\ PairOf(p) \notin seen
          /\ ApplyMarker(PairOf(p), {p}, {p.cid})
       \/ /\ PairOf(p) \in seen
          /\ inflight' = inflight \ {p}
          /\ acks' = {b \in acks : b.req # p}
          /\ queue' = RemoveMessages(queue, {p.cid})
          /\ UNCHANGED seen
    /\ UNCHANGED <<now, reg, nextId, recent, connected, wire, faults, crashes,
                   historyVars>>

(* The node that publishes a marker does so when the recipient accepted    *)
(* the message; other nodes only pass a marker on that they applied.       *)
MarkerPublished(pair) == pair \in arrived

(* A convergence marker arrives by gossip.  It is ignored unless the       *)
(* message is tracked here and the marker is new.                          *)
ConvergenceMarker(pair) ==
    /\ MarkerPublished(pair)
    /\ Held(pair) # {} \/ DispatchesFor(pair) # {}
    /\ pair \notin seen
    /\ ApplyMarker(pair, {}, {})
    /\ UNCHANGED <<now, reg, nextId, recent, connected, wire, faults, crashes,
                   historyVars>>

-----------------------------------------------------------------------------
(* The recipient and the other relays (environment). *)

RecipientReceives(p) ==
    /\ p \in wire
    /\ wire' = wire \ {p}
    /\ arrived' = arrived \cup {PairOf(p)}
    /\ acks' = IF p \in inflight THEN acks \cup {[req |-> p, ok |-> TRUE]} ELSE acks
    /\ UNCHANGED <<now, reg, queue, nextId, inflight, recent, seen, connected,
                   faults, crashes, promised, purged, orphans, lapsed>>

(* The recipient has blocked the relay: accepted: false. *)
RecipientRefuses(p) ==
    /\ Fault
    /\ p \in wire
    /\ wire' = wire \ {p}
    /\ acks' = IF p \in inflight THEN acks \cup {[req |-> p, ok |-> FALSE]} ELSE acks
    /\ UNCHANGED <<now, reg, queue, nextId, inflight, recent, seen, connected,
                   crashes, historyVars>>

OtherRelayDelivers(pair) ==
    /\ pair \in promised \ arrived
    /\ arrived' = arrived \cup {pair}
    /\ UNCHANGED <<now, reg, queue, nextId, memoryVars, wire, faults, crashes,
                   promised, purged, orphans, lapsed>>

-----------------------------------------------------------------------------
(* Registrations: the registry is written first, then its side effect is   *)
(* applied to the queue record by record.                                  *)

(* The records a registration purges: those of the device taken over from. *)
RegisterPurge(i, d) ==
    LET r == Lookup(i) IN
    IF RegisterOk(i, d) /\ r.st = "active" /\ r.dev # d
    THEN DeviceMessages(i, r.dev) ELSE {}

(* The records a deregistration migrates to the target, or purges. *)
DeregisterEffect(i, f, t) ==
    IF DeregisterOk(i, f, t) /\ Lookup(i).st = "active"
    THEN IF t # NoDevice THEN DeviceMessages(i, f) ELSE IdentityMessages(i)
    ELSE {}

PurgeRecords(S) ==
    /\ queue' = RemoveMessages(queue, S)
    /\ purged' = purged \cup {PairOf(queue[c]) : c \in S}

(* The deregistration's side effect, for the records S it has reached. *)
HandOverOrPurge(t, S) ==
    \/ /\ t # NoDevice
       /\ queue' = MigrateIdentityDevice(queue, S, t)
       /\ UNCHANGED purged
    \/ /\ t = NoDevice
       /\ PurgeRecords(S)

(* A lookup that collapses a stale handover leaves the queue behind. *)
LapsedByLookup(i) == IF HandoverStale(i) THEN lapsed \cup {i} ELSE lapsed

(* An abandonment purges every record of the identity. *)
Abandons(i, f, t) == DeregisterOk(i, f, t) /\ Lookup(i).st = "active" /\ t = NoDevice

RegisterIdentity(i, d) ==
    /\ Register(i, d)
    /\ PurgeRecords(RegisterPurge(i, d))
    /\ lapsed' = LapsedByLookup(i)
    /\ UNCHANGED <<nextId, memoryVars, wire, faults, crashes, promised, arrived, orphans>>

DeregisterIdentity(i, f, t) ==
    /\ Deregister(i, f, t)
    /\ HandOverOrPurge(t, DeregisterEffect(i, f, t))
    /\ lapsed' = IF Abandons(i, f, t) THEN lapsed \ {i} ELSE LapsedByLookup(i)
    /\ UNCHANGED <<nextId, memoryVars, wire, faults, crashes, promised, arrived, orphans>>

(* Reads of the registry, and requests refused by custody enforcement. *)
ReadRegistration(i) ==
    /\ GetState(i)
    /\ lapsed' = LapsedByLookup(i)
    /\ UNCHANGED <<queue, nextId, memoryVars, wire, faults, crashes, promised,
                   arrived, purged, orphans>>

ClockTick ==
    /\ Tick
    /\ UNCHANGED <<queue, nextId, memoryVars, wire, faults, crashes, historyVars>>

-----------------------------------------------------------------------------
(* Crashes.  The process restarts with its persistent state and empty      *)
(* memory; requests already sent may still reach the recipient.            *)

Restart ==
    /\ crashes < MaxCrashes
    /\ crashes' = crashes + 1
    /\ inflight' = {} /\ recent' = {} /\ seen' = {} /\ connected' = {} /\ acks' = {}
    /\ wire' \in {wire, {}}
    /\ orphans' = orphans \cup {c \in DOMAIN queue : queue[c].state = "dispatching"}
    /\ UNCHANGED <<nextId, faults, promised, arrived>>

Crash ==
    /\ Restart
    /\ UNCHANGED <<now, reg, queue, purged, lapsed>>

(* A crash after the registry was written and before the side effect       *)
(* reached every record.                                                   *)
CrashInRegister(i, d) ==
    \E S \in SUBSET RegisterPurge(i, d) :
        /\ S # RegisterPurge(i, d)
        /\ Register(i, d)
        /\ PurgeRecords(S)
        /\ lapsed' = lapsed \cup {i}
        /\ Restart

CrashInDeregister(i, f, t) ==
    \E S \in SUBSET DeregisterEffect(i, f, t) :
        /\ S # DeregisterEffect(i, f, t)
        /\ Deregister(i, f, t)
        /\ HandOverOrPurge(t, S)
        /\ lapsed' = lapsed \cup {i}
        /\ Restart

-----------------------------------------------------------------------------

Init ==
    /\ RegistryInit
    /\ queue = [c \in {} |-> {}]
    /\ nextId = 1
    /\ inflight = {} /\ recent = {} /\ seen = {} /\ connected = {}
    /\ wire = {} /\ acks = {} /\ faults = 0 /\ crashes = 0
    /\ promised = {} /\ arrived = {} /\ purged = {} /\ orphans = {} /\ lapsed = {}

RelayRequest ==
    \E s \in Senders, d \in Destinations, m \in Messages,
       h \in Identities \cup Keys \cup {NoIdentity}, dv \in Devices \cup {NoDevice} :
        \/ SuppressDuplicate(s, d, m, h, dv)
        \/ AcceptExisting(s, d, m, h, dv)
        \/ /\ WritableNew(s, d, m, h, dv)
           /\ \E P \in PressurePurges : \/ AcceptNew(s, d, m, h, dv, P)
                                        \/ RefuseForPressure(s, d, m, h, dv, P)

Connections ==
    \/ \E d \in Destinations : ConnectionEstablished(d) \/ ConnectionClosed(d)
    \/ CustodyPullTick

Responses ==
    \/ \E a \in acks : RecipientAck(a) \/ RecipientRejected(a)
    \/ \E p \in inflight : OutboundFailure(p)
    \/ \E pair \in Pairs : ConvergenceMarker(pair)

Environment ==
    \/ \E p \in wire : RecipientReceives(p) \/ RecipientRefuses(p)
    \/ \E pair \in Pairs : OtherRelayDelivers(pair)
    \/ \E k \in recent : ForgetRecent(k)
    \/ ClockTick

Registrations ==
    \E i \in Identities :
        \/ \E d \in Devices : RegisterIdentity(i, d) \/ CrashInRegister(i, d)
        \/ \E f \in Devices, t \in Devices \cup {NoDevice} :
               DeregisterIdentity(i, f, t) \/ CrashInDeregister(i, f, t)
        \/ ReadRegistration(i)

Next == RelayRequest \/ Connections \/ Responses \/ Environment \/ Registrations \/ Crash

Spec == Init /\ [][Next]_vars

(***************************************************************************)
(* The pull timer fires every five seconds; a recipient eventually comes   *)
(* online and reads what was sent to it; the event loop serves the events  *)
(* that wait for it.  Nothing is assumed of senders, registrations,        *)
(* markers or faults.                                                      *)
(***************************************************************************)
Fairness ==
    /\ WF_vars(CustodyPullTick)
    /\ \A d \in Destinations : WF_vars(d \notin connected /\ ConnectionEstablished(d))
    /\ WF_vars(\E p \in wire : RecipientReceives(p))
    /\ WF_vars(\E a \in acks : RecipientAck(a) \/ RecipientRejected(a))

FairSpec == Spec /\ Fairness

-----------------------------------------------------------------------------

(* Types: the queue holds complete custody records only, and what is in    *)
(* flight, on the wire or on its way back is about real dispatches.        *)
TypeOK ==
    /\ RegistryTypeOK
    /\ DOMAIN queue \subseteq Nat /\ queue \in [DOMAIN queue -> CustodyMessage]
    /\ nextId \in Nat /\ faults \in Nat /\ crashes \in Nat
    /\ inflight \subseteq Dispatch /\ wire \subseteq Dispatch
    /\ acks \subseteq [req : Dispatch, ok : BOOLEAN]
    /\ recent \subseteq Senders \X Destinations \X Messages
    /\ connected \subseteq Destinations
    /\ seen \subseteq Pairs /\ promised \subseteq Pairs /\ arrived \subseteq Pairs
    /\ purged \subseteq Pairs /\ orphans \subseteq Nat /\ lapsed \subseteq Identities

(* A message is in custody at most once per destination, although senders  *)
(* resend, the duplicate window forgets, and a restart empties it          *)
(* (accept_custody's find_existing is what guards it).                     *)
UniqueCustody ==
    \A c, e \in DOMAIN queue : PairOf(queue[c]) = PairOf(queue[e]) => c = e

(* The queue and the table of outbound requests agree: a dispatch in       *)
(* flight is the latest attempt of a record that is Dispatching, or its    *)
(* record is gone; a record is in flight at most once; and a Dispatching   *)
(* record without a dispatch was left behind by a crash.                   *)
InflightMatchesQueue ==
    /\ \A p \in inflight :
          p.cid \in DOMAIN queue =>
             /\ queue[p.cid].state = "dispatching"
             /\ queue[p.cid].attempts = p.attempt
             /\ PairOf(queue[p.cid]) = PairOf(p)
    /\ \A p, r \in inflight : p.cid = r.cid => p = r
    /\ \A c \in DOMAIN queue :
          queue[c].state = "dispatching" => c \in orphans \/ \E p \in inflight : p.cid = c

(* No record is sent to its recipient more often than the limit allows,    *)
(* whatever mixture of failures, refusals, reconnects and crashes it sees. *)
AttemptsBounded ==
    /\ \A c \in DOMAIN queue : queue[c].attempts <= MAX_DELIVERY_ATTEMPTS
    /\ \A p \in inflight \cup wire : p.attempt <= MAX_DELIVERY_ATTEMPTS

(* Custody is not lost silently: a message whose sender was told           *)
(* accepted: true is still held, or it reached its recipient, or the audit *)
(* log has a purge of it.  Crashes, markers and late responses included.   *)
NoSilentLoss ==
    \A pair \in promised : Held(pair) # {} \/ pair \in arrived \/ pair \in purged

(* A record that names a device names the one the registry would deliver   *)
(* to now: the active device or the handover target.  Not so for           *)
(* identities whose handover went stale (the collapse does not touch the   *)
(* queue) or whose migration or purge a crash cut short.                   *)
DeviceMatchesRegistry ==
    \A c \in DOMAIN queue :
        LET r == queue[c] IN
        (r.identity \in Identities \ lapsed /\ r.device # NoDevice) =>
            \/ reg[r.identity].st = "active" /\ r.device = reg[r.identity].dev
            \/ reg[r.identity].st = "handover" /\ r.device = reg[r.identity].to

(* The in-flight cap holds across all pulls, whichever triggered them. *)
InflightBounded == Cardinality(inflight) <= RELAY_MAX_INFLIGHT_DISPATCHES

(* A destination's queue is bounded although the acceptance check counts   *)
(* Accepted records only: records in flight and records orphaned by        *)
(* crashes come on top.                                                    *)
QueueBounded ==
    \A d \in Destinations :
        Cardinality({c \in DOMAIN queue : queue[c].dest = d})
            <= MAX_PENDING_PER_DESTINATION + RELAY_MAX_INFLIGHT_DISPATCHES - 1
               + Cardinality(orphans \cap DOMAIN queue)

(* The durable queue and the dispatches in memory agree and stay within    *)
(* their limits, through every mixture of resends, failures, refusals,     *)
(* disconnects, purges, markers and crashes.                               *)
CustodyConsistent ==
    /\ UniqueCustody /\ InflightMatchesQueue
    /\ AttemptsBounded /\ InflightBounded /\ QueueBounded

(* When a delivery is first learned of, by acknowledgement or by marker,   *)
(* nothing of the message stays behind to be sent again.                   *)
ConvergenceComplete ==
    [][\A pair \in seen' \ seen : Held(pair)' = {} /\ DispatchesFor(pair)' = {}]_vars

(* Store and forward: a message in custody eventually reaches its          *)
(* recipient, or is purged on the record.                                  *)
EventuallyForwarded ==
    \A pair \in Pairs : (pair \in promised) ~> (pair \in arrived \/ pair \in purged)

(* The periodic pull reaches everyone: a record that was never sent is     *)
(* eventually sent to its recipient, or leaves the queue.                  *)
PendingEventuallyTried ==
    \A c \in 1 .. MaxCustody :
        (c \in DOMAIN queue /\ queue[c].attempts = 0)
            ~> (c \notin DOMAIN queue \/ queue[c].attempts > 0)

-----------------------------------------------------------------------------
(* The service this relay implements. *)

CustodyStatus ==
    [pair \in Pairs |->
        IF pair \in arrived THEN "delivered"
        ELSE IF Held(pair) # {} THEN "held"
        ELSE IF pair \in purged THEN "dropped"
        ELSE "unknown"]

Service == INSTANCE CustodyService WITH status <- CustodyStatus

(* The relay implements the custody service: through every interleaving    *)
(* and crash a message goes from held only to delivered or to dropped on   *)
(* the record, and what is delivered was held before.                      *)
ImplementsService == Service!Spec
=============================================================================
