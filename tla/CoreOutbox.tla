----------------------------- MODULE CoreOutbox -----------------------------
(***************************************************************************)
(* What IronCore keeps of the messages it has prepared: the in-memory      *)
(* outbox, and the drift store that takes a message over when the routing  *)
(* engine knows no route.  A message leaves them when a caller marks it    *)
(* sent, when the queue of a peer is flushed or purged, when maintenance   *)
(* expires it, when the drift store overflows, or with the process.        *)
(*                                                                         *)
(* The outbox files a message under the recipient's public key, the string *)
(* prepare_message is given; the callers that flush or purge a queue pass  *)
(* the recipient's libp2p peer id or its identity id.  The three names are *)
(* kept apart here as the strings are in the code.                         *)
(***************************************************************************)
EXTENDS Integers, Sequences, FiniteSets, SequencesExt, FiniteSetsExt

CONSTANTS
    Recipients,             \* the peers messages are prepared for
    MAX_QUEUE_PER_PEER,
    MAX_TOTAL_QUEUED,
    DRIFT_MAX_MESSAGES,     \* MAX_MESSAGES of the drift store
    OUTBOX_MAX_AGE,         \* seconds: the 7 days perform_maintenance passes
    MILLIS_PER_SEC,                 \* milliseconds in a second
    OutboxStart,            \* the wall clock, in seconds, when the node starts
    MaxOutboxNow,           \* bound on that clock
    MaxPrepared,            \* bound on the messages prepared
    MaxOutboxRestarts             \* bound on the restarts

ASSUME OutboxAssumption ==
    /\ {MAX_QUEUE_PER_PEER, MAX_TOTAL_QUEUED, DRIFT_MAX_MESSAGES,
        OUTBOX_MAX_AGE, MILLIS_PER_SEC, OutboxStart} \subseteq Nat \ {0}
    /\ {MaxOutboxNow, MaxPrepared, MaxOutboxRestarts} \subseteq Nat
    \* the clock never reads more seconds than the milliseconds it started at
    /\ MaxOutboxNow < OutboxStart * MILLIS_PER_SEC

VARIABLES
    outQueues,        \* Outbox: a FIFO of queued messages per name
    outTotal,         \* Outbox: the counter kept beside the queues
    driftCustody,  \* the envelopes of the drift store: [id, createdAt]
    outboxNow,     \* the wall clock, in seconds
    outPrepared,      \* ids handed out by prepare_message so far: 1..prepared
    outMarked,        \* ids mark_message_sent was called with
    outMaintained,    \* when maintenance last ran, in seconds (ghost)
    outRestarts

outboxVars == <<outQueues, outTotal, driftCustody, outboxNow, outPrepared, outMarked,
                outMaintained, outRestarts>>

\* The three strings that name one peer.
PublicKey(p)  == <<"public key", p>>
PeerId(p)     == <<"peer id", p>>
IdentityId(p) == <<"identity id", p>>
OutNames == UNION {{PublicKey(p), PeerId(p), IdentityId(p)} : p \in Recipients}

QueuedMessage  == [id : 1..MaxPrepared, queuedAt : Nat]
StoredEnvelope == [id : 1..MaxPrepared, createdAt : Nat]

EnvelopeIds(s)       == {m.id : m \in s}
QueuedIds(n) == EnvelopeIds(Range(outQueues[n]))
AllQueued    == UNION {QueuedIds(n) : n \in OutNames}

OutboxInit ==
    /\ outQueues = [n \in OutNames |-> <<>>]
    /\ outTotal = 0
    /\ driftCustody = {}
    /\ outboxNow = OutboxStart
    /\ outPrepared = 0
    /\ outMarked = {}
    /\ outMaintained = 0
    /\ outRestarts = 0

-----------------------------------------------------------------------------
(* Outbox::enqueue, its refusals included: the message is stamped with the   *)
(* time in milliseconds.                                                     *)
Enqueue(n, id) ==
    IF outTotal < MAX_TOTAL_QUEUED /\ Len(outQueues[n]) < MAX_QUEUE_PER_PEER
      THEN /\ outQueues' = [outQueues EXCEPT ![n] =
                            Append(@, [id |-> id, queuedAt |-> outboxNow * MILLIS_PER_SEC])]
           /\ outTotal' = outTotal + 1
      ELSE UNCHANGED <<outQueues, outTotal>>

(* prepare_message when a route is known, or no routing engine is: the       *)
(* caller is told Ok whether or not the outbox took the message.             *)
PrepareQueued(p) ==
    /\ outPrepared < MaxPrepared
    /\ outPrepared' = outPrepared + 1
    /\ Enqueue(PublicKey(p), outPrepared + 1)
    /\ UNCHANGED <<driftCustody, outboxNow, outMarked, outMaintained, outRestarts>>

(* Mutant: the caller's refusal also queues the message.                     *)
PrepareCarriedQueued ==
    /\ outPrepared < MaxPrepared
    /\ outPrepared' = outPrepared + 1
    /\ driftCustody' = driftCustody \cup {[id |-> outPrepared + 1, createdAt |-> outboxNow]}
    /\ \E p \in Recipients : Enqueue(PublicKey(p), outPrepared + 1)
    /\ UNCHANGED <<outboxNow, outMarked, outMaintained, outRestarts>>

(* MeshStore::insert of an envelope of ours: all have the same priority, no  *)
(* hop and the same lifetime, so the lowest score is one of the oldest.      *)
AfterEviction(s) ==
    IF Cardinality(s) <= DRIFT_MAX_MESSAGES
      THEN {s}
      ELSE {s \ {e} : e \in {o \in s : \A x \in s : o.createdAt <= x.createdAt}}

(* prepare_message when the routing engine decides StoreAndCarry.            *)
PrepareCarried ==
    /\ outPrepared < MaxPrepared
    /\ outPrepared' = outPrepared + 1
    /\ driftCustody' \in
          AfterEviction(driftCustody \cup {[id |-> outPrepared + 1, createdAt |-> outboxNow]})
    /\ UNCHANGED <<outQueues, outTotal, outboxNow, outMarked, outMaintained, outRestarts>>

WithoutId(q, id) ==
    LET at == {i \in DOMAIN q : q[i].id = id}
    IN  IF at = {} THEN q ELSE RemoveAt(q, Min(at))

(* mark_message_sent: out of the outbox and out of drift custody.            *)
MarkMessageSent(id) ==
    /\ outQueues' = [n \in OutNames |-> WithoutId(outQueues[n], id)]
    /\ outTotal' = IF id \in AllQueued THEN outTotal - 1 ELSE outTotal
    /\ driftCustody' = {e \in driftCustody : e.id # id}
    /\ outMarked' = outMarked \cup {id}
    /\ UNCHANGED <<outboxNow, outPrepared, outMaintained, outRestarts>>

(* Outbox::drain_for_peer under the given name.                              *)
DrainForPeer(n) ==
    /\ outQueues' = [outQueues EXCEPT ![n] = <<>>]
    /\ outTotal' = outTotal - Len(outQueues[n])
    /\ UNCHANGED <<driftCustody, outboxNow, outPrepared, outMarked, outMaintained, outRestarts>>

(* The browser's PeerDiscovered handler flushes under the libp2p peer id;    *)
(* block_and_delete_peer purges under the identity id.                       *)
FlushOnDiscovery(p) == DrainForPeer(PeerId(p))
PurgeOnDelete(p)    == DrainForPeer(IdentityId(p))

AgeOf(a, b) == IF a > b THEN a - b ELSE 0

(* Mutant: the clock is read in milliseconds, the limit is left in seconds.  *)
UnexpiredInMillis(m) == AgeOf(outboxNow * MILLIS_PER_SEC, m.queuedAt) < OUTBOX_MAX_AGE

(* The clock is in seconds, the stamp in milliseconds.                       *)
Unexpired(m) == AgeOf(outboxNow, m.queuedAt) < OUTBOX_MAX_AGE

(* Outbox::remove_expired, called by perform_maintenance.                    *)
RemoveExpired ==
    LET kept    == [n \in OutNames |-> SelectSeq(outQueues[n], Unexpired)]
        removed ==
                FoldSet(LAMBDA n, acc : acc + Len(outQueues[n]) - Len(kept[n]), 0, OutNames)
    IN  /\ outQueues' = kept
        /\ outTotal' = outTotal - removed
        /\ outMaintained' = outboxNow
        /\ UNCHANGED <<driftCustody, outboxNow, outPrepared, outMarked, outRestarts>>

OutboxTick ==
    /\ outboxNow < MaxOutboxNow
    /\ outboxNow' = outboxNow + 1
    /\ UNCHANGED <<outQueues, outTotal, driftCustody, outPrepared, outMarked, outMaintained, outRestarts>>

(* The process restarts: every constructor of IronCore makes an empty        *)
(* in-memory outbox and an empty drift store.                                *)
OutboxRestart ==
    /\ outRestarts < MaxOutboxRestarts
    /\ outRestarts' = outRestarts + 1
    /\ outQueues' = [n \in OutNames |-> <<>>]
    /\ outTotal' = 0
    /\ driftCustody' = {}
    /\ UNCHANGED <<outboxNow, outPrepared, outMarked, outMaintained>>

OutboxNext ==
    \/ \E p \in Recipients : PrepareQueued(p) \/ FlushOnDiscovery(p) \/ PurgeOnDelete(p)
    \/ PrepareCarried
    \/ \E id \in 1..outPrepared : MarkMessageSent(id)
    \/ RemoveExpired
    \/ OutboxTick
    \/ OutboxRestart

OutboxSpec == OutboxInit /\ [][OutboxNext]_outboxVars

-----------------------------------------------------------------------------
OutboxTypeOK ==
    /\ outQueues \in [OutNames -> Seq(QueuedMessage)]
    /\ outTotal \in Nat
    /\ driftCustody \subseteq StoredEnvelope
    /\ outPrepared \in 0..MaxPrepared
    /\ outboxNow \in OutboxStart..MaxOutboxNow
    /\ outMarked \subseteq 1..outPrepared
    /\ outMaintained \in 0..outboxNow
    /\ outRestarts \in 0..MaxOutboxRestarts

(* The counter that decides whether the outbox is full agrees with the       *)
(* queues after any mix of enqueues, removals, drains and expiries, and      *)
(* neither the counter nor a queue passes its limit.                         *)
OutboxTotalExact ==
    /\ outTotal = FoldSet(LAMBDA n, acc : acc + Len(outQueues[n]), 0, OutNames)
    /\ outTotal <= MAX_TOTAL_QUEUED
    /\ \A n \in OutNames : Len(outQueues[n]) <= MAX_QUEUE_PER_PEER

(* Single ownership of a prepared message: it is in the outbox once or in    *)
(* drift custody, never in both, and in neither once it was marked sent.     *)
SingleOwner ==
    /\ AllQueued \cap EnvelopeIds(driftCustody) = {}
    /\ (AllQueued \cup EnvelopeIds(driftCustody)) \cap outMarked = {}
    /\ Cardinality(AllQueued) = outTotal

(* The seconds since message m was queued.                                   *)
SecondsQueued(m, t) == t - m.queuedAt \div MILLIS_PER_SEC

(* While the process lives, a message leaves the outbox because it was       *)
(* marked sent, because its whole queue was flushed or purged, or in         *)
(* maintenance once it is older than the limit, never for another peer's     *)
(* flush, another message's mark or too early.                               *)
LeavesForAReason ==
    outRestarts' = outRestarts =>
        \A n \in OutNames : \A m \in Range(outQueues[n]) :
            \/ m.id \in AllQueued' \cup outMarked'
            \/ outQueues' = [outQueues EXCEPT ![n] = <<>>]
            \/ SecondsQueued(m, outboxNow) >= OUTBOX_MAX_AGE

(* The outbox through prepares, flushes, expiries and restarts: the        *)
(* counter is exact, a message has one owner, and it leaves only for a     *)
(* reason of its own.                                                      *)
OutboxSound ==
    [][UNCHANGED outboxVars \/ ((OutboxTotalExact /\ SingleOwner)' /\ LeavesForAReason)]_outboxVars

(* What the comment on remove_expired says: maintenance removes the        *)
(* messages older than max_age_secs, so none that was too old when it ran  *)
(* is queued after it.                                                     *)
ExpiredRemoved ==
    \A n \in OutNames : \A m \in Range(outQueues[n]) :
        SecondsQueued(m, outMaintained) < OUTBOX_MAX_AGE
=============================================================================
