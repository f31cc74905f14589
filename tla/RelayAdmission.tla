--------------------------- MODULE RelayAdmission ---------------------------
(***************************************************************************)
(* Which relay requests a relay admits (RelayAbuseGuardrails and the Relay *)
(* request handler of core/src/transport/swarm.rs): the hourly budget, the *)
(* token bucket of each peer and the window of recent duplicates, each a   *)
(* table of bounded size.  RelayCustody models what happens to a request   *)
(* that is admitted.                                                       *)
(*                                                                         *)
(* Tokens are counted in units, COST of them to a token, so that the       *)
(* fractional refills of the code are exact; a multiplier is the number of *)
(* units the peer's reputation lets into the bucket per unit of burst or   *)
(* refill.                                                                 *)
(***************************************************************************)
EXTENDS Integers, FiniteSets

CONSTANTS
    SourcePeers,                     \* source peers
    Messages,                        \* destination and relay_message_id
    Multipliers,                     \* values of peer_rate_limit_multiplier
    TopMultiplier,                   \* the largest of them
    COST,                            \* units in a token
    RELAY_PEER_BUCKET_BURST_CAPACITY,
    RELAY_PEER_BUCKET_REFILL,        \* refill per tick of the clock
    RELAY_PEER_BUCKET_MAX_TRACKED,
    BUCKET_IDLE,                     \* a bucket untouched for longer is dropped
    RELAY_DUPLICATE_WINDOW,
    RELAY_MAX_TRACKED_DUPLICATES,
    HOUR,                            \* length of a budget window
    RelayBudgets,                    \* values SetRelayBudgetCommand may set; 0 is no limit
    TopBudget,                       \* the largest of them
    MaxGuardNow                      \* bound on the clock

ASSUME AdmissionAssumption ==
    /\ Multipliers \subseteq Nat \ {0} /\ TopMultiplier \in Multipliers
    /\ \A x \in Multipliers : x <= TopMultiplier
    /\ RelayBudgets \subseteq Nat /\ TopBudget \in RelayBudgets
    /\ \A b \in RelayBudgets : b <= TopBudget
    /\ COST \in Nat \ {0} /\ HOUR \in Nat \ {0} /\ MaxGuardNow \in Nat
    /\ RELAY_PEER_BUCKET_BURST_CAPACITY \in Nat \ {0}
    /\ RELAY_PEER_BUCKET_REFILL \in Nat \ {0}
    /\ RELAY_PEER_BUCKET_MAX_TRACKED \in Nat \ {0}
    /\ RELAY_DUPLICATE_WINDOW \in Nat
    /\ RELAY_MAX_TRACKED_DUPLICATES \in Nat \ {0}
    \* an idle bucket has refilled before it is dropped
    /\ BUCKET_IDLE \in Nat
    /\ RELAY_PEER_BUCKET_REFILL * BUCKET_IDLE >= RELAY_PEER_BUCKET_BURST_CAPACITY

VARIABLES
    guardNow,
    buckets,     \* per_peer_buckets: peer -> tokens and time of the last refill
    recent,      \* recent_duplicates: <<peer, message>> -> time it was accepted
    hourlyBudget, \* relay_budget
    count,       \* relay_count_this_hour
    hourStart,   \* relay_hour_start
    \* observation
    meter,       \* an interval of observation, of one peer and of all of them
    fresh,       \* <<peer, message>> -> time it was last accepted as new
    evicted      \* requests forgotten because the duplicate table was full

admissionVars == <<guardNow, buckets, recent, hourlyBudget, count, hourStart, meter, fresh, evicted>>

RequestKeys == SourcePeers \X Messages

(* What a request meets outside this module, if anything, in the order the *)
(* handler looks: its own shape, the in-flight cap, the sender's spam      *)
(* score, its destination, custody enforcement, the store.                 *)
Obstacles == {"none", "shape", "inflight", "spam", "destination", "custody", "store"}

-----------------------------------------------------------------------------
(* The tables *)

Capacity(mult) == RELAY_PEER_BUCKET_BURST_CAPACITY * mult

(* The functions that remain when f loses its oldest entry by the times    *)
(* at, whichever it is if there are several.                               *)
WithoutOldest(f, at) ==
    {[k \in DOMAIN f \ {o} |-> f[k]] :
        o \in {o \in DOMAIN f : \A k \in DOMAIN f : at[o] <= at[k]}}

PrunePeerBuckets ==
    LET live == {p \in DOMAIN buckets : guardNow - buckets[p].last <= BUCKET_IDLE}
        kept == [p \in live |-> buckets[p]]
    IN  IF Cardinality(live) > RELAY_PEER_BUCKET_MAX_TRACKED
        THEN WithoutOldest(kept, [p \in live |-> buckets[p].last]) ELSE {kept}

(* Mutant: the refill is not capped. *)
RefilledUncapped(b, mult) ==
    IF guardNow > b.last
    THEN [tokens |-> b.tokens + (guardNow - b.last) * RELAY_PEER_BUCKET_REFILL * mult,
          last |-> guardNow]
    ELSE b

(* The bucket b of a peer after the refill that precedes a withdrawal. *)
Refilled(b, mult) ==
    LET sum == b.tokens + (guardNow - b.last) * RELAY_PEER_BUCKET_REFILL * mult IN
    IF guardNow > b.last
    THEN [tokens |-> IF sum <= Capacity(mult) THEN sum ELSE Capacity(mult), last |-> guardNow]
    ELSE b

(* The bucket consume_peer_token finds or creates in the pruned table. *)
BucketFor(table, p, mult) ==
    IF p \in DOMAIN table THEN Refilled(table[p], mult)
    ELSE [tokens |-> Capacity(mult), last |-> guardNow]
CanPay(b) == b.tokens >= COST

PutBucket(table, p, b) ==
    [x \in DOMAIN table \cup {p} |-> IF x = p THEN b ELSE table[x]]

PruneDuplicateWindow ==
    LET live == {k \in DOMAIN recent : guardNow - recent[k] <= RELAY_DUPLICATE_WINDOW} IN
    [k \in live |-> recent[k]]

(* Mutant: the table is not trimmed. *)
RecordAcceptedUntrimmed(k) ==
    {[x \in DOMAIN PruneDuplicateWindow \cup {k} |->
        IF x = k THEN guardNow ELSE PruneDuplicateWindow[x]]}

(* Mutant: accepting a message starts the window afresh for all. *)
RecordAcceptedAlone(k) == {[x \in {k} |-> guardNow]}

RecordAccepted(k) ==
    LET kept == PruneDuplicateWindow
        put == [x \in DOMAIN kept \cup {k} |-> IF x = k THEN guardNow ELSE kept[x]]
    IN  IF Cardinality(DOMAIN put) > RELAY_MAX_TRACKED_DUPLICATES
        THEN WithoutOldest(put, put) ELSE {put}

-----------------------------------------------------------------------------
(* The handler *)

AdmissionInit ==
    /\ guardNow = 0 /\ hourStart = 0 /\ count = 0
    /\ hourlyBudget = TopBudget
    /\ buckets = [p \in {} |-> {}]
    /\ recent = [k \in {} |-> 0]
    /\ meter \in [peer : SourcePeers, start : {0}, spent : {0}, total : {0}]
    /\ fresh = [k \in {} |-> 0]
    /\ evicted = {}

HourOver == guardNow - hourStart >= HOUR

(* The counter after the hourly reset that precedes every request. *)
Counted == IF HourOver THEN 0 ELSE count

StartHour == hourStart' = IF HourOver THEN guardNow ELSE hourStart

OverBudget == hourlyBudget > 0 /\ Counted >= hourlyBudget

(* Refused before the sender's bucket is looked at. *)
RefuseEarly(obstacle) ==
    /\ obstacle \in {"shape", "inflight", "spam"} \/ OverBudget
    /\ StartHour
    /\ count' = Counted
    /\ UNCHANGED <<guardNow, buckets, recent, hourlyBudget, meter, fresh, evicted>>

RateLimit(p, mult, obstacle) ==
    \E table \in PrunePeerBuckets :
        /\ obstacle \notin {"shape", "inflight", "spam"} /\ ~OverBudget
        /\ ~CanPay(BucketFor(table, p, mult))
        /\ buckets' = PutBucket(table, p, BucketFor(table, p, mult))
        /\ StartHour
        /\ count' = Counted
        /\ UNCHANGED <<guardNow, recent, hourlyBudget, meter, fresh, evicted>>

(* A token is taken and the request counted, whatever comes of it. *)
Charge(p, mult, obstacle) ==
    \E table \in PrunePeerBuckets :
        LET b == BucketFor(table, p, mult) IN
        /\ obstacle \notin {"shape", "inflight", "spam"} /\ ~OverBudget
        /\ CanPay(b)
        /\ buckets' = PutBucket(table, p, [b EXCEPT !.tokens = @ - COST])
        /\ StartHour
        /\ count' = Counted + 1
        /\ meter' = [meter EXCEPT !.total = @ + 1,
                                  !.spent = IF p = meter.peer THEN @ + 1 ELSE @]
        /\ UNCHANGED <<guardNow, hourlyBudget>>

RefuseLate(p, mult, obstacle) ==
    /\ obstacle \in {"destination", "custody"}
    /\ Charge(p, mult, obstacle)
    /\ UNCHANGED <<recent, fresh, evicted>>

ConfirmDuplicate(p, m, mult, obstacle) ==
    /\ obstacle \in {"none", "store"}
    /\ <<p, m>> \in DOMAIN PruneDuplicateWindow
    /\ Charge(p, mult, obstacle)
    /\ recent' = PruneDuplicateWindow
    /\ UNCHANGED <<fresh, evicted>>

RefuseByStore(p, m, mult) ==
    /\ <<p, m>> \notin DOMAIN PruneDuplicateWindow
    /\ Charge(p, mult, "store")
    /\ recent' = PruneDuplicateWindow
    /\ UNCHANGED <<fresh, evicted>>

AcceptFresh(p, m, mult) ==
    LET k == <<p, m>> IN
    /\ k \notin DOMAIN PruneDuplicateWindow
    /\ Charge(p, mult, "none")
    /\ recent' \in RecordAccepted(k)
    /\ fresh' = [x \in DOMAIN fresh \cup {k} |-> IF x = k THEN guardNow ELSE fresh[x]]
    /\ LET all == DOMAIN PruneDuplicateWindow \cup {k} IN
       evicted' = (evicted \ {k}) \cup
                     IF Cardinality(all) > RELAY_MAX_TRACKED_DUPLICATES
                     THEN all \ DOMAIN recent' ELSE {}

SetRelayBudgetCommand(b) ==
    /\ b \in RelayBudgets \ {hourlyBudget}
    /\ hourlyBudget' = b
    /\ UNCHANGED <<guardNow, buckets, recent, count, hourStart, meter, fresh, evicted>>

GuardTick ==
    /\ guardNow < MaxGuardNow
    /\ guardNow' = guardNow + 1
    /\ UNCHANGED <<buckets, recent, hourlyBudget, count, hourStart, meter, fresh, evicted>>

(* An observer starts to count at any time. *)
StartMeter(p) ==
    /\ meter' = [peer |-> p, start |-> guardNow, spent |-> 0, total |-> 0]
    /\ UNCHANGED <<guardNow, buckets, recent, hourlyBudget, count, hourStart, fresh, evicted>>

HandleRelayRequest ==
    \E obstacle \in Obstacles :
      \/ RefuseEarly(obstacle)
      \/ \E p \in SourcePeers, m \in Messages, mult \in Multipliers :
        \/ RateLimit(p, mult, obstacle)
        \/ RefuseLate(p, mult, obstacle)
        \/ ConfirmDuplicate(p, m, mult, obstacle)
        \/ obstacle = "store" /\ RefuseByStore(p, m, mult)
        \/ obstacle = "none" /\ AcceptFresh(p, m, mult)

AdmissionNext ==
    \/ HandleRelayRequest
    \/ \E b \in RelayBudgets : SetRelayBudgetCommand(b)
    \/ GuardTick
    \/ \E p \in SourcePeers : StartMeter(p)

AdmissionSpec == AdmissionInit /\ [][AdmissionNext]_admissionVars

-----------------------------------------------------------------------------

(* Types: in particular no bucket is ever overdrawn. *)
AdmissionTypeOK ==
    /\ guardNow \in Nat /\ count \in Nat /\ hourStart \in Nat
    /\ hourlyBudget \in RelayBudgets
    /\ DOMAIN buckets \subseteq SourcePeers
    /\ buckets \in [DOMAIN buckets -> [tokens : Nat, last : Nat]]
    /\ DOMAIN recent \subseteq RequestKeys /\ recent \in [DOMAIN recent -> Nat]
    /\ DOMAIN fresh \subseteq RequestKeys /\ fresh \in [DOMAIN fresh -> Nat]
    /\ meter \in [peer : SourcePeers, start : Nat, spent : Nat, total : Nat]
    /\ evicted \subseteq RequestKeys

(* In any interval, whenever it starts, a peer is charged no more than a   *)
(* full bucket and what the best multiplier refills in that time, although *)
(* its multiplier changes and idle buckets are dropped and recreated full. *)
(* (While there are no more peers than the table tracks: a bucket evicted  *)
(* for room starts full again.)                                            *)
RateBounded ==
    COST * meter.spent <=
        TopMultiplier * (RELAY_PEER_BUCKET_BURST_CAPACITY
                            + RELAY_PEER_BUCKET_REFILL * (guardNow - meter.start))

(* In any interval shorter than an hour no more than two budgets' worth of *)
(* requests are charged: the interval meets at most two of the windows,    *)
(* which start with the first request after the last one ended.            *)
HourBounded ==
    0 \notin RelayBudgets /\ guardNow - meter.start < HOUR => meter.total <= 2 * TopBudget

(* The tables stay within their limits; buckets are trimmed before a new   *)
(* one is added, so there may be one more.                                 *)
TablesBounded ==
    /\ Cardinality(DOMAIN buckets) <= RELAY_PEER_BUCKET_MAX_TRACKED + 1
    /\ Cardinality(DOMAIN recent) <= RELAY_MAX_TRACKED_DUPLICATES

(* A request accepted as new is known as a duplicate for the whole window, *)
(* unless the table ran out of room: nothing else forgets it.              *)
WindowComplete ==
    \A k \in DOMAIN fresh :
        (guardNow - fresh[k] <= RELAY_DUPLICATE_WINDOW /\ k \notin evicted) =>
            k \in DOMAIN recent /\ recent[k] = fresh[k]

(* The guards of relay requests together: the rate of a peer, the hourly   *)
(* budget, the sizes of the tables and the window of duplicates, while     *)
(* idle buckets are dropped and the budget changes.                        *)
AdmissionSound ==
    RateBounded /\ HourBounded /\ TablesBounded /\ WindowComplete
=============================================================================
