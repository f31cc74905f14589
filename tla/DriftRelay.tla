----------------------------- MODULE DriftRelay -----------------------------
(***************************************************************************)
(* Drift: the sketch two stores are compared with, and the exchange and    *)
(* relaying of envelopes.                                                  *)
(***************************************************************************)
EXTENDS Naturals, FiniteSets, FiniteSetsExt, Integers, Sequences, SequencesExt

-----------------------------------------------------------------------------
(***************************************************************************)
(* The sketch two mesh nodes compare their stores with (drift/sketch.rs):  *)
(* an invertible Bloom lookup table.  A key is a set of bits, so that XOR  *)
(* is symmetric difference.  The hash functions are arbitrary: where a key *)
(* goes is chosen when it is first needed and is then remembered.          *)
(***************************************************************************)
CONSTANTS
    KeyBits,         \* the bits of a key
    CheckBits,       \* those of its first four bytes
    SketchCells,     \* num_cells
    HashCount,       \* HASH_COUNT
    CountWrap,       \* 256: a count is sent as one byte
    MaxSketched      \* bound on the keys of the two sides

VARIABLES
    mine, theirs,  \* the keys inserted on the two sides
    place,         \* where the hash functions put each key met so far
    cells,         \* our table, then the subtracted one as decode peels it
    peerCells,     \* the table of the peer, before it is sent
    aliceOnly, bobOnly, iterations,
    decoding       \* "insert", "peel", "ok" or "failed"

sketchVars == <<mine, theirs, place, cells, peerCells, aliceOnly, bobOnly, iterations, decoding>>

SketchKeys == SUBSET KeyBits
CellIds == 0 .. SketchCells - 1
Hashes == 0 .. HashCount - 1
Unplaced == [i \in Hashes |-> SketchCells]

EmptyCell == [count |-> 0, keySum |-> {}, keyCheck |-> {}]

Xor(a, b) == (a \ b) \cup (b \ a)

SketchTypeOK ==
    /\ mine \subseteq SketchKeys /\ theirs \subseteq SketchKeys
    /\ place \in [SketchKeys -> [Hashes -> 0 .. SketchCells]]
    /\ \A c \in CellIds : cells[c].count \in Int /\ cells[c].keySum \in SketchKeys
    /\ aliceOnly \in Seq(SketchKeys) /\ bobOnly \in Seq(SketchKeys) /\ iterations \in Nat
    /\ decoding \in {"insert", "peel", "ok", "failed"}

SketchInit ==
    /\ mine \in SUBSET SketchKeys /\ theirs \in SUBSET SketchKeys
    /\ Cardinality(mine \cup theirs) <= MaxSketched
    /\ place = [k \in SketchKeys |-> Unplaced]
    /\ cells = [c \in CellIds |-> EmptyCell] /\ peerCells = cells
    /\ aliceOnly = <<>> /\ bobOnly = <<>> /\ iterations = 0 /\ decoding = "insert"

-----------------------------------------------------------------------------
(* The key's first four bytes, and not a hash of the key.                  *)
KeyCheck(k) == k \cap CheckBits

(* How often the hash functions p put a key into cell c.                   *)
Hits(p, c) == Cardinality({i \in Hashes : p[i] = c})

(* xor_in: an even number of times leaves the sums as they were.           *)
XorIn(cell, k, times) ==
    IF times % 2 = 0 THEN cell
    ELSE [cell EXCEPT !.keySum = Xor(@, k), !.keyCheck = Xor(@, KeyCheck(k))]

(* IBLT::insert and remove, with sign 1 and -1.                            *)
Added(table, k, p, sign) ==
    [c \in CellIds |-> [XorIn(table[c], k, Hits(p, c)) EXCEPT !.count = @ + sign * Hits(p, c)]]

(* Hash functions that agree with what is known of k's cells.              *)
Placements(k) == IF place[k] = Unplaced THEN [Hashes -> CellIds] ELSE {place[k]}

(* The two tables, built key by key.                                       *)
InsertKey(k) ==
    /\ decoding = "insert" /\ k \in mine \cup theirs /\ place[k] = Unplaced
    /\ \E p \in Placements(k) :
         /\ place' = [place EXCEPT ![k] = p]
         /\ cells' = IF k \in mine THEN Added(cells, k, p, 1) ELSE cells
         /\ peerCells' = IF k \in theirs THEN Added(peerCells, k, p, 1) ELSE peerCells
    /\ UNCHANGED <<mine, theirs, aliceOnly, bobOnly, iterations, decoding>>

(* to_bytes and from_bytes: of a count the last byte arrives.              *)
FromBytes(cell) == [cell EXCEPT !.count = @ % CountWrap]

(* subtract of the table received from our own.                            *)
Subtracted(ours, received) ==
    [count |-> ours.count - received.count, keySum |-> Xor(ours.keySum, received.keySum),
     keyCheck |-> Xor(ours.keyCheck, received.keyCheck)]

StartDecode ==
    /\ decoding = "insert" /\ \A k \in mine \cup theirs : place[k] # Unplaced
    /\ decoding' = "peel"
    /\ cells' = [c \in CellIds |-> Subtracted(cells[c], FromBytes(peerCells[c]))]
    /\ UNCHANGED <<mine, theirs, place, peerCells, aliceOnly, bobOnly, iterations>>

IsPure(cell) == cell.count \in {1, -1}
IsEmpty(cell) == cell.count = 0

PureCells == {c \in CellIds : IsPure(cells[c])}
FirstPure == CHOOSE c \in PureCells : \A d \in PureCells : c <= d

DecodeFails ==
    /\ decoding = "peel"
    /\ \/ iterations >= SketchCells * 10
       \/ PureCells = {} /\ \E c \in CellIds : ~IsEmpty(cells[c])
       \/ PureCells # {} /\ cells[FirstPure].keyCheck # KeyCheck(cells[FirstPure].keySum)
    /\ decoding' = "failed"
    /\ UNCHANGED <<mine, theirs, place, cells, peerCells, aliceOnly, bobOnly, iterations>>

DecodeEnds ==
    /\ decoding = "peel" /\ iterations < SketchCells * 10
    /\ PureCells = {} /\ \A c \in CellIds : IsEmpty(cells[c])
    /\ decoding' = "ok"
    /\ UNCHANGED <<mine, theirs, place, cells, peerCells, aliceOnly, bobOnly, iterations>>

(* Mutant: the key is taken out of the pure cell only.                     *)
PeelCellOnly ==
    /\ decoding = "peel" /\ iterations < SketchCells * 10 /\ PureCells # {}
    /\ LET idx == FirstPure
           k == cells[idx].keySum
           n == cells[idx].count IN
       /\ cells[idx].keyCheck = KeyCheck(k)
       /\ aliceOnly' = IF n = 1 THEN Append(aliceOnly, k) ELSE aliceOnly
       /\ bobOnly' = IF n = 1 THEN bobOnly ELSE Append(bobOnly, k)
       /\ cells' = [cells EXCEPT ![idx] = EmptyCell]
    /\ iterations' = iterations + 1
    /\ UNCHANGED <<mine, theirs, place, peerCells, decoding>>

(* One turn of decode's loop: the first pure cell gives a key, which is    *)
(* taken out of all its cells.                                             *)
Peel ==
    /\ decoding = "peel" /\ iterations < SketchCells * 10 /\ PureCells # {}
    /\ LET idx == FirstPure
           k == cells[idx].keySum
           n == cells[idx].count IN
       /\ cells[idx].keyCheck = KeyCheck(k)
       /\ aliceOnly' = IF n = 1 THEN Append(aliceOnly, k) ELSE aliceOnly
       /\ bobOnly' = IF n = 1 THEN bobOnly ELSE Append(bobOnly, k)
       /\ \E p \in Placements(k) :
            /\ place' = [place EXCEPT ![k] = p]
            /\ cells' = [Added(cells, k, p, -n) EXCEPT ![idx] = EmptyCell]
    /\ iterations' = iterations + 1
    /\ UNCHANGED <<mine, theirs, peerCells, decoding>>

SketchNext == (\E k \in SketchKeys : InsertKey(k)) \/ StartDecode \/ DecodeFails \/ DecodeEnds \/ Peel

SketchSpec == SketchInit /\ [][SketchNext]_sketchVars

-----------------------------------------------------------------------------
Exact ==
    /\ ToSet(aliceOnly) = mine \ theirs /\ Len(aliceOnly) = Cardinality(mine \ theirs)
    /\ ToSet(bobOnly) = theirs \ mine /\ Len(bobOnly) = Cardinality(theirs \ mine)

(* When one store holds all the other one does, a decode that succeeds     *)
(* gives exactly what the other lacks, each key once, whatever the hash    *)
(* functions do, as long as no cell received counts more keys than one     *)
(* byte does.                                                              *)
OneSidedExact ==
    decoding = "ok" /\ (mine \subseteq theirs \/ theirs \subseteq mine)
        /\ (\A c \in CellIds : peerCells[c].count < CountWrap) => Exact

-----------------------------------------------------------------------------
(***************************************************************************)
(* Store and forward between mesh nodes (drift/*.rs): each node's relay    *)
(* engine with its envelope store, the policy that sets its budget, and    *)
(* the three-message exchange by which two nodes bring their stores        *)
(* together while envelopes still arrive, expire and are evicted.          *)
(*                                                                         *)
(* An envelope is a model value with fixed attributes.  The sketch of a    *)
(* store is the set of its ids; a decode that succeeds may miss part of    *)
(* the difference (DriftSketch) and then is not "exact".                   *)
(***************************************************************************)
CONSTANTS
    DriftNodes, DriftEnvelopes,
    SyncInitiators,  \* the nodes that begin an exchange
    DriftPriority,   \* per envelope: the score it is evicted by
    DriftHint,       \* per envelope: the node its hint names, or "other"
    DriftExpiry,     \* per envelope: ttl_expiry, 0 for never
    CoverEnvelopes,  \* the ones that are cover traffic
    DeepEnvelopes,   \* the ones that have used up max_hop_count
    StoreCapacity,   \* max_messages
    HourlyBudgets,   \* budgets the policy and the settings may set; 0 is no limit
    MaxDriftClock, MaxArrivals,
    MaxAdministered  \* bound on the switches and policy changes

VARIABLES
    engine,      \* per node: "none", "Dormant" or "Active"
    driftActive, \* per node: the flag of the core
    driftStored,      \* per node: the engine's store
    relayCount, driftBudget,
    session,     \* per node: its side of the exchange
    frames,      \* messages of the exchange on their way; one never taken is lost
    driftClock, arrivals, administered,
    gone         \* per node: envelopes it dropped since its sketch was made

driftVars == <<engine, driftActive, driftStored, relayCount, driftBudget, session, frames, driftClock, arrivals, administered, gone>>

NoSession == [state |-> "Ready", ours |-> {}, exact |-> TRUE]

DriftTypeOK ==
    /\ engine \in [DriftNodes -> {"none", "Dormant", "Active"}]
    /\ driftActive \in [DriftNodes -> BOOLEAN]
    /\ driftStored \in [DriftNodes -> SUBSET DriftEnvelopes]
    /\ \A n \in DriftNodes : Cardinality(driftStored[n]) <= StoreCapacity
    /\ relayCount \in [DriftNodes -> Nat] /\ driftBudget \in [DriftNodes -> HourlyBudgets]
    /\ session \in [DriftNodes -> [state : {"Ready", "AwaitingResponse", "ProcessingResponse", "Complete", "Merged"},
                                   ours : SUBSET DriftEnvelopes, exact : BOOLEAN]]
    /\ gone \in [DriftNodes -> SUBSET DriftEnvelopes] /\ driftClock \in 0 .. MaxDriftClock

(* Started, with or without an identity yet (IronCore::start).             *)
DriftInit ==
    /\ engine \in {[n \in DriftNodes |-> e] : e \in {"none", "Active"}} /\ driftActive = [n \in DriftNodes |-> TRUE]
    /\ driftStored = [n \in DriftNodes |-> {}]
    /\ relayCount = [n \in DriftNodes |-> 0]
    /\ driftBudget = [n \in DriftNodes |-> Max(HourlyBudgets)]
    /\ session = [n \in DriftNodes |-> NoSession] /\ frames = {}
    /\ driftClock = 0 /\ arrivals = 0 /\ administered = 0 /\ gone = [n \in DriftNodes |-> {}]

exchangeVars == <<session, frames>>
boundVars == <<arrivals, administered>>

-----------------------------------------------------------------------------
(* initialize_identity gives the core a new engine, dormant and empty, a   *)
(* second time too.                                                        *)
InitializeEngine(n) ==
    /\ administered < MaxAdministered /\ administered' = administered + 1
    /\ engine' = [engine EXCEPT ![n] = "Dormant"]
    /\ driftStored' = [driftStored EXCEPT ![n] = {}]
    /\ gone' = [gone EXCEPT ![n] = @ \cup driftStored[n]]
    /\ relayCount' = [relayCount EXCEPT ![n] = 0]
    /\ driftBudget' = [driftBudget EXCEPT ![n] = Max(HourlyBudgets)]
    /\ UNCHANGED <<driftActive, exchangeVars, driftClock, arrivals>>

(* drift_activate, drift_deactivate                                        *)
DriftSwitch(n, on) ==
    /\ administered < MaxAdministered /\ administered' = administered + 1
    /\ driftActive' = [driftActive EXCEPT ![n] = on]
    /\ engine' = [engine EXCEPT ![n] = IF @ = "none" THEN @ ELSE IF on THEN "Active" ELSE "Dormant"]
    /\ UNCHANGED <<driftStored, relayCount, driftBudget, exchangeVars, driftClock, gone, arrivals>>

(* update_device_state and apply_policy_config: the engine, if there is    *)
(* one, gets the budget of the profile or of the settings.                 *)
ApplyPolicy(n, budget) ==
    /\ administered < MaxAdministered /\ administered' = administered + 1
    /\ engine[n] # "none"
    /\ driftBudget' = [driftBudget EXCEPT ![n] = budget]
    /\ UNCHANGED <<engine, driftActive, driftStored, relayCount, exchangeVars, driftClock, gone, arrivals>>

-----------------------------------------------------------------------------
(* evict_if_over_budget: lowest score first, ties in any order.            *)
Evictions(s) ==
    {v \in SUBSET s : /\ Cardinality(s \ v) = (IF Cardinality(s) > StoreCapacity THEN StoreCapacity ELSE Cardinality(s))
                      /\ \A x \in v, y \in s \ v : DriftPriority[x] <= DriftPriority[y]}

(* MeshStore::insert for each of a set of envelopes, as merge_envelopes    *)
(* does: the one inserted may be the one evicted.                          *)
InsertInto(n, new) ==
    \E v \in Evictions(driftStored[n] \cup new) :
      /\ driftStored' = [driftStored EXCEPT ![n] = (@ \cup new) \ v]
      /\ gone' = [gone EXCEPT ![n] = @ \cup v]

EnvelopeExpired(e) == DriftExpiry[e] # 0 /\ driftClock > DriftExpiry[e]

(* The envelopes process_incoming stores and relays.  Two of its tests     *)
(* never refuse: the core sets min_relay_priority to 0 everywhere and      *)
(* gives no engine a reputation manager.                                   *)
Relayable(n, e) ==
    /\ ~EnvelopeExpired(e) /\ e \notin driftStored[n] /\ DriftHint[e] # n
    /\ engine[n] = "Active" /\ e \notin DeepEnvelopes
    /\ e \in CoverEnvelopes \/ driftBudget[n] = 0 \/ relayCount[n] < driftBudget[n]

(* process_incoming; whatever is not relayable is dropped, delivered here  *)
(* or known already, and changes nothing.                                  *)
ProcessIncoming(n, e) ==
    /\ arrivals < MaxArrivals /\ arrivals' = arrivals + 1
    /\ Relayable(n, e)
    /\ InsertInto(n, {e})
    /\ relayCount' = [relayCount EXCEPT ![n] = IF e \in CoverEnvelopes THEN @ ELSE @ + 1]
    /\ UNCHANGED <<engine, driftActive, driftBudget, exchangeVars, driftClock, administered>>

(* maintenance: an envelope goes at its expiry, one second before          *)
(* process_incoming would refuse it.                                       *)
Maintenance(n) ==
    /\ LET old == {e \in driftStored[n] : DriftExpiry[e] # 0 /\ DriftExpiry[e] <= driftClock} IN
         /\ old # {}
         /\ driftStored' = [driftStored EXCEPT ![n] = @ \ old]
         /\ gone' = [gone EXCEPT ![n] = @ \cup old]
    /\ UNCHANGED <<engine, driftActive, relayCount, driftBudget, exchangeVars, driftClock, boundVars>>

(* Time goes on; in the coarse time of the model an hour may have passed   *)
(* since hour_start (check_rate_limit).                                    *)
DriftTick ==
    /\ driftClock < MaxDriftClock /\ driftClock' = driftClock + 1
    /\ relayCount' = [n \in DriftNodes |-> 0]
    /\ UNCHANGED <<engine, driftActive, driftStored, driftBudget, exchangeVars, gone, boundVars>>

-----------------------------------------------------------------------------
(* IBLT::decode of the difference of two sketches: the ids only the first  *)
(* has, and the ids only the second has.                                   *)
Decodes(x, y) == (SUBSET (x \ y)) \X (SUBSET (y \ x))

(* Mutant: the ids the peer has and we do not are looked up.               *)
OthersMissing(d, s) == d[2] \cap s

(* missing_envelopes: what the peer lacks and the store still holds.       *)
PeerMissing(d, s) == d[1] \cap s

(* SyncSession::initiate                                                   *)
Initiate(n, to) ==
    /\ n # to /\ n \in SyncInitiators /\ session[n].state = "Ready" /\ engine[n] # "none"
    /\ session' = [session EXCEPT ![n] = [state |-> "AwaitingResponse", ours |-> driftStored[n], exact |-> TRUE]]
    /\ frames' = frames \cup {[type |-> "SyncOffer", from |-> n, to |-> to, sketch |-> driftStored[n], envelopes |-> {}]}
    /\ gone' = [gone EXCEPT ![n] = {}]
    /\ UNCHANGED <<engine, driftActive, driftStored, relayCount, driftBudget, driftClock, boundVars>>

(* SyncSession::respond; a decode that fails leaves the session ready.     *)
SyncRespond(n, f) ==
    /\ f \in frames /\ f.to = n /\ f.type = "SyncOffer" /\ session[n].state = "Ready" /\ engine[n] # "none"
    /\ \/ \E d \in Decodes(driftStored[n], f.sketch) :
            /\ session' = [session EXCEPT ![n] =
                             [state |-> "ProcessingResponse", ours |-> driftStored[n],
                              exact |-> d = <<driftStored[n] \ f.sketch, f.sketch \ driftStored[n]>>]]
            /\ frames' = (frames \ {f}) \cup
                           {[type |-> "SyncResponse", from |-> n, to |-> f.from, sketch |-> driftStored[n],
                             envelopes |-> PeerMissing(d, driftStored[n])]}
            /\ gone' = [gone EXCEPT ![n] = {}]
       \/ frames' = frames \ {f} /\ UNCHANGED <<session, gone>>
    /\ UNCHANGED <<engine, driftActive, driftStored, relayCount, driftBudget, driftClock, boundVars>>

(* SyncSession::complete, with the sketch made when the exchange began,    *)
(* and merge_envelopes.  When the decode fails the session keeps waiting.  *)
Complete(n, f) ==
    /\ f \in frames /\ f.to = n /\ f.type = "SyncResponse" /\ session[n].state = "AwaitingResponse"
    /\ \/ \E d \in Decodes(session[n].ours, f.sketch) :
            /\ session' = [session EXCEPT
                             ![n].state = "Complete",
                             ![n].exact = d = <<session[n].ours \ f.sketch, f.sketch \ session[n].ours>>]
            /\ frames' = (frames \ {f}) \cup
                           {[type |-> "SyncComplete", from |-> n, to |-> f.from, sketch |-> {},
                             envelopes |-> PeerMissing(d, driftStored[n])]}
            /\ InsertInto(n, f.envelopes)
       \/ frames' = frames \ {f} /\ UNCHANGED <<session, driftStored, gone>>
    /\ UNCHANGED <<engine, driftActive, relayCount, driftBudget, driftClock, boundVars>>

(* The responder merges what the last message brings.                      *)
MergeComplete(n, f) ==
    /\ f \in frames /\ f.to = n /\ f.type = "SyncComplete" /\ session[n].state = "ProcessingResponse"
    /\ session' = [session EXCEPT ![n].state = "Merged"]
    /\ frames' = frames \ {f}
    /\ InsertInto(n, f.envelopes)
    /\ UNCHANGED <<engine, driftActive, relayCount, driftBudget, driftClock, boundVars>>

DriftNext ==
    \/ \E n \in DriftNodes : \/ InitializeEngine(n) \/ Maintenance(n)
                             \/ \E on \in BOOLEAN : DriftSwitch(n, on)
                             \/ \E b \in HourlyBudgets : ApplyPolicy(n, b)
                             \/ \E e \in DriftEnvelopes : ProcessIncoming(n, e)
                             \/ \E to \in DriftNodes : Initiate(n, to)
                             \/ \E f \in frames : SyncRespond(n, f) \/ Complete(n, f) \/ MergeComplete(n, f)
    \/ DriftTick

DriftSpec == DriftInit /\ [][DriftNext]_driftVars

-----------------------------------------------------------------------------
(* Once both sides of an exchange have merged, and both decodes were       *)
(* exact, each node holds what the other held when it made its sketch,     *)
(* save what either side has since let expire or evicted, although both    *)
(* stores went on changing in between.                                     *)
StoresReconciled ==
    \A a, b \in DriftNodes :
      session[a].state = "Complete" /\ session[b].state = "Merged" /\ session[a].exact /\ session[b].exact =>
        /\ session[a].ours \ (gone[a] \cup gone[b]) \subseteq driftStored[b]
        /\ session[b].ours \ (gone[a] \cup gone[b]) \subseteq driftStored[a]

(* Reconciling the stores: the sketch gives what one side lacks, and an    *)
(* exchange leaves neither side without what the other one held.           *)
DriftSound == OneSidedExact /\ StoresReconciled
=============================================================================
