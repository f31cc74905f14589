---------------------------- MODULE AbuseControl ----------------------------
(***************************************************************************)
(* The reputation of peers, the spam heuristics that lower it, and the     *)
(* engine that blocks a peer by itself.  An engine is built over a manager *)
(* of reputations: the managers are constants, because IronCore's          *)
(* constructors build one for the signals it records and another one for   *)
(* its engine, while the tests of the engine use a single one.             *)
(*                                                                         *)
(* Scores are in tenths of a point.  The scan of the engine takes its      *)
(* peers one at a time while other threads record signals.  The managers   *)
(* are those without a store, the only ones the program builds.            *)
(***************************************************************************)
EXTENDS Integers, FiniteSets, SequencesExt

CONSTANTS
    AbusePeers,
    Managers,           \* the reputation managers built
    SignalManager,      \* the one record_abuse_signal writes to
    EngineManager,      \* the one the engine evaluates
    MaxTracked,         \* max_tracked_peers
    RepeatThreshold, FloodMax, ColdMinimum,   \* SpamDetectionConfig
    MaxAbuseCalls, MaxAuditEntries

Signals == {"RateLimited", "OversizedMessage", "InvalidFormat", "DuplicateMessage", "InvalidDestination",
            "SuccessfulRelay", "FailedRelay", "SuccessfulDelivery", "ConnectionTimeout"}
SpamSignals == {"CommunityBlocked", "ContentPattern", "Flooding", "MassDistribution", "ColdContactSpam"}

VARIABLES
    trackedPeers,     \* per manager: the peers of its table, with their statistics
    spamTrack,   \* per peer: what the spam detector has seen of it
    blockRecord, \* per peer: "none", "blocked" or "deleted"
    exempt,      \* exempt_peer_ids
    autoEnabled, \* AutoBlockConfig::enabled
    autoAudit,   \* entries of the engine's audit log, drained to its bound
    scan,        \* evaluate_all_tracked: peers yet to be evaluated, if it runs
    steady,      \* peers to be blocked in every state since the scan began (ghost)
    abuseCalls

abuseVars == <<trackedPeers, spamTrack, blockRecord, exempt, autoEnabled, autoAudit, scan, steady,
               abuseCalls>>

-----------------------------------------------------------------------------
(* What a signal weighs, in half points.                                   *)
Weight == [s \in Signals |->
    CASE s = "RateLimited" -> -10 [] s = "OversizedMessage" -> -6 [] s = "InvalidFormat" -> -8
      [] s = "DuplicateMessage" -> -4 [] s = "InvalidDestination" -> -6 [] s = "FailedRelay" -> -3
      [] s = "ConnectionTimeout" -> -2 [] s = "SuccessfulRelay" -> 4 [] s = "SuccessfulDelivery" -> 6]

NoSignals == [s \in Signals |-> 0]
Neutral == 500
NewStats == [counts |-> NoSignals, score |-> Neutral, old |-> FALSE]

(* PeerAbuseStats::calculate_score: neutral plus total / (1 + |total|) of  *)
(* half the scale.                                                         *)
Score(counts) ==
    LET total == MapThenSumSet(LAMBDA s : counts[s] * Weight[s], Signals)
        size == IF total < 0 THEN -total ELSE total
        share == (500 * size) \div (2 + size) IN
    IF total < 0 THEN Neutral - share ELSE Neutral + share

(* PeerAbuseStats::record_signal                                           *)
Signalled(stats, s) ==
    LET counts == [stats.counts EXCEPT ![s] = @ + 1] IN
    [counts |-> counts, score |-> Score(counts), old |-> FALSE]

(* The counts that decay: what a peer did well is kept.                    *)
Decaying == Signals \ {"SuccessfulRelay", "SuccessfulDelivery"}

(* AbuseReputationManager::apply_decay for a peer silent for two periods   *)
(* or more.                                                                *)
Decayed(stats) ==
    IF ~stats.old THEN stats
    ELSE [stats EXCEPT !.score = @ + (Neutral - @) \div 2,
                       !.counts = [s \in Signals |-> IF s \in Decaying THEN (@[s] * 7) \div 10 ELSE @[s]]]

Table(mgr) == {x.peer : x \in trackedPeers[mgr]}
StatsOf(mgr, p) == CHOOSE x \in trackedPeers[mgr] : x.peer = p

(* AbuseReputationManager::get_score                                       *)
GetScore(mgr, p) == IF p \in Table(mgr) THEN StatsOf(mgr, p).stats.score ELSE Neutral

-----------------------------------------------------------------------------
(* SpamDetectionEngine::detect_spam without contacts: the heuristics.      *)
NoTrack == [same |-> 0, recent |-> 0, cold |-> 0, total |-> 0]
SpamSignalsOf(p) ==
    LET t == spamTrack[p] IN
    (IF t.recent >= FloodMax THEN {"Flooding"} ELSE {}) \cup
    (IF t.same >= RepeatThreshold THEN {"MassDistribution"} ELSE {}) \cup
    (IF t.total >= ColdMinimum /\ 10 * t.cold >= 8 * t.total THEN {"ColdContactSpam"} ELSE {})

(* spam_score in tenths: three for each heuristic.                         *)
SpamConfidence(p) == IF Cardinality(SpamSignalsOf(p)) > 3 THEN 10 ELSE 3 * Cardinality(SpamSignalsOf(p))

(* EnhancedReputationScore::overall_score                                  *)
Overall(mgr, p) == (GetScore(mgr, p) * (100 - 8 * SpamConfidence(p))) \div 100
(* AutoBlockEngine::evaluate                                               *)
Evaluate(p) ==
    /\ autoEnabled /\ p \notin exempt
    /\ Overall(EngineManager, p) < 100 \/ SpamConfidence(p) >= 8

(* A peer whose recorded conduct exceeds a threshold.                      *)
ToBeBlocked(p) ==
    /\ autoEnabled /\ p \notin exempt
    /\ p \in Table(SignalManager)
    /\ Overall(SignalManager, p) < 100 \/ SpamConfidence(p) >= 8

-----------------------------------------------------------------------------
AbuseInit ==
    /\ trackedPeers = [mgr \in Managers |-> {}]
    /\ spamTrack = [p \in AbusePeers |-> NoTrack]
    /\ blockRecord = [p \in AbusePeers |-> "none"]
    /\ exempt = {} /\ autoEnabled = TRUE /\ autoAudit = 0
    /\ scan = {} /\ steady = {} /\ abuseCalls = 0

(* Which peers still are to be blocked after this step.                    *)
Steadied == steady' = {p \in steady : ToBeBlocked(p)'}
Called == abuseCalls < MaxAbuseCalls /\ abuseCalls' = abuseCalls + 1

(* The peers with the lowest score, in whole points.                       *)
Lowest(table) == {x \in table : \A y \in table : x.stats.score \div 10 <= y.stats.score \div 10}

(* AbuseReputationManager::record_signal of one or two signals: a peer not *)
(* tracked takes, at capacity, the place of a lowest one.                  *)
Recorded(p, signals) ==
    LET table == trackedPeers[SignalManager]
        before == IF p \in Table(SignalManager) THEN StatsOf(SignalManager, p).stats ELSE NewStats
        now == [peer |-> p, stats |-> FoldSeq(LAMBDA s, stats : Signalled(stats, s), before, signals)] IN
    IF p \in Table(SignalManager) \/ Cardinality(table) < MaxTracked
    THEN trackedPeers' = [trackedPeers EXCEPT ![SignalManager] = {x \in @ : x.peer # p} \cup {now}]
    ELSE \E gone \in Lowest(table) : trackedPeers' = [trackedPeers EXCEPT ![SignalManager] = (@ \ {gone}) \cup {now}]

(* record_abuse_signal: a duplicate or a broken message of a peer that the *)
(* heuristics suspect counts as one more broken message.                   *)
RecordSignal(p, s) ==
    /\ Called
    /\ Recorded(p, IF s \in {"DuplicateMessage", "InvalidFormat"} /\ SpamSignalsOf(p) # {}
                   THEN <<s, "InvalidFormat">> ELSE <<s>>)
    /\ UNCHANGED <<spamTrack, blockRecord, exempt, autoEnabled, autoAudit, scan>>
    /\ Steadied

(* record_spam_signal: all but the community's verdict are signals too.    *)
RecordSpamSignal(p, s) ==
    /\ Called
    /\ IF s = "CommunityBlocked" THEN UNCHANGED trackedPeers
       ELSE Recorded(p, <<CASE s = "ContentPattern" -> "InvalidFormat" [] s = "Flooding" -> "RateLimited"
                            [] s = "MassDistribution" -> "DuplicateMessage"
                            [] s = "ColdContactSpam" -> "InvalidDestination">>)
    /\ UNCHANGED <<spamTrack, blockRecord, exempt, autoEnabled, autoAudit, scan>>
    /\ Steadied

(* record_outbound_message, with a content sent before or a new one.       *)
RecordMessage(p, again, cold) ==
    /\ Called
    /\ spamTrack' = [spamTrack EXCEPT ![p] = [same |-> IF again \/ @.same = 0 THEN @.same + 1 ELSE @.same,
                                              recent |-> @.recent + 1,
                                              cold |-> IF cold THEN @.cold + 1 ELSE @.cold,
                                              total |-> @.total + 1]]
    /\ UNCHANGED <<trackedPeers, blockRecord, exempt, autoEnabled, autoAudit, scan>>
    /\ Steadied

(* A long quiet period: the flooding window empties, statistics grow old.  *)
QuietPeriod ==
    /\ Called
    /\ spamTrack' = [p \in AbusePeers |-> [spamTrack[p] EXCEPT !.recent = 0]]
    /\ trackedPeers' = [mgr \in Managers |->
                      {[x EXCEPT !.stats.old = TRUE] : x \in trackedPeers[mgr]}]
    /\ UNCHANGED <<blockRecord, exempt, autoEnabled, autoAudit, scan>>
    /\ Steadied

ApplyDecay ==
    /\ \E x \in trackedPeers[SignalManager] : Decayed(x.stats) # x.stats
    /\ Called
    /\ trackedPeers' = [trackedPeers EXCEPT ![SignalManager] = {[x EXCEPT !.stats = Decayed(@)] : x \in @}]
    /\ UNCHANGED <<spamTrack, blockRecord, exempt, autoEnabled, autoAudit, scan>>
    /\ Steadied

(* prune_stale and prune_stale_peers: the old go, the detector drops any.  *)
PruneStale(p) ==
    /\ Called
    /\ trackedPeers' = [trackedPeers EXCEPT ![SignalManager] = {x \in @ : ~x.stats.old}]
    /\ spamTrack' = [spamTrack EXCEPT ![p] = NoTrack]
    /\ UNCHANGED <<blockRecord, exempt, autoEnabled, autoAudit, scan>>
    /\ Steadied

-----------------------------------------------------------------------------
(* perform_maintenance: evaluate_all_tracked lists the engine's peers.     *)
ScanBegins ==
    /\ scan = {} /\ Called
    /\ scan' = {Table(EngineManager)}
    /\ steady' = {p \in AbusePeers : ToBeBlocked(p)}
    /\ UNCHANGED <<trackedPeers, spamTrack, blockRecord, exempt, autoEnabled, autoAudit>>

(* evaluate_and_block: the block replaces whatever record there was.       *)
ScanPeer(p) ==
    /\ \E left \in scan : p \in left /\ scan' = {left \ {p}}
    /\ blockRecord' = IF Evaluate(p) THEN [blockRecord EXCEPT ![p] = "blocked"] ELSE blockRecord
    /\ autoAudit' = IF Evaluate(p) /\ autoAudit < MaxAuditEntries THEN autoAudit + 1 ELSE autoAudit
    /\ UNCHANGED <<trackedPeers, spamTrack, exempt, autoEnabled, abuseCalls>>
    /\ Steadied

ScanEnds ==
    /\ scan = {{}} /\ scan' = {} /\ steady' = {}
    /\ UNCHANGED <<trackedPeers, spamTrack, blockRecord, exempt, autoEnabled, autoAudit, abuseCalls>>

(* exempt_peer, unexempt_peer and update_config                            *)
SetExempt(peers, on) ==
    /\ Called
    /\ exempt' = peers /\ autoEnabled' = on
    /\ UNCHANGED <<trackedPeers, spamTrack, blockRecord, autoAudit, scan>>
    /\ Steadied

(* The user blocks, deletes or unblocks a peer.                            *)
UserDecides(p, record) ==
    /\ Called
    /\ blockRecord' = [blockRecord EXCEPT ![p] = record]
    /\ UNCHANGED <<trackedPeers, spamTrack, exempt, autoEnabled, autoAudit, scan>>
    /\ steady' = {q \in steady \ {p} : ToBeBlocked(q)'}

-----------------------------------------------------------------------------
AbuseNext ==
    \/ \E p \in AbusePeers :
          \/ \E s \in Signals : RecordSignal(p, s)
          \/ \E s \in SpamSignals : RecordSpamSignal(p, s)
          \/ \E again, cold \in BOOLEAN : RecordMessage(p, again, cold)
          \/ PruneStale(p) \/ ScanPeer(p)
          \/ \E record \in {"none", "blocked", "deleted"} : UserDecides(p, record)
    \/ \E peers \in SUBSET AbusePeers, on \in BOOLEAN : SetExempt(peers, on)
    \/ QuietPeriod \/ ApplyDecay \/ ScanBegins \/ ScanEnds

AbuseSpec == AbuseInit /\ [][AbuseNext]_abuseVars

-----------------------------------------------------------------------------
(* perform_maintenance: "Run periodic abuse scan: evaluate all tracked     *)
(* peers and auto-block those exceeding reputation or spam thresholds."    *)
(* A peer that exceeds one all through a scan, whatever other threads      *)
(* record or change meanwhile, is blocked when the scan is over.           *)
AbusersBlocked == scan = {{}} => \A p \in steady : blockRecord[p] # "none"
=============================================================================
