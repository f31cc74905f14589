----------------------------- MODULE LocalRecords -----------------------------
(* The records a device keeps for itself: the contacts and their move to      *)
(* prefixed keys (store/contacts.rs), the message history (store/history.rs), *)
(* the summaries of log lines (store/logs.rs) and the audit log               *)
(* (observability.rs), over one key-value backend (store/backend.rs).  The    *)
(* process may be killed between two writes.                                  *)
(*                                                                            *)
(* Three machines of their own follow: the identity and its device metadata   *)
(* (identity/store.rs, identity/mod.rs), the identity backups of three        *)
(* formats (crypto/backup.rs) and the browser's store, which writes behind a  *)
(* copy in memory (IndexedDbStorage in store/backend.rs).                     *)
EXTENDS Integers, FiniteSets, Sequences, SequencesExt

CONSTANTS RecordPeers,
          DerivablePeers,   \* peers whose key can be read off their identifier
          LogLines,
          MaxDeltas,        \* occurrences kept per log line
          MaxHistory, MaxRecordTime, MaxRecordSteps,  \* bounds
          MaxRecordFaults   \* bound on the failures of the backend

CONSTANTS Nicks, MaxIds, MaxIdKills, MaxIdFails,    \* bounds on identities, kills, errors
          NONCE_LEN, TAG_LEN, SALT_LEN, Passphrases, MaxText,
          PageKeys, PageValues, MaxTasks, MaxReloads

ASSUME RecordsAssumption ==
    /\ DerivablePeers \subseteq RecordPeers
    /\ MaxDeltas \in Nat \ {0, 1}

VARIABLES bare,       \* [RecordPeers -> {} or {contact}] under the old keys
          prefixed,   \* [RecordPeers -> {} or {contact}] under "contact:" keys
          migratedMark,
          toMigrate,  \* old keys the running migration has still to visit
          recordsUp,         \* the stores are open
          history,    \* set of message records
          logs,       \* [LogLines -> sequence of deltas], as last flushed
          logCache,   \* [LogLines -> {} or {sequence}]
          audit,      \* the audit log: events, last_hash, pruned_head_hash
          recordTime, recordSteps, recordFaults,
          owned,      \* history: peers with a contact the user has not removed
          lastLogged  \* history: [LogLines -> last time in the summary]

recordsVars == <<bare, prefixed, migratedMark, toMigrate, recordsUp, history, logs, logCache,
                 audit, recordTime, recordSteps, recordFaults, owned, lastLogged>>

contactVars == <<bare, prefixed, migratedMark, toMigrate, owned>>
logVars == <<logs, logCache, lastLogged>>

Versions == {"old", "new"}
Directions == {"sent", "received"}
Records == [id : 1..MaxHistory, peer : RecordPeers, dir : Directions, at : 0..MaxRecordTime,
            delivered : BOOLEAN, hidden : BOOLEAN]

RecordsTypeOK ==
    /\ bare \in [RecordPeers -> SUBSET Versions]
    /\ prefixed \in [RecordPeers -> SUBSET Versions]
    /\ \A p \in RecordPeers : Cardinality(bare[p]) <= 1 /\ Cardinality(prefixed[p]) <= 1
    /\ toMigrate \subseteq RecordPeers
    /\ history \subseteq Records
    /\ \A l \in LogLines : Len(logs[l]) <= MaxDeltas

Genesis == 0
(* AuditLog::new. *)
EmptyAudit == [events |-> <<>>, last |-> Genesis, head |-> Genesis]

(* A device before or after the upgrade to prefixed keys.  Some contacts have *)
(* been added again since, under the new key.                                 *)
RecordsInit ==
    /\ bare \in [RecordPeers -> {{}, {"old"}}]
    /\ prefixed = [p \in RecordPeers |-> {}]
    /\ migratedMark = FALSE
    /\ toMigrate = {}
    /\ recordsUp = FALSE
    /\ history = {}
    /\ logs = [l \in LogLines |-> <<>>]
    /\ logCache = [l \in LogLines |-> {}]
    /\ audit = EmptyAudit
    /\ recordTime = 0
    /\ recordSteps = 0 /\ recordFaults = 0
    /\ owned = {p \in RecordPeers : bare[p] # {}}
    /\ lastLogged = [l \in LogLines |-> 0]

RecordStep == recordSteps < MaxRecordSteps /\ recordSteps' = recordSteps + 1
Open == recordsUp /\ toMigrate = {}

(* A call of the backend succeeds, or returns an error.                       *)
Succeeds == UNCHANGED recordFaults
Fails == recordFaults < MaxRecordFaults /\ recordFaults' = recordFaults + 1

-----------------------------------------------------------------------------
(* Contacts.                                                                  *)

(* ContactManager::new scans the old keys, unless a migration has finished;   *)
(* when the scan fails, the migration is left for the next opening.           *)
OpenStores ==
    /\ ~recordsUp
    /\ recordsUp' = TRUE
    /\ \/ /\ Succeeds
          /\ toMigrate' = IF migratedMark THEN {} ELSE {p \in RecordPeers : bare[p] # {}}
          /\ migratedMark' = (migratedMark \/ toMigrate' = {})
       \/ /\ Fails
          /\ UNCHANGED <<toMigrate, migratedMark>>
    /\ UNCHANGED <<bare, prefixed, owned, logVars, history, audit, recordTime, recordSteps>>

(* Mutant: the old key is removed before the new one is written. *)
MigrateWriteLate(p) ==
    /\ IF bare[p] # {}
         THEN bare' = [bare EXCEPT ![p] = {}] /\ UNCHANGED prefixed
         ELSE prefixed' = [prefixed EXCEPT ![p] = {"old"}] /\ UNCHANGED bare
    /\ toMigrate' = IF bare[p] # {} THEN toMigrate ELSE toMigrate \ {p}
    /\ Succeeds
(* One contact is written under its new key, unless one is found there, and   *)
(* then removed under the old key: two writes.  A write that fails leaves the *)
(* contact where it is; a read that fails finds none, and the contact under   *)
(* the new key is overwritten.                                                *)
MigrateWrite(p) ==
    \/ /\ IF prefixed[p] = {} THEN Succeeds ELSE Fails
       /\ prefixed' = [prefixed EXCEPT ![p] = bare[p]]
       /\ UNCHANGED <<bare, toMigrate>>
    \/ /\ prefixed[p] # {} /\ Succeeds
       /\ bare' = [bare EXCEPT ![p] = {}]
       /\ toMigrate' = toMigrate \ {p}
       /\ UNCHANGED prefixed
    \/ /\ Fails
       /\ toMigrate' = toMigrate \ {p}
       /\ UNCHANGED <<bare, prefixed>>
(* The mark ends a migration whatever failed in it; that write may fail too.  *)
Migrate(p) ==
    /\ recordsUp /\ p \in toMigrate
    /\ MigrateWrite(p)
    /\ migratedMark' \in {FALSE, toMigrate' = {}}
    /\ UNCHANGED <<recordsUp, owned, logVars, history, audit, recordTime, recordSteps>>

(* The process is killed.  What is cached of the log summaries is lost, and   *)
(* so is the audit log: IronCore never persists or loads it.                  *)
KillStores ==
    /\ recordsUp
    /\ RecordStep /\ Succeeds
    /\ recordsUp' = FALSE
    /\ toMigrate' = {}
    /\ logCache' = [l \in LogLines |-> {}]
    /\ lastLogged' = [l \in LogLines |-> FoldLeft(+, 0, logs[l])]
    /\ audit' = EmptyAudit
    /\ UNCHANGED <<bare, prefixed, migratedMark, owned, logs, history, recordTime>>

AddContact(p) ==
    /\ Open /\ RecordStep /\ Succeeds
    /\ prefixed' = [prefixed EXCEPT ![p] = {"new"}]
    /\ owned' = owned \union {p}
    /\ UNCHANGED <<bare, migratedMark, toMigrate, recordsUp, logVars, history, audit, recordTime>>

RemoveContact(p) ==
    /\ Open /\ RecordStep /\ Succeeds
    /\ prefixed' = [prefixed EXCEPT ![p] = {}]
    /\ owned' = owned \ {p}
    /\ UNCHANGED <<bare, migratedMark, toMigrate, recordsUp, logVars, history, audit, recordTime>>

(* reconcile_from_history: a contact for every peer of the history without    *)
(* one, where the key can be derived.                                         *)
ReconcileFromHistory ==
    /\ Open /\ RecordStep /\ Succeeds
    /\ LET found == {p \in DerivablePeers : prefixed[p] = {} /\ \E r \in history : r.peer = p}
       IN  /\ prefixed' = [p \in RecordPeers |-> IF p \in found THEN {"new"} ELSE prefixed[p]]
           /\ owned' = owned \union found
    /\ UNCHANGED <<bare, migratedMark, toMigrate, recordsUp, logVars, history, audit, recordTime>>

-----------------------------------------------------------------------------
(* The message history.                                                       *)

FreeId == CHOOSE i \in 1..MaxHistory : \A r \in history : r.id # i

(* new_sent, new_received with add.                                           *)
AddMessage(p, d) ==
    /\ Open /\ RecordStep /\ Succeeds
    /\ Cardinality(history) < MaxHistory
    /\ history' = history \union {[id |-> FreeId, peer |-> p, dir |-> d,
                                   at |-> recordTime, delivered |-> d = "received", hidden |-> FALSE]}
    /\ UNCHANGED <<contactVars, recordsUp, logVars, audit, recordTime>>
MarkDelivered ==
    /\ Open /\ RecordStep /\ Succeeds
    /\ \E r \in history : history' = (history \ {r}) \union {[r EXCEPT !.delivered = TRUE]}
    /\ UNCHANGED <<contactVars, recordsUp, logVars, audit, recordTime>>
(* hide_messages_for_peer and unhide_messages_for_peer.                       *)
SetHidden(p, h) ==
    /\ Open /\ RecordStep /\ Succeeds
    /\ history' = {IF r.peer = p THEN [r EXCEPT !.hidden = h] ELSE r : r \in history}
    /\ UNCHANGED <<contactVars, recordsUp, logVars, audit, recordTime>>
RecordsRemoveConversation(p) ==
    /\ Open /\ RecordStep /\ Succeeds
    /\ history' = {r \in history : r.peer # p}
    /\ UNCHANGED <<contactVars, recordsUp, logVars, audit, recordTime>>
(* enforce_retention: the oldest go, down to n; prune_before(t).              *)
EnforceRetention(n) ==
    /\ Open /\ RecordStep /\ Succeeds
    /\ Cardinality(history) > n
    /\ \E kept \in SUBSET history :
         /\ Cardinality(kept) = n
         /\ \A r \in kept, g \in history \ kept : g.at <= r.at
         /\ history' = kept
    /\ UNCHANGED <<contactVars, recordsUp, logVars, audit, recordTime>>
PruneHistory(t) ==
    /\ Open /\ RecordStep /\ Succeeds
    /\ history' = {r \in history : r.at >= t}
    /\ UNCHANGED <<contactVars, recordsUp, logVars, audit, recordTime>>

-----------------------------------------------------------------------------
(* Log summaries: an occurrence is stored as the time since the one before.   *)

Total(deltas) == FoldLeft(+, 0, deltas)
Half == MaxDeltas \div 2
(* Mutant: the first occurrence that stays does not absorb its own delta. *)
CompactedShort(deltas) ==
    IF Len(deltas) <= MaxDeltas THEN deltas
    ELSE <<Total(SubSeq(deltas, 1, Half))>> \o SubSeq(deltas, Half + 2, Len(deltas))
(* Above the limit the older half is folded into the first one that stays.    *)
Compacted(deltas) ==
    IF Len(deltas) <= MaxDeltas THEN deltas
    ELSE <<Total(SubSeq(deltas, 1, Half + 1))>> \o SubSeq(deltas, Half + 2, Len(deltas))

Later(a, b) == IF a > b THEN a ELSE b

RecordLog(l) ==
    /\ recordsUp /\ RecordStep /\ Succeeds
    /\ LET deltas == IF logCache[l] = {} THEN logs[l] ELSE CHOOSE d \in logCache[l] : TRUE
       IN  logCache' = [logCache EXCEPT ![l] =
                           {Compacted(Append(deltas, Later(0, recordTime - Total(deltas))))}]
    /\ lastLogged' = [lastLogged EXCEPT ![l] = Later(@, recordTime)]
    /\ UNCHANGED <<contactVars, recordsUp, logs, history, audit, recordTime>>

Flushed == [l \in LogLines |-> IF logCache[l] = {} THEN logs[l] ELSE CHOOSE d \in logCache[l] : TRUE]
(* The cache is emptied whatever happens: after a write that fails the lines  *)
(* that were not yet written are lost.                                        *)
FlushLogs ==
    /\ recordsUp /\ RecordStep
    /\ \E lost \in SUBSET LogLines :
         /\ IF lost = {} THEN Succeeds ELSE Fails
         /\ logs' = [l \in LogLines |-> IF l \in lost THEN logs[l] ELSE Flushed[l]]
         /\ lastLogged' = [l \in LogLines |-> IF l \in lost THEN Total(logs[l]) ELSE lastLogged[l]]
    /\ logCache' = [l \in LogLines |-> {}]
    /\ UNCHANGED <<contactVars, recordsUp, history, audit, recordTime>>
(* prune_oldest(1): flush, then remove the line heard of longest ago.         *)
PruneOldestLog(l) ==
    /\ recordsUp /\ RecordStep /\ Succeeds
    /\ Flushed[l] # <<>>
    /\ \A k \in LogLines : Flushed[k] # <<>> => Total(Flushed[l]) <= Total(Flushed[k])
    /\ logs' = [Flushed EXCEPT ![l] = <<>>]
    /\ logCache' = [k \in LogLines |-> {}]
    /\ lastLogged' = [lastLogged EXCEPT ![l] = 0]
    /\ UNCHANGED <<contactVars, recordsUp, history, audit, recordTime>>

-----------------------------------------------------------------------------
(* The audit log.  The hash of an event stands for the event: its number.     *)

AppendAudit ==
    /\ recordsUp /\ RecordStep /\ Succeeds
    /\ LET hash == audit.last + 1
       IN  audit' = [audit EXCEPT !.events = Append(@, [hash |-> hash, prev |-> audit.last,
                                                        at |-> recordTime]),
                                  !.last = hash]
    /\ UNCHANGED <<contactVars, recordsUp, logVars, history, recordTime>>

(* Mutant: every event older than t is dropped, wherever it stands. *)
PrunedBeforeAnywhere(log, t) ==
    LET kept == SelectSeq(log.events, LAMBDA e : e.at >= t)
    IN  [events |-> kept, last |-> log.last,
         head |-> IF kept = <<>> THEN log.last ELSE kept[1].prev]
(* prune_before: the events before the first one that is young enough go, and *)
(* the hash of the last of them is kept.                                      *)
PrunedBefore(log, t) ==
    LET young == {i \in DOMAIN log.events : log.events[i].at >= t}
        n == IF young = {} THEN Len(log.events)
             ELSE (CHOOSE i \in young : \A j \in young : i <= j) - 1
        head == IF n = 0 THEN log.head ELSE log.events[n].hash
        kept == SubSeq(log.events, n + 1, Len(log.events))
    IN  [events |-> kept, head |-> head, last |-> IF kept = <<>> THEN head ELSE log.last]
PruneAudit(t) ==
    /\ recordsUp /\ RecordStep /\ Succeeds
    /\ audit' = PrunedBefore(audit, t)
    /\ UNCHANGED <<contactVars, recordsUp, logVars, history, recordTime>>

(* validate_chain, for a log that is not empty.                               *)
ChainValid(log) ==
    /\ log.events[1].prev = log.head
    /\ \A i \in 2..Len(log.events) : log.events[i].prev = log.events[i - 1].hash

(* The system clock, which may be set back.                                   *)
SetClock(t) ==
    /\ recordTime' = t /\ Succeeds
    /\ UNCHANGED <<contactVars, recordsUp, logVars, history, audit, recordSteps>>

RecordsNext ==
    \/ OpenStores \/ KillStores \/ ReconcileFromHistory \/ MarkDelivered
    \/ FlushLogs \/ AppendAudit
    \/ \E p \in RecordPeers :
         \/ Migrate(p) \/ AddContact(p) \/ RemoveContact(p) \/ RecordsRemoveConversation(p)
         \/ \E d \in Directions : AddMessage(p, d)
         \/ \E h \in BOOLEAN : SetHidden(p, h)
    \/ \E n \in 0 .. MaxHistory - 1 : EnforceRetention(n)
    \/ \E l \in LogLines : RecordLog(l) \/ PruneOldestLog(l)
    \/ \E t \in 1..MaxRecordTime : PruneHistory(t) \/ PruneAudit(t)
    \/ \E t \in 0..MaxRecordTime : SetClock(t)

RecordsSpec == RecordsInit /\ [][RecordsNext]_recordsVars

-----------------------------------------------------------------------------
(* A contact of the user is never destroyed by its move to a new key, however *)
(* the moves are killed or fail (migrate_unprefixed_contacts).  When the      *)
(* backend has not failed, every contact is found under its new key once the  *)
(* stores are open, wherever earlier openings were killed.                    *)
ContactsSurvive ==
    /\ \A p \in owned : bare[p] # {} \/ prefixed[p] # {}
    /\ Open /\ recordFaults = 0 => \A p \in owned : prefixed[p] # {}

(* The audit chain validates after any appends and prunes, also when the      *)
(* clock was set back in between ("Preserves chain integrity", prune_before). *)
ChainIntact == audit.events # <<>> => ChainValid(audit)

(* The deltas of a log line add up to the time it last occurred, through      *)
(* compaction, flushes, restarts and clock changes (record_log, flush).       *)
LogTimesExact ==
    \A l \in LogLines :
        Total(IF logCache[l] = {} THEN logs[l] ELSE CHOOSE d \in logCache[l] : TRUE) = lastLogged[l]

-----------------------------------------------------------------------------
(* The identity.  Keys, device ids and seniority timestamps are the number of *)
(* the generation that made them; 0 is none.  A write reaches the disk with   *)
(* the next flush, or with a kill as part of a prefix of the unflushed ones.  *)
VARIABLES backed,     \* the session has IdentityStore::Persistent, not a store in memory
          idDisk,     \* what a kill leaves
          idBuffer,   \* unflushed writes: <<field, value>>
          idUp,
          idMem,      \* the IdentityManager: keys, nick, device
          idJob,      \* the save under way, or none
          idNext, idKills, idFails,
          idAcked,    \* the persistent identity last reported to the caller (ghost)
          idTried,    \* identities a save was started for since (ghost)
          devAcked    \* the persistent device last reported (ghost)

identityVars == <<backed, idDisk, idBuffer, idUp, idMem, idJob, idNext, idKills,
                  idFails, idAcked, idTried, devAcked>>

NoJob    == [what |-> "none", val |-> 0, todo |-> <<>>]
NoMem    == [keys |-> 0, nick |-> "none", device |-> 0]
EmptyIds == [keys |-> 0, nick |-> "none", dev |-> 0, since |-> 0]

IdentityInit ==
    /\ backed = TRUE
    /\ idDisk = EmptyIds /\ idBuffer = <<>>
    /\ idUp = FALSE /\ idMem = NoMem /\ idJob = NoJob
    /\ idNext = 1 /\ idKills = 0 /\ idFails = 0
    /\ idAcked = 0 /\ idTried = {} /\ devAcked = 0

Written(store, writes) ==
    FoldLeft(LAMBDA s, w : [f \in DOMAIN s |-> IF f = w[1] THEN w[2] ELSE s[f]], store, writes)

(* Reads see the writes that are not yet flushed; a memory store keeps none.  *)
Stored == IF backed THEN Written(idDisk, idBuffer) ELSE EmptyIds
Load(field) == Stored[field]

(* Mutant: a device id without its timestamp is loaded.                       *)
LoadDeviceMetadataHalf(store) == store.dev

(* load_device_metadata: both fields, or none.                                *)
LoadDeviceMetadata(store) == IF store.dev # 0 /\ store.since # 0 THEN store.dev ELSE 0

(* hydrate_from_store: the device metadata is always taken from the store,    *)
(* keys and nickname only where the store has them.                           *)
Hydrated ==
    [keys   |-> IF Load("keys") # 0 THEN Load("keys") ELSE idMem.keys,
     nick   |-> IF Load("nick") # "none" THEN Load("nick") ELSE idMem.nick,
     device |-> LoadDeviceMetadata(Stored)]

Save(what, val, writes) == [what |-> what, val |-> val, todo |-> IF backed THEN writes ELSE <<>>]

(* save_device_metadata                                                       *)
SaveDevice(why, id) == Save(why, id, <<<<"dev", id>>, <<"since", id>>>>)

(* What a session on the persistent store has told the caller.                *)
Reported(id, tried, dev) ==
    IF backed THEN idAcked' = id /\ idTried' = tried /\ devAcked' = dev
    ELSE UNCHANGED <<idAcked, idTried, devAcked>>

(* ensure_device_metadata, for a manager that is m: new metadata is made when *)
(* there are keys and the store has none.                                     *)
EnsureDeviceMetadata(m, why) ==
    LET loaded == LoadDeviceMetadata(Stored)
    IN  IF m.keys = 0 \/ m.device # 0
          THEN idMem' = m /\ idJob' = NoJob /\ UNCHANGED idNext
        ELSE IF loaded # 0
          THEN idMem' = [m EXCEPT !.device = loaded] /\ idJob' = NoJob /\ UNCHANGED idNext
        ELSE /\ idNext <= MaxIds
             /\ idMem' = m /\ idJob' = SaveDevice(why, idNext) /\ idNext' = idNext + 1

(* IdentityManager::with_backend; IronCore falls back to a store in memory    *)
(* when the persistent one cannot be read.                                    *)
OpenIdentity ==
    /\ ~idUp
    /\ idUp' = TRUE
    /\ EnsureDeviceMetadata(Hydrated, "open")
    /\ Reported(Hydrated.keys, {}, Hydrated.device)
    /\ UNCHANGED <<backed, idDisk, idBuffer, idKills, idFails>>

OpenIdentityFails ==
    /\ ~idUp /\ idFails < MaxIdFails
    /\ idFails' = idFails + 1
    /\ idUp' = TRUE /\ backed' = FALSE
    /\ UNCHANGED <<idDisk, idBuffer, idMem, idJob, idNext, idKills, idAcked, idTried, devAcked>>

(* save_keys for a generated or an imported identity.                         *)
SaveKeys(m) ==
    /\ idNext <= MaxIds
    /\ idMem' = m
    /\ idJob' = Save("keys", idNext, <<<<"keys", idNext>>>>)
    /\ idNext' = idNext + 1
    /\ Reported(idAcked, idTried \cup {idNext}, devAcked)

(* initialize                                                                 *)
IdentityInitialize ==
    /\ idUp /\ idJob = NoJob
    /\ IF Hydrated.keys = 0 THEN SaveKeys(Hydrated)
       ELSE /\ EnsureDeviceMetadata(Hydrated, "device")
            /\ Reported(Hydrated.keys, IF idBuffer = <<>> THEN {} ELSE idTried \cup {idAcked}, devAcked)
    /\ UNCHANGED <<backed, idDisk, idBuffer, idUp, idKills, idFails>>

(* import_key_bytes                                                           *)
ImportKeyBytes ==
    /\ idUp /\ idJob = NoJob
    /\ SaveKeys(idMem)
    /\ UNCHANGED <<backed, idDisk, idBuffer, idUp, idKills, idFails>>

(* set_nickname and save_nickname                                             *)
SetIdentityNickname(n) ==
    /\ idUp /\ idJob = NoJob
    /\ idJob' = Save("nick", n, <<<<"nick", n>>>>)
    /\ UNCHANGED <<backed, idDisk, idBuffer, idUp, idMem, idNext, idKills, idFails, idAcked, idTried, devAcked>>

(* One put of a save.                                                         *)
PutIdentityField ==
    /\ idJob.todo # <<>>
    /\ idBuffer' = Append(idBuffer, Head(idJob.todo))
    /\ idJob' = [idJob EXCEPT !.todo = Tail(@)]
    /\ UNCHANGED <<backed, idDisk, idUp, idMem, idNext, idKills, idFails, idAcked, idTried, devAcked>>

(* The flush that ends a save; then the manager changes, and ensures the      *)
(* metadata after new keys.                                                   *)
FlushIdentity ==
    /\ idJob # NoJob /\ idJob.todo = <<>>
    /\ IF backed THEN idDisk' = Stored /\ idBuffer' = <<>> ELSE UNCHANGED <<idDisk, idBuffer>>
    /\ CASE idJob.what = "keys" ->
              /\ EnsureDeviceMetadata([idMem EXCEPT !.keys = idJob.val], "device")
              /\ Reported(idJob.val, {}, devAcked)
         [] idJob.what = "nick" ->
              /\ idMem' = [idMem EXCEPT !.nick = idJob.val] /\ idJob' = NoJob
              /\ UNCHANGED <<idNext, idAcked, idTried, devAcked>>
         [] idJob.what \in {"device", "open"} ->
              /\ idMem' = [idMem EXCEPT !.device = idJob.val] /\ idJob' = NoJob
              /\ Reported(idAcked, idTried, idJob.val)
              /\ UNCHANGED idNext
    /\ UNCHANGED <<backed, idUp, idKills, idFails>>

(* A put or the flush fails: the call returns the error, and what was put     *)
(* stays in the store.  With the error of the opening IronCore falls back to  *)
(* a store in memory.                                                         *)
IdentitySaveFails ==
    /\ backed /\ idJob # NoJob /\ idFails < MaxIdFails
    /\ idFails' = idFails + 1
    /\ idJob' = NoJob
    /\ IF idJob.what = "open" THEN backed' = FALSE /\ idMem' = NoMem ELSE UNCHANGED <<backed, idMem>>
    /\ UNCHANGED <<idDisk, idBuffer, idUp, idNext, idKills, idAcked, idTried, devAcked>>

(* The process is killed; a memory store is gone with it.                     *)
KillIdentity(n) ==
    /\ idUp /\ idKills < MaxIdKills
    /\ idKills' = idKills + 1
    /\ idUp' = FALSE /\ backed' = TRUE /\ idMem' = NoMem /\ idJob' = NoJob
    /\ idDisk' = Written(idDisk, SubSeq(idBuffer, 1, n)) /\ idBuffer' = <<>>
    /\ UNCHANGED <<idNext, idFails, idAcked, idTried, devAcked>>

IdentityNext ==
    \/ OpenIdentity \/ OpenIdentityFails \/ IdentityInitialize \/ ImportKeyBytes
    \/ PutIdentityField \/ FlushIdentity \/ IdentitySaveFails
    \/ \E n \in Nicks : SetIdentityNickname(n)
    \/ \E n \in 0..Len(idBuffer) : KillIdentity(n)

IdentitySpec == IdentityInit /\ [][IdentityNext]_identityVars

-----------------------------------------------------------------------------
(* Identity backups.  A file is known by the version that wrote it, its first *)
(* byte, its length, the passphrase and the length of the text in it.         *)
VARIABLE backup

backupVars == <<backup>>

FORMAT_TAG == 2
NoBackup == [kind |-> "none", first |-> 0, pass |-> "none", text |-> 0]

BackupInit == backup = NoBackup

(* encrypt_backup writes the tag, a salt, a nonce and the sealed text.        *)
ExportBackup(pass, text) ==
    backup' = [kind |-> "argon2id", first |-> FORMAT_TAG, pass |-> pass, text |-> text]

(* Earlier versions wrote no tag, and before that no salt: any first byte.    *)
OldBackup(kind, first, pass, text) ==
    backup' = [kind |-> kind, first |-> first, pass |-> pass, text |-> text]

BackupNext ==
    \E pass \in Passphrases, text \in 0..MaxText :
        \/ ExportBackup(pass, text)
        \/ \E kind \in {"salted", "bare"}, first \in {FORMAT_TAG, FORMAT_TAG + 1} :
             OldBackup(kind, first, pass, text)

BackupSpec == BackupInit /\ [][BackupNext]_backupVars

HeaderLen(kind) ==
    CASE kind = "argon2id" -> 1 + SALT_LEN + NONCE_LEN
      [] kind = "salted"   -> SALT_LEN + NONCE_LEN
      [] kind = "bare"     -> NONCE_LEN
BackupLen(file) == HeaderLen(file.kind) + file.text + TAG_LEN

(* try_decrypt with the key derived as kind does: the seal opens only for the *)
(* key and the bytes it was made with.                                        *)
TryDecrypt(file, kind, pass) == file.kind = kind /\ file.pass = pass

BackupError == -1

(* Mutant: a file that starts with the tag is of the new format.              *)
DecryptBackupByTag(file, pass) ==
    IF file.first = FORMAT_TAG
      THEN IF TryDecrypt(file, "argon2id", pass) THEN file.text ELSE BackupError
      ELSE IF \E kind \in {"salted", "bare"} : TryDecrypt(file, kind, pass) THEN file.text ELSE BackupError

(* decrypt_backup: the formats in turn, each where the file is long enough.   *)
DecryptBackup(file, pass) ==
    LET len == BackupLen(file)
        fits(kind) == len >= HeaderLen(kind) + TAG_LEN
    IN  IF len < NONCE_LEN + TAG_LEN THEN BackupError
        ELSE IF \/ file.first = FORMAT_TAG /\ fits("argon2id") /\ TryDecrypt(file, "argon2id", pass)
                \/ fits("salted") /\ TryDecrypt(file, "salted", pass)
                \/ TryDecrypt(file, "bare", pass)
          THEN file.text
        ELSE BackupError

-----------------------------------------------------------------------------
(* IndexedDbStorage.  Every put and remove starts a task of its own that      *)
(* opens the database and writes; the browser queues the openings of one      *)
(* database, so the writes arrive in order.  A removed key has value "none".  *)
VARIABLES pageMem,      \* the copy in memory
          pageDisk,     \* the browser's database
          pageTasks,    \* <<key, value>> of the tasks under way
          pageFailed,   \* keys whose last task failed (ghost)
          pageReloads

pageVars == <<pageMem, pageDisk, pageTasks, pageFailed, pageReloads>>

PageInit ==
    /\ pageDisk = [k \in PageKeys |-> "none"] /\ pageMem = pageDisk
    /\ pageTasks = <<>> /\ pageFailed = {} /\ pageReloads = 0

(* Mutant: a removal stays in memory.                                         *)
PersistTaskPutsOnly(k, v) == IF v = "none" THEN <<>> ELSE <<<<k, v>>>>

(* persist_put and persist_remove                                             *)
PersistTask(k, v) == <<<<k, v>>>>

PagePut(k, v) ==
    /\ Len(pageTasks) < MaxTasks
    /\ pageMem' = [pageMem EXCEPT ![k] = v]
    /\ pageTasks' = pageTasks \o PersistTask(k, v)
    /\ UNCHANGED <<pageDisk, pageFailed, pageReloads>>

(* A task ends; its errors are dropped.                                       *)
PageTaskEnds(ok) ==
    /\ pageTasks # <<>>
    /\ LET k == Head(pageTasks)[1]
       IN  /\ pageDisk' = IF ok THEN [pageDisk EXCEPT ![k] = Head(pageTasks)[2]] ELSE pageDisk
           /\ pageFailed' = IF ok THEN pageFailed \ {k} ELSE pageFailed \cup {k}
    /\ pageTasks' = Tail(pageTasks)
    /\ UNCHANGED <<pageMem, pageReloads>>

(* The page is closed, with what is under way, and IndexedDbStorage::new      *)
(* reads the database on the next visit.                                      *)
PageReload ==
    /\ pageReloads < MaxReloads
    /\ pageReloads' = pageReloads + 1
    /\ pageMem' = pageDisk /\ pageTasks' = <<>> /\ pageFailed' = {}
    /\ UNCHANGED pageDisk

PageNext ==
    \/ \E k \in PageKeys, v \in PageValues \cup {"none"} : PagePut(k, v)
    \/ \E ok \in BOOLEAN : PageTaskEnds(ok)
    \/ PageReload

PageSpec == PageInit /\ [][PageNext]_pageVars

-----------------------------------------------------------------------------
(* Wherever a save is cut off or fails, and whatever a session on the memory  *)
(* store does, the device a caller was told of is the device on disk, a       *)
(* device id is never paired with the timestamp of another, and the identity  *)
(* on disk is the one last reported or one whose save was started since       *)
(* (save_keys, save_device_metadata).                                         *)
IdentityStoreKept ==
    /\ devAcked # 0 => idDisk.dev = devAcked /\ idDisk.since = devAcked
    /\ idDisk.dev # 0 /\ idDisk.since # 0 => idDisk.dev = idDisk.since
    /\ idAcked # 0 => idDisk.keys \in {idAcked} \cup idTried
    /\ idAcked # 0 /\ idUp /\ backed => idMem.keys = idAcked

(* A backup of any version opens with its passphrase and no other, also when  *)
(* an old one happens to start with the tag of the new format, and down to an *)
(* empty text.                                                                *)
BackupsReadable ==
    backup # NoBackup =>
        \A pass \in Passphrases :
            DecryptBackup(backup, pass) = IF pass = backup.pass THEN backup.text ELSE BackupError

(* The browser's database differs from the copy in memory only at keys with a *)
(* task under way or a task that failed.                                      *)
PageStoreFollows ==
    \A k \in PageKeys :
        pageMem[k] # pageDisk[k] =>
            k \in pageFailed \/ \E i \in DOMAIN pageTasks : pageTasks[i][1] = k

(* The local stores through kills and clock changes: contacts are found       *)
(* after a migration, the audit chain validates, log times add up; the        *)
(* identity is kept, backups can be read and the browser's store follows.     *)
RecordsSound ==
    /\ ContactsSurvive /\ ChainIntact /\ LogTimesExact
    /\ IdentityStoreKept /\ BackupsReadable /\ PageStoreFollows
=============================================================================
