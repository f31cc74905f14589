---------------------------- MODULE MobileStores ----------------------------
(***************************************************************************)
(* The three stores the mobile apps use directly: the message history and  *)
(* the connection ledger of mobile_bridge.rs and the contact book of       *)
(* contacts_bridge.rs.  Every method takes the store's lock for one sled   *)
(* call or one scan; mark_delivered and every edit of a contact read and   *)
(* then write under two separate lockings, so other calls fall between.    *)
(*                                                                         *)
(* A ledger is a list of entries in memory and the file ledger.json, which *)
(* each change truncates and rewrites as a whole.  Two managers write the  *)
(* same file: the app's, which loads it when the app starts and goes on    *)
(* without it when that fails, and the core's, which never loads it and is *)
(* made anew with every start of the service.                              *)
(***************************************************************************)
EXTENDS Integers, FiniteSets, Sequences

CONSTANTS
    RecordIds,           \* message ids, in the order of the keys: a set of integers
    StorePeers,       \* conversation partners
    StoreCallers,          \* threads of the app that call the stores
    MaxStoreTime,     \* timestamps: 1..MaxStoreTime
    MaxLedgerCount,   \* bound on the success and failure counts
    MaxStoreCalls     \* bound on the calls of a behaviour

ASSUME StoresAssumption ==
    /\ RecordIds \subseteq Int /\ IsFiniteSet(RecordIds)
    /\ MaxStoreTime \in Nat /\ MaxLedgerCount \in Nat /\ MaxStoreCalls \in Nat

VARIABLES
    messages,     \* id -> record, the stored messages
    marking,      \* Callers -> what mark_delivered read and will write, {} if idle
    book,         \* peer -> contact
    editing,      \* Callers -> the contact an edit read and will write, {} if idle
    recovering,   \* Callers -> peers that reconcile_from_history has still to look at
    ledgers,      \* LedgerOwners -> (peer -> entry), the entries in memory
    ledgerFile,   \* peer -> entry, ledger.json as it was whole last
    fileWhole,    \* ledger.json is whole now
    fileHolder,   \* history: the manager that last wrote or loaded the file, if it lives
    storeCalls

storesVars == <<messages, marking, book, editing, recovering, ledgers, ledgerFile,
                fileWhole, fileHolder, storeCalls>>
historyVars == <<messages, marking>>
bookVars == <<book, editing, recovering>>
appLedgerVars == <<ledgers, ledgerFile, fileWhole, fileHolder>>

(* The LedgerManagers over one storage path. *)
LedgerOwners == {"app", "core"}

MessageRecord == [peer: StorePeers, time: 1..MaxStoreTime, delivered: BOOLEAN, hidden: BOOLEAN]
ContactEntry == [key: {"own", "peerId"}, nickname: BOOLEAN, verified: BOOLEAN, added: 1..MaxStoreTime]
LedgerEntry == [ok: 0..MaxLedgerCount, failed: 0..MaxLedgerCount, named: BOOLEAN]

EmptyAppStore == [x \in {} |-> x]
PutRecord(store, k, v) == [x \in DOMAIN store \cup {k} |-> IF x = k THEN v ELSE store[x]]
Without(store, S) == [x \in DOMAIN store \ S |-> store[x]]

StoresInit ==
    /\ messages = EmptyAppStore
    /\ marking = [t \in StoreCallers |-> {}]
    /\ book = EmptyAppStore
    /\ editing = [t \in StoreCallers |-> {}]
    /\ recovering = [t \in StoreCallers |-> {}]
    /\ ledgers = [o \in LedgerOwners |-> EmptyAppStore]
    /\ ledgerFile = EmptyAppStore /\ fileWhole = TRUE
    /\ fileHolder = "app"
    /\ storeCalls = 0

StoreCalled == storeCalls < MaxStoreCalls /\ storeCalls' = storeCalls + 1
Idle(t) == marking[t] = {} /\ editing[t] = {} /\ recovering[t] = {}

-----------------------------------------------------------------------------
(* HistoryManager                                                          *)

OfPeer(p) == {i \in DOMAIN messages: messages[i].peer = p}

(* add: a message sent or received, hidden when its sender is blocked. *)
AppAddMessage(i, p, time, hidden) ==
    /\ StoreCalled
    /\ messages' = PutRecord(messages, i, [peer |-> p, time |-> time, delivered |-> FALSE, hidden |-> hidden])
    /\ UNCHANGED <<marking, bookVars, appLedgerVars>>

(* mark_delivered: get under one locking ... *)
AppMarkDelivered(t, i) ==
    /\ StoreCalled /\ Idle(t)
    /\ marking' = [marking EXCEPT ![t] =
                      IF i \in DOMAIN messages THEN {<<i, [messages[i] EXCEPT !.delivered = TRUE]>>} ELSE {}]
    /\ UNCHANGED <<messages, bookVars, appLedgerVars>>

(* ... and add under the next. *)
MarkDeliveredWrite(t) ==
    /\ \E w \in marking[t]: messages' = PutRecord(messages, w[1], w[2])
    /\ marking' = [marking EXCEPT ![t] = {}]
    /\ UNCHANGED <<bookVars, appLedgerVars, storeCalls>>

(* Mutant: what is written back is a copy without the delivery mark. *)
HiddenStale(p, hidden) ==
    [i \in DOMAIN messages |-> IF i \in OfPeer(p)
                               THEN [messages[i] EXCEPT !.hidden = hidden, !.delivered = FALSE] ELSE messages[i]]

Hidden(p, hidden) ==
    [i \in DOMAIN messages |-> IF i \in OfPeer(p) THEN [messages[i] EXCEPT !.hidden = hidden] ELSE messages[i]]

(* hide_messages_for_peer and unhide_messages_for_peer: one locking. *)
AppSetHidden(p, hidden) ==
    /\ StoreCalled
    /\ messages' = Hidden(p, hidden)
    /\ UNCHANGED <<marking, bookVars, appLedgerVars>>

(* enforce_retention: a stable sort by time, newest first, keeps the first n. *)
NewerThan(i, j) == messages[i].time > messages[j].time \/ (messages[i].time = messages[j].time /\ i < j)
Overflow(n) == {i \in DOMAIN messages: Cardinality({j \in DOMAIN messages: NewerThan(j, i)}) >= n}

Prunable(before) == {i \in DOMAIN messages: messages[i].time < before}

(* delete, remove_conversation and clear_conversation, prune_before,       *)
(* enforce_retention and clear: each removes a set of messages at once.    *)
RemoveMessages ==
    /\ StoreCalled
    /\ \/ \E i \in DOMAIN messages: messages' = Without(messages, {i})
       \/ \E p \in StorePeers: messages' = Without(messages, OfPeer(p))
       \/ \E before \in 1..MaxStoreTime: messages' = Without(messages, Prunable(before))
       \/ \E n \in 0..Cardinality(RecordIds): messages' = Without(messages, Overflow(n))
    /\ UNCHANGED <<marking, bookVars, appLedgerVars>>

(* recent: what the readers of the history see. *)
Recent == {i \in DOMAIN messages: ~messages[i].hidden}

-----------------------------------------------------------------------------
(* ContactManager of contacts_bridge.rs                                    *)

NewContact(key, time) == [key |-> key, nickname |-> FALSE, verified |-> FALSE, added |-> time]

AppAddContact(p, time) ==
    /\ StoreCalled
    /\ book' = PutRecord(book, p, NewContact("own", time))
    /\ UNCHANGED <<editing, recovering, historyVars, appLedgerVars>>

AppRemoveContact(p) ==
    /\ StoreCalled /\ p \in DOMAIN book
    /\ book' = Without(book, {p})
    /\ UNCHANGED <<editing, recovering, historyVars, appLedgerVars>>

(* set_local_nickname, mark_verified, unverify; the nickname, last_seen    *)
(* and device id edits have the same form.                                 *)
Edits(c) == {[c EXCEPT !.nickname = n]: n \in BOOLEAN} \cup {[c EXCEPT !.verified = v]: v \in BOOLEAN}

EditContact(t, p) ==
    /\ StoreCalled /\ Idle(t) /\ p \in DOMAIN book
    /\ \E c \in Edits(book[p]): editing' = [editing EXCEPT ![t] = {<<p, c>>}]
    /\ UNCHANGED <<book, recovering, historyVars, appLedgerVars>>

(* merge_remote_contacts: the contact with the later added_at wins, but    *)
(* keeps a nickname and a verification only the local one has.             *)
RemoteContacts == {c \in ContactEntry: c.key = "own"}

MergedRecord(local, remote) ==
    [remote EXCEPT !.nickname = @ \/ local.nickname, !.verified = @ \/ local.verified]

MergeRemote(t, p, remote) ==
    /\ StoreCalled /\ Idle(t)
    /\ editing' = [editing EXCEPT ![t] =
                      IF p \notin DOMAIN book THEN {<<p, remote>>}
                      ELSE IF remote.added > book[p].added THEN {<<p, MergedRecord(book[p], remote)>>} ELSE {}]
    /\ UNCHANGED <<book, recovering, historyVars, appLedgerVars>>

(* reconcile_from_history and emergency_recover: the peers of the visible  *)
(* messages, then for each one a look-up and, if it is missing, an add of  *)
(* a contact whose public key is the peer id.                              *)
Reconcile(t) ==
    /\ StoreCalled /\ Idle(t)
    /\ recovering' = [recovering EXCEPT ![t] = {messages[i].peer: i \in Recent}]
    /\ UNCHANGED <<book, editing, historyVars, appLedgerVars>>

ReconcileNext(t, p) ==
    /\ editing[t] = {} /\ p \in recovering[t]
    /\ recovering' = [recovering EXCEPT ![t] = @ \ {p}]
    /\ editing' = [editing EXCEPT ![t] = IF p \in DOMAIN book THEN {} ELSE {<<p, NewContact("peerId", MaxStoreTime)>>}]
    /\ UNCHANGED <<book, historyVars, appLedgerVars, storeCalls>>

EditWrite(t) ==
    /\ \E w \in editing[t]: book' = PutRecord(book, w[1], w[2])
    /\ editing' = [editing EXCEPT ![t] = {}]
    /\ UNCHANGED <<recovering, historyVars, appLedgerVars, storeCalls>>

-----------------------------------------------------------------------------
(* LedgerManager                                                           *)

LedgerCap(n) == IF n < MaxLedgerCount THEN n + 1 ELSE n

LedgerConnected(es, a) == PutRecord(es, a, IF a \in DOMAIN es THEN [es[a] EXCEPT !.ok = LedgerCap(@)]
                               ELSE [ok |-> 1, failed |-> 0, named |-> FALSE])
LedgerFailed(es, a) == IF a \in DOMAIN es THEN PutRecord(es, a, [es[a] EXCEPT !.failed = LedgerCap(@)]) ELSE es
Annotated(es, a, named) == PutRecord(es, a, IF a \in DOMAIN es THEN [es[a] EXCEPT !.named = @ \/ named]
                                      ELSE [ok |-> 0, failed |-> 0, named |-> named])

(* The app's manager records connections and failures and annotates; the   *)
(* core annotates what the swarm identified or a peer's ledger named.      *)
LedgerChanges(o, a) ==
    {Annotated(ledgers[o], a, named): named \in BOOLEAN} \cup
    (IF o = "app" THEN {LedgerConnected(ledgers[o], a), LedgerFailed(ledgers[o], a)} ELSE {})

(* A change in memory and a write of all entries, both under the lock.  An *)
(* error is dropped: the directory could not be made, or the write ended   *)
(* after it had truncated the file.                                        *)
LedgerWrite(o, a) ==
    /\ StoreCalled
    /\ \E es \in LedgerChanges(o, a):
          /\ ledgers' = [ledgers EXCEPT ![o] = es]
          /\ \/ ledgerFile' = es /\ fileHolder' = o /\ fileWhole' = TRUE
             \/ fileWhole' \in {fileWhole, FALSE} /\ UNCHANGED <<ledgerFile, fileHolder>>
    /\ UNCHANGED <<historyVars, bookVars>>

(* Mutant: no manager loads the file. *)
LoadedNothing(o) == EmptyAppStore

(* LedgerManager::new has no entries; only the app calls load after it. *)
Loaded(o) == IF o = "app" THEN ledgerFile ELSE EmptyAppStore

(* The app is killed, perhaps in a write, and started again: calls under   *)
(* way are gone.  A file that cannot be read or parsed is an error the app *)
(* ignores: its manager stays empty.                                       *)
RestartApp ==
    /\ StoreCalled
    /\ marking' = [t \in StoreCallers |-> {}]
    /\ editing' = [t \in StoreCallers |-> {}]
    /\ recovering' = [t \in StoreCallers |-> {}]
    /\ fileWhole' \in {fileWhole, FALSE}
    /\ \/ fileWhole' /\ ledgers' = [o \in LedgerOwners |-> Loaded(o)] /\ fileHolder' = "app"
       \/ ledgers' = [o \in LedgerOwners |-> EmptyAppStore] /\ fileHolder' = "none"
    /\ UNCHANGED <<messages, book, ledgerFile>>

(* The service stops, which drops the core, and starts with a new core.    *)
RestartService ==
    /\ StoreCalled
    /\ ledgers' = [ledgers EXCEPT !["core"] = EmptyAppStore]
    /\ fileHolder' = IF fileHolder = "core" THEN "none" ELSE fileHolder
    /\ UNCHANGED <<historyVars, bookVars, ledgerFile, fileWhole>>

-----------------------------------------------------------------------------
StoresNext ==
    \/ \E i \in RecordIds, p \in StorePeers, time \in 1..MaxStoreTime, h \in BOOLEAN: AppAddMessage(i, p, time, h)
    \/ \E t \in StoreCallers, i \in RecordIds: AppMarkDelivered(t, i)
    \/ \E t \in StoreCallers: MarkDeliveredWrite(t) \/ EditWrite(t) \/ Reconcile(t)
    \/ \E p \in StorePeers, h \in BOOLEAN: AppSetHidden(p, h)
    \/ RemoveMessages
    \/ \E p \in StorePeers, time \in 1..MaxStoreTime: AppAddContact(p, time)
    \/ \E p \in StorePeers: AppRemoveContact(p)
    \/ \E t \in StoreCallers, p \in StorePeers: EditContact(t, p) \/ ReconcileNext(t, p)
    \/ \E t \in StoreCallers, p \in StorePeers, c \in RemoteContacts: MergeRemote(t, p, c)
    \/ \E o \in LedgerOwners, a \in StorePeers: LedgerWrite(o, a)
    \/ RestartApp \/ RestartService

StoresSpec == StoresInit /\ [][StoresNext]_storesVars

-----------------------------------------------------------------------------
StoresTypeOK ==
    /\ \A i \in DOMAIN messages: i \in RecordIds /\ messages[i] \in MessageRecord
    /\ \A t \in StoreCallers: marking[t] \subseteq RecordIds \X MessageRecord
    /\ \A p \in DOMAIN book: p \in StorePeers /\ book[p] \in ContactEntry
    /\ \A t \in StoreCallers: editing[t] \subseteq StorePeers \X ContactEntry /\ recovering[t] \subseteq StorePeers
    /\ \A o \in LedgerOwners: \A a \in DOMAIN ledgers[o]: a \in StorePeers /\ ledgers[o][a] \in LedgerEntry
    /\ \A a \in DOMAIN ledgerFile: a \in StorePeers /\ ledgerFile[a] \in LedgerEntry
    /\ fileHolder \in LedgerOwners \cup {"none"} /\ fileWhole \in BOOLEAN
    /\ storeCalls \in 0..MaxStoreCalls

(* No address leaves ledger.json and no count in it goes back, from one    *)
(* whole file to the next.                                                 *)
LedgerGrows ==
    \A a \in DOMAIN ledgerFile:
       /\ a \in DOMAIN ledgerFile'
       /\ ledgerFile[a].ok <= ledgerFile'[a].ok
       /\ ledgerFile[a].failed <= ledgerFile'[a].failed
       /\ ledgerFile[a].named => ledgerFile'[a].named

(* A message that was marked delivered is never undelivered again, however *)
(* mark_delivered interleaves with hiding and with deletions: only a new   *)
(* add of the same id resets the mark (HistoryManager, mobile_bridge.rs).  *)
DeliveredKept ==
    \A i \in DOMAIN messages \cap DOMAIN messages':
       (messages[i].delivered /\ ~messages'[i].delivered)
          => \E p \in StorePeers, time \in 1..MaxStoreTime, h \in BOOLEAN: AppAddMessage(i, p, time, h)

(* ledger.json forgets only when it changes hands (LedgerManager,          *)
(* mobile_bridge.rs): through writes that fail and leave it torn, restarts *)
(* of the app and of the service, the manager that last wrote or loaded    *)
(* the file takes nothing out of it.  A manager that holds nothing of the  *)
(* file erases it: the other one's, or that of an app whose load failed.   *)
LedgerLostOnlyByHandover == LedgerGrows \/ fileHolder' # fileHolder

(* Overlapping calls, failed writes and restarts do not take back a        *)
(* delivered mark, nor anything in the ledger that the same manager wrote. *)
StoresKept ==
    [][UNCHANGED storesVars \/ (LedgerLostOnlyByHandover /\ DeliveredKept)]_storesVars
=============================================================================
