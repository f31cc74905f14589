--------------------------- MODULE Stores_proofs ----------------------------
(***************************************************************************)
(* Proofs about a mobile node, for any callers, messages and addresses:    *)
(* the history and the ledger of MobileStores, and the life cycle and the  *)
(* device profile of MobileService.                                        *)
(***************************************************************************)
EXTENDS MobileStores, MobileService, TLAPS

(* The history and the ledger of the apps. *)

(* A later ledger holds every address of an earlier one, with counts that  *)
(* did not go back.                                                        *)
CountedEntry == [ok: Nat, failed: Nat, named: BOOLEAN]
Counted(es) == \A a \in DOMAIN es: es[a] \in CountedEntry
Covers(later, es) ==
    \A a \in DOMAIN es:
       /\ a \in DOMAIN later
       /\ es[a].ok <= later[a].ok /\ es[a].failed <= later[a].failed
       /\ es[a].named => later[a].named

(* The memory of the manager that holds the file covers it, and            *)
(* mark_delivered never carries a record that is not marked.               *)
KeptInv ==
    /\ DOMAIN ledgers = LedgerOwners
    /\ \A o \in LedgerOwners: Counted(ledgers[o])
    /\ Counted(ledgerFile)
    /\ fileHolder \in LedgerOwners => Covers(ledgers[fileHolder], ledgerFile)
    /\ DOMAIN marking = StoreCallers
    /\ \A t \in StoreCallers: \A w \in marking[t]: w[2] \in MessageRecord /\ w[2].delivered = TRUE
    /\ \A i \in DOMAIN messages: messages[i] \in MessageRecord

(* A ledger covers itself.                                                 *)
LEMMA CoversItself ==
    ASSUME NEW es, Counted(es) PROVE Covers(es, es)
  BY DEF Counted, Covers, CountedEntry

(* What covers a later ledger covers an earlier one.                       *)
LEMMA CoversThrough ==
    ASSUME NEW x, NEW y, NEW z, Counted(x), Counted(y), Counted(z), Covers(y, x), Covers(z, y)
    PROVE  Covers(z, x)
<1> SUFFICES ASSUME NEW a \in DOMAIN x
             PROVE  /\ a \in DOMAIN z /\ x[a].ok <= z[a].ok /\ x[a].failed <= z[a].failed
                    /\ x[a].named => z[a].named
  BY Zenon DEF Covers
<1>1. /\ a \in DOMAIN y /\ x[a].ok <= y[a].ok /\ x[a].failed <= y[a].failed
      /\ x[a].named => y[a].named
  BY Zenon DEF Covers
<1>2. /\ a \in DOMAIN z /\ y[a].ok <= z[a].ok /\ y[a].failed <= z[a].failed
      /\ y[a].named => z[a].named
  BY <1>1, Zenon DEF Covers
<1>3. /\ x[a].ok \in Nat /\ y[a].ok \in Nat /\ z[a].ok \in Nat
      /\ x[a].failed \in Nat /\ y[a].failed \in Nat /\ z[a].failed \in Nat
  BY <1>1, <1>2, Zenon DEF Counted, CountedEntry
<1> QED
  BY <1>1, <1>2, <1>3

(* An entry put into a ledger is new or counts no less than the old one.   *)
LEMMA PutCovers ==
    ASSUME NEW es, Counted(es), NEW a, NEW e \in CountedEntry,
           a \in DOMAIN es => /\ es[a].ok <= e.ok /\ es[a].failed <= e.failed
                              /\ es[a].named => e.named
    PROVE  Counted(PutRecord(es, a, e)) /\ Covers(PutRecord(es, a, e), es)
<1> DEFINE new == PutRecord(es, a, e)
<1>1. DOMAIN new = DOMAIN es \cup {a} /\ \A x \in DOMAIN new: new[x] = IF x = a THEN e ELSE es[x]
  BY Zenon DEF PutRecord
<1> HIDE DEF new
<1>2. Counted(new)
  BY <1>1, Zenon DEF Counted
<1>3. Covers(new, es)
  BY <1>1, CoversItself, Zenon DEF Covers
<1> QED
  BY <1>2, <1>3, Zenon DEF new

(* Every operation of the ledger gives a ledger that covers the one        *)
(* before.                                                                 *)
LEMMA LedgerChangeCovers ==
    ASSUME NEW es, Counted(es), NEW a,
           NEW later \in {LedgerConnected(es, a), LedgerFailed(es, a)}
                          \cup {Annotated(es, a, named): named \in BOOLEAN}
    PROVE  Counted(later) /\ Covers(later, es)
<1>0. a \in DOMAIN es => /\ es[a] \in CountedEntry
                         /\ es[a].ok \in Nat /\ es[a].failed \in Nat /\ es[a].named \in BOOLEAN
  BY Zenon DEF Counted, CountedEntry
<1>1. \A n \in Nat: LedgerCap(n) \in Nat /\ n <= LedgerCap(n)
  BY StoresAssumption DEF LedgerCap
<1>2. CASE later = LedgerConnected(es, a)
  <2> DEFINE e == IF a \in DOMAIN es THEN [es[a] EXCEPT !.ok = LedgerCap(@)]
                  ELSE [ok |-> 1, failed |-> 0, named |-> FALSE]
  <2>1. CASE a \in DOMAIN es
    <3>1. /\ e \in CountedEntry /\ es[a].ok <= e.ok /\ es[a].failed = e.failed
          /\ es[a].named = e.named
      BY <1>0, <1>1, <2>1, Zenon DEF CountedEntry
    <3> HIDE DEF e
    <3>2. es[a].failed <= e.failed
      BY <1>0, <2>1, <3>1
    <3>3. Counted(PutRecord(es, a, e)) /\ Covers(PutRecord(es, a, e), es)
      BY <3>1, <3>2, PutCovers, Zenon
    <3> QED
      BY <1>2, <3>3, Zenon DEF LedgerConnected, e
  <2>2. CASE a \notin DOMAIN es
    <3>1. e \in CountedEntry
      BY <2>2, Zenon DEF CountedEntry
    <3> HIDE DEF e
    <3>3. Counted(PutRecord(es, a, e)) /\ Covers(PutRecord(es, a, e), es)
      BY <2>2, <3>1, PutCovers, Zenon
    <3> QED
      BY <1>2, <3>3, Zenon DEF LedgerConnected, e
  <2> QED
    BY <2>1, <2>2, Zenon
<1>3. CASE later = LedgerFailed(es, a)
  <2>1. CASE a \in DOMAIN es
    <3> DEFINE e == [es[a] EXCEPT !.failed = LedgerCap(@)]
    <3>1. /\ e \in CountedEntry /\ es[a].ok = e.ok /\ es[a].failed <= e.failed
          /\ es[a].named = e.named
      BY <1>0, <1>1, <2>1, Zenon DEF CountedEntry
    <3> HIDE DEF e
    <3>2. es[a].ok <= e.ok
      BY <1>0, <2>1, <3>1
    <3>3. Counted(PutRecord(es, a, e)) /\ Covers(PutRecord(es, a, e), es)
      BY <3>1, <3>2, PutCovers, Zenon
    <3> QED
      BY <1>3, <2>1, <3>3, Zenon DEF LedgerFailed, e
  <2>2. CASE a \notin DOMAIN es
    BY <1>3, <2>2, CoversItself, Zenon DEF LedgerFailed
  <2> QED
    BY <2>1, <2>2, Zenon
<1>4. ASSUME NEW named \in BOOLEAN, later = Annotated(es, a, named)
      PROVE  Counted(later) /\ Covers(later, es)
  <2> DEFINE e == IF a \in DOMAIN es THEN [es[a] EXCEPT !.named = @ \/ named]
                  ELSE [ok |-> 0, failed |-> 0, named |-> named]
  <2>1. CASE a \in DOMAIN es
    <3> DEFINE both == es[a].named \/ named
    <3>1. both \in BOOLEAN /\ (es[a].named => both)
      BY <1>0, <2>1, Zenon
    <3>2. e = [es[a] EXCEPT !.named = both]
      BY <2>1, Zenon
    <3> HIDE DEF e, both
    <3>3. e \in CountedEntry /\ es[a].ok = e.ok /\ es[a].failed = e.failed /\ e.named = both
      BY <1>0, <2>1, <3>1, <3>2, Zenon DEF CountedEntry
    <3>4. es[a].ok <= e.ok /\ es[a].failed <= e.failed
      BY <1>0, <2>1, <3>3
    <3>5. Counted(PutRecord(es, a, e)) /\ Covers(PutRecord(es, a, e), es)
      BY <3>1, <3>3, <3>4, PutCovers, Zenon
    <3> QED
      BY <1>4, <3>5, Zenon DEF Annotated, e
  <2>2. CASE a \notin DOMAIN es
    <3>1. e \in CountedEntry
      BY <2>2, Zenon DEF CountedEntry
    <3> HIDE DEF e
    <3>3. Counted(PutRecord(es, a, e)) /\ Covers(PutRecord(es, a, e), es)
      BY <2>2, <3>1, PutCovers, Zenon
    <3> QED
      BY <1>4, <3>3, Zenon DEF Annotated, e
  <2> QED
    BY <2>1, <2>2, Zenon
<1> QED
  BY <1>2, <1>3, <1>4, Zenon

(* Empty stores keep everything.                                           *)
LEMMA KeptInitially == StoresInit => KeptInv
<1> SUFFICES ASSUME StoresInit PROVE KeptInv
  BY Zenon
<1>1. DOMAIN EmptyAppStore = {}
  BY Zenon DEF EmptyAppStore
<1>2. /\ \A o \in LedgerOwners: ledgers[o] = EmptyAppStore
      /\ ledgerFile = EmptyAppStore /\ messages = EmptyAppStore
  BY Zenon DEF StoresInit
<1>3. DOMAIN ledgers = LedgerOwners /\ DOMAIN marking = StoreCallers
      /\ \A t \in StoreCallers: marking[t] = {}
  BY Zenon DEF StoresInit
<1> QED
  BY <1>1, <1>2, <1>3, Zenon DEF KeptInv, Counted, Covers

(* The steps that leave the ledger alone keep its part, the others keep    *)
(* the history's.                                                          *)
HistoryPart ==
    /\ DOMAIN marking = StoreCallers
    /\ \A t \in StoreCallers: \A w \in marking[t]: w[2] \in MessageRecord /\ w[2].delivered = TRUE
    /\ \A i \in DOMAIN messages: messages[i] \in MessageRecord

(* Every step keeps the history's records and marks.                       *)
LEMMA HistoryKept ==
    ASSUME KeptInv, StoresNext
    PROVE  HistoryPart' /\ DeliveredKept
<1> USE DEF HistoryPart
<1>0. /\ DOMAIN marking = StoreCallers
      /\ \A t \in StoreCallers: \A w \in marking[t]: w[2] \in MessageRecord /\ w[2].delivered = TRUE
      /\ \A i \in DOMAIN messages: messages[i] \in MessageRecord
  BY Zenon DEF KeptInv
<1>1. CASE UNCHANGED <<messages, marking>>
  BY <1>0, <1>1, Zenon DEF DeliveredKept
<1>2. ASSUME NEW i \in RecordIds, NEW p \in StorePeers, NEW time \in 1..MaxStoreTime,
             NEW h \in BOOLEAN, AppAddMessage(i, p, time, h)
      PROVE  HistoryPart' /\ DeliveredKept
  <2> DEFINE r == [peer |-> p, time |-> time, delivered |-> FALSE, hidden |-> h]
  <2>1. messages' = PutRecord(messages, i, r) /\ marking' = marking
    BY <1>2, Zenon DEF AppAddMessage
  <2>2. r.delivered = FALSE /\ r \in MessageRecord
    BY Zenon DEF MessageRecord
  <2> HIDE DEF r
  <2>3. /\ DOMAIN messages' = DOMAIN messages \cup {i}
        /\ \A j \in DOMAIN messages': messages'[j] = IF j = i THEN r ELSE messages[j]
    BY <2>1, Zenon DEF PutRecord
  <2>4. HistoryPart'
    BY <1>0, <2>1, <2>2, <2>3, Zenon
  <2>5. DeliveredKept
    <3> SUFFICES ASSUME NEW j \in DOMAIN messages \cap DOMAIN messages',
                        messages[j].delivered, ~messages'[j].delivered
                 PROVE  \E q \in StorePeers, u \in 1..MaxStoreTime, g \in BOOLEAN:
                            AppAddMessage(j, q, u, g)
      BY Zenon DEF DeliveredKept
    <3>1. j = i
      BY <2>3, Zenon
    <3> QED
      BY <1>2, <3>1, Zenon
  <2> QED
    BY <2>4, <2>5, Zenon
<1>3. ASSUME NEW t \in StoreCallers, NEW i \in RecordIds, AppMarkDelivered(t, i)
      PROVE  HistoryPart' /\ DeliveredKept
  <2>1. messages' = messages /\ DOMAIN marking' = StoreCallers
    BY <1>0, <1>3, Zenon DEF AppMarkDelivered
  <2>2. ASSUME NEW u \in StoreCallers, NEW w \in marking'[u]
        PROVE  w[2] \in MessageRecord /\ w[2].delivered = TRUE
    <3>1. CASE u # t
      <4>1. marking'[u] = marking[u]
        BY <1>0, <1>3, <3>1, Zenon DEF AppMarkDelivered
      <4> QED
        BY <1>0, <2>2, <4>1, Zenon
    <3>2. CASE u = t
      <4> DEFINE r == [messages[i] EXCEPT !.delivered = TRUE]
      <4>1. i \in DOMAIN messages /\ w = <<i, r>>
        BY <1>0, <1>3, <2>2, <3>2, Zenon DEF AppMarkDelivered
      <4>2. r \in MessageRecord /\ r.delivered = TRUE
        BY <1>0, <4>1, Zenon DEF MessageRecord
      <4> QED
        BY <4>1, <4>2, Zenon
    <3> QED
      BY <3>1, <3>2, Zenon
  <2> QED
    BY <1>0, <2>1, <2>2, Zenon DEF DeliveredKept
<1>4. ASSUME NEW t \in StoreCallers, MarkDeliveredWrite(t)
      PROVE  HistoryPart' /\ DeliveredKept
  <2>1. PICK w \in marking[t]: messages' = PutRecord(messages, w[1], w[2])
    BY <1>4, Zenon DEF MarkDeliveredWrite
  <2>2. w[2] \in MessageRecord /\ w[2].delivered = TRUE
    BY <1>0, Zenon
  <2>3. /\ DOMAIN messages' = DOMAIN messages \cup {w[1]}
        /\ \A j \in DOMAIN messages': messages'[j] = IF j = w[1] THEN w[2] ELSE messages[j]
    BY <2>1, Zenon DEF PutRecord
  <2>4. marking' = [marking EXCEPT ![t] = {}]
    BY <1>4, Zenon DEF MarkDeliveredWrite
  <2> QED
    BY <1>0, <2>2, <2>3, <2>4, Zenon DEF DeliveredKept
<1>5. ASSUME NEW p \in StorePeers, NEW h \in BOOLEAN, AppSetHidden(p, h)
      PROVE  HistoryPart' /\ DeliveredKept
  <2>1. messages' = Hidden(p, h) /\ marking' = marking
    BY <1>5, Zenon DEF AppSetHidden
  <2>2. DOMAIN messages' = DOMAIN messages
        /\ \A j \in DOMAIN messages: /\ messages'[j] \in MessageRecord
                                     /\ messages'[j].delivered = messages[j].delivered
    BY <1>0, <2>1, Zenon DEF Hidden, MessageRecord
  <2> QED
    BY <1>0, <2>1, <2>2, Zenon DEF DeliveredKept
<1>6. CASE RemoveMessages
  <2>1. PICK S: messages' = Without(messages, S) /\ marking' = marking
    BY <1>6, Zenon DEF RemoveMessages
  <2>2. DOMAIN messages' \subseteq DOMAIN messages
        /\ \A j \in DOMAIN messages': messages'[j] = messages[j]
    BY <2>1, Zenon DEF Without
  <2> QED
    BY <1>0, <2>1, <2>2, Zenon DEF DeliveredKept
<1>7. CASE RestartApp
  BY <1>0, <1>7, Zenon DEF RestartApp, DeliveredKept
<1>10. CASE RestartService
  BY <1>1, <1>10, Zenon DEF RestartService, historyVars
<1>8. ASSUME NEW t \in StoreCallers, EditWrite(t) \/ Reconcile(t)
      PROVE  UNCHANGED <<messages, marking>>
  BY <1>8, Zenon DEF EditWrite, Reconcile, historyVars
<1>9. ASSUME NEW p \in StorePeers,
             \/ \E time \in 1..MaxStoreTime: AppAddContact(p, time)
             \/ AppRemoveContact(p)
             \/ \E t \in StoreCallers: EditContact(t, p) \/ ReconcileNext(t, p)
             \/ \E t \in StoreCallers, c \in RemoteContacts: MergeRemote(t, p, c)
             \/ \E o \in LedgerOwners: LedgerWrite(o, p)
      PROVE  UNCHANGED <<messages, marking>>
  BY <1>9, Zenon DEF AppAddContact, AppRemoveContact, EditContact, ReconcileNext, MergeRemote,
     LedgerWrite,
              historyVars
<1> HIDE DEF HistoryPart
<1> QED
  BY <1>1, <1>2, <1>3, <1>4, <1>5, <1>6, <1>7, <1>8, <1>9, <1>10, Zenon DEF StoresNext

(* The part of the invariant that is about the ledgers.                    *)
LedgerPart ==
    /\ DOMAIN ledgers = LedgerOwners
    /\ \A o \in LedgerOwners: Counted(ledgers[o])
    /\ Counted(ledgerFile)
    /\ fileHolder \in LedgerOwners => Covers(ledgers[fileHolder], ledgerFile)

(* Every step keeps the file covered by the ledger of the manager that     *)
(* holds it.                                                               *)
LEMMA LedgerKept ==
    ASSUME KeptInv, StoresNext
    PROVE  LedgerPart' /\ (Covers(ledgerFile', ledgerFile) \/ fileHolder' # fileHolder)
<1>0. LedgerPart
  BY Zenon DEF KeptInv, LedgerPart
<1>1. CASE UNCHANGED <<ledgers, ledgerFile, fileHolder>>
  BY <1>0, <1>1, CoversItself, Zenon DEF LedgerPart
<1>2. ASSUME NEW o \in LedgerOwners, NEW a \in StorePeers, LedgerWrite(o, a)
      PROVE  LedgerPart' /\ (Covers(ledgerFile', ledgerFile) \/ fileHolder' # fileHolder)
  <2> DEFINE es == ledgers[o]
  <2>1. PICK later \in LedgerChanges(o, a):
            /\ ledgers' = [ledgers EXCEPT ![o] = later]
            /\ \/ ledgerFile' = later /\ fileHolder' = o
               \/ ledgerFile' = ledgerFile /\ fileHolder' = fileHolder
    BY <1>2, Zenon DEF LedgerWrite
  <2>2. later \in {LedgerConnected(es, a), LedgerFailed(es, a)}
                  \cup {Annotated(es, a, named): named \in BOOLEAN}
    BY Zenon DEF LedgerChanges
  <2>3. Counted(es) /\ Counted(ledgerFile)
    BY <1>0, Zenon DEF LedgerPart
  <2>4. Counted(later) /\ Covers(later, es)
    BY <2>2, <2>3, LedgerChangeCovers, Zenon
  <2>5. /\ DOMAIN ledgers' = LedgerOwners /\ ledgers'[o] = later
        /\ \A x \in LedgerOwners: x # o => ledgers'[x] = ledgers[x]
    BY <1>0, <2>1, Zenon DEF LedgerPart
  <2>6. fileHolder = o => Covers(later, ledgerFile)
    BY <1>0, <2>3, <2>4, CoversThrough, Zenon DEF LedgerPart
  <2>7. \A x \in LedgerOwners: Counted(ledgers'[x])
    BY <1>0, <2>4, <2>5, Zenon DEF LedgerPart
  <2>8. CASE ledgerFile' = later /\ fileHolder' = o
    BY <2>4, <2>5, <2>6, <2>7, <2>8, CoversItself, Zenon DEF LedgerPart
  <2>9. CASE ledgerFile' = ledgerFile /\ fileHolder' = fileHolder
    BY <1>0, <2>3, <2>5, <2>6, <2>7, <2>9, CoversItself, Zenon DEF LedgerPart
  <2> QED
    BY <2>1, <2>8, <2>9, Zenon
<1>3. CASE RestartApp
  <2>1. Counted(EmptyAppStore)
    BY Zenon DEF Counted, EmptyAppStore
  <2>2. ledgerFile' = ledgerFile
    BY <1>3, Zenon DEF RestartApp
  <2>3. CASE ledgers' = [o \in LedgerOwners |-> Loaded(o)] /\ fileHolder' = "app"
    <3>1. /\ ledgers'["app"] = ledgerFile /\ ledgers'["core"] = EmptyAppStore
          /\ DOMAIN ledgers' = LedgerOwners
      BY <2>3, Zenon DEF Loaded, LedgerOwners
    <3> QED
      BY <1>0, <2>1, <2>2, <2>3, <3>1, CoversItself, Zenon DEF LedgerPart, LedgerOwners
  <2>4. CASE ledgers' = [o \in LedgerOwners |-> EmptyAppStore] /\ fileHolder' = "none"
    <3>1. fileHolder' \notin LedgerOwners
      BY <2>4, Zenon DEF LedgerOwners
    <3>2. DOMAIN ledgers' = LedgerOwners /\ \A o \in LedgerOwners: ledgers'[o] = EmptyAppStore
      BY <2>4, Zenon
    <3> QED
      BY <1>0, <2>1, <2>2, <3>1, <3>2, CoversItself, Zenon DEF LedgerPart
  <2> QED
    BY <1>3, <2>3, <2>4, Zenon DEF RestartApp
<1>7. CASE RestartService
  <2>1. /\ ledgers'["core"] = EmptyAppStore /\ ledgers'["app"] = ledgers["app"]
        /\ DOMAIN ledgers' = LedgerOwners /\ ledgerFile' = ledgerFile
    BY <1>0, <1>7, Zenon DEF RestartService, LedgerPart, LedgerOwners
  <2>2. Counted(EmptyAppStore)
    BY Zenon DEF Counted, EmptyAppStore
  <2>3. fileHolder' # "core" /\ (fileHolder' = "app" => fileHolder = "app")
    BY <1>7, Zenon DEF RestartService
  <2> QED
    BY <1>0, <2>1, <2>2, <2>3, CoversItself, Zenon DEF LedgerPart, LedgerOwners
<1>4. ASSUME NEW t \in StoreCallers,
             \/ \E i \in RecordIds: AppMarkDelivered(t, i)
             \/ MarkDeliveredWrite(t) \/ EditWrite(t) \/ Reconcile(t)
      PROVE  UNCHANGED <<ledgers, ledgerFile, fileHolder>>
  BY <1>4, Zenon DEF AppMarkDelivered, MarkDeliveredWrite, EditWrite, Reconcile, appLedgerVars
<1>5. ASSUME NEW p \in StorePeers,
             \/ \E i \in RecordIds, time \in 1..MaxStoreTime, h \in BOOLEAN: AppAddMessage(i, p, time, h)
             \/ \E h \in BOOLEAN: AppSetHidden(p, h)
             \/ \E time \in 1..MaxStoreTime: AppAddContact(p, time)
             \/ AppRemoveContact(p)
             \/ \E t \in StoreCallers: EditContact(t, p) \/ ReconcileNext(t, p)
             \/ \E t \in StoreCallers, c \in RemoteContacts: MergeRemote(t, p, c)
      PROVE  UNCHANGED <<ledgers, ledgerFile, fileHolder>>
  BY <1>5, Zenon DEF AppAddMessage, AppSetHidden, AppAddContact, AppRemoveContact, EditContact,
     ReconcileNext,
              MergeRemote, appLedgerVars
<1>6. CASE RemoveMessages
  BY <1>1, <1>6, Zenon DEF RemoveMessages, appLedgerVars
<1> QED
  BY <1>1, <1>2, <1>3, <1>4, <1>5, <1>6, <1>7, Zenon DEF StoresNext

(* With both managers at work on ledger.json, and for any callers,         *)
(* messages and addresses: a delivered mark is never taken back, and only  *)
(* a write by the other manager, or by one whose load failed, takes an     *)
(* address or a count out of the ledger (core/src/mobile_bridge.rs).       *)
THEOREM StoresStayKept ==
    StoresSpec => StoresKept
<1>1. StoresInit => KeptInv
  BY KeptInitially, Zenon
<1>2. KeptInv /\ [StoresNext]_storesVars => KeptInv'
  <2>1. KeptInv /\ UNCHANGED storesVars => KeptInv'
    BY Zenon DEF KeptInv, storesVars
  <2> QED
    BY <2>1, HistoryKept, LedgerKept, Zenon DEF KeptInv, HistoryPart, LedgerPart
<1>3. KeptInv /\ [StoresNext]_storesVars =>
         [UNCHANGED storesVars \/ (LedgerLostOnlyByHandover /\ DeliveredKept)]_storesVars
  BY HistoryKept, LedgerKept, Zenon DEF LedgerLostOnlyByHandover, LedgerGrows, Covers
<1> QED
  BY <1>1, <1>2, <1>3, PTL DEF StoresSpec, StoresKept

-----------------------------------------------------------------------------
(* The life cycle of the mobile service. *)

(* The calls the application can be inside, and the swarms being launched. *)
Modes == {"full", "headless"}
Swarms == 1 .. MaxCalls
StartFrame(at, core) == [op |-> "start", at |-> at, core |-> core]
StopFrame(at) == [op |-> "stop", at |-> at]
BudgetFrame(at, b) == [op |-> "budget", at |-> at, b |-> b]
SwarmFrame(at, s, mode) == [op |-> "start_swarm", at |-> at, swarm |-> s, mode |-> mode]
BridgeFrame(s) == [op |-> "bridge", swarm |-> s]
Frame(f) ==
    \/ f = NoCall
    \/ \E at \in {"core", "budget", "run"}, k \in Nat: f = StartFrame(at, k)
    \/ \E at \in {"core", "swarm", "mode"}: f = StopFrame(at)
    \/ \E at \in {"core", "swarm"}, b \in Budgets: f = BudgetFrame(at, b)
    \/ \E at \in {"existing", "spawn"}, s \in Swarms, mode \in Modes: f = SwarmFrame(at, s, mode)
    \/ \E s \in Swarms: f = BridgeFrame(s)
LaunchThread == [s: Swarms, mode: Modes, at: {"handle", "mode", "budget"}]

(* The state of the service.                                               *)
SvcTypes ==
    /\ caller = [c \in Callers |-> caller[c]]
    /\ \A c \in Callers: Frame(caller[c])
    /\ calls \in 0 .. MaxCalls
    /\ svcCore \in Nat \cup {None}
    /\ handle \in Swarms \cup {None}
    /\ liveSwarms \subseteq Swarms
    /\ swarmBudget = [s \in Swarms |-> swarmBudget[s]]
    /\ launches \subseteq LaunchThread

(* Without an overlap of start and stop, at most one start is under way,   *)
(* and the state, the core and the position of the calls tell the same     *)
(* story.                                                                  *)
LifeInv ==
    "lifecycle" \notin raced =>
        /\ liveCores = {svcCore} \ {None}
        /\ \A c, d \in Callers: caller[c].op = "start" =>
              caller[d].op # "stop" /\ (caller[d].op = "start" => d = c)
        /\ \A c \in Callers: caller[c].op = "start" =>
              svcState = "Starting" /\ (svcCore = None <=> caller[c].at = "core")
        /\ \A c \in Callers: caller[c].op = "stop" =>
              /\ svcState \in {"Stopping", "Stopped"}
              /\ svcCore # None => caller[c].at = "core" /\ svcState = "Stopping"
        /\ (\A c \in Callers: caller[c].op \notin {"start", "stop"}) =>
              svcState = IF svcCore = None THEN "Stopped" ELSE "Running"

(* Without an overlap of launches and shutdowns there is at most one       *)
(* launch, and what runs before it is over is the swarm it launches.       *)
SwarmInv ==
    "swarm" \notin raced =>
        /\ liveSwarms \subseteq {handle}
        /\ launches # {} => ~Inside("start_swarm")
        /\ \A l, m \in launches: l = m
        /\ \A c, d \in Callers: caller[c].op = "start_swarm" /\ caller[d].op = "start_swarm" => c = d
        /\ \A c \in Callers: caller[c].op = "start_swarm" /\ caller[c].at = "spawn" => liveSwarms = {}
        /\ \A l \in launches: IF l.at = "handle" THEN liveSwarms = {} ELSE liveSwarms \subseteq {l.s}

(* A service without a core has no swarm and none on the way, once no stop *)
(* is left that has yet to shut it down.                                   *)
StoppedInv ==
    "swarm" \notin raced /\ "lifecycle" \notin raced /\ svcCore = None
    /\ (\A c \in Callers: caller[c].op = "stop" => caller[c].at = "mode") =>
        liveSwarms = {} /\ launches = {} /\ ~Inside("start_swarm")

(* Updates of the budget that do not overlap carry the service's budget,   *)
(* and a swarm that does not apply it yet will be told of it.              *)
BudgetInv ==
    "budget" \notin raced =>
        /\ \A c \in Callers: caller[c].op = "budget" => caller[c].b = budget
        /\ \A c, d \in Callers: caller[c].op = "budget" /\ caller[d].op = "budget" => c = d
        /\ Inside("budget") => launches = {}
        /\ \/ svcCore \in driftOn \cup {None}
           \/ ~(budget > 0)
           \/ \E c \in Callers: caller[c].op = "budget" /\ caller[c].at = "core"
        /\ "swarm" \notin raced =>
              \/ \A s \in liveSwarms: swarmBudget[s] = budget
              \/ Inside("budget")
              \/ \E l \in launches: l.at # "handle"

(* What the service keeps.                                                 *)
SvcInv == SvcTypes /\ LifeInv /\ SwarmInv /\ StoppedInv /\ BudgetInv

(* What a call is inside determines what it carries, and one step on       *)
(* changes its position only.                                              *)
LEMMA FrameShapes ==
    ASSUME NEW f, Frame(f)
    PROVE  /\ f.op = "none" <=> f = NoCall
           /\ f.op = "start" => /\ f.at \in {"core", "budget", "run"} /\ f.core \in Nat
                                /\ \A at: [f EXCEPT !.at = at] = StartFrame(at, f.core)
           /\ f.op = "stop" => /\ f.at \in {"core", "swarm", "mode"}
                               /\ \A at: [f EXCEPT !.at = at] = StopFrame(at)
           /\ f.op = "budget" => /\ f.at \in {"core", "swarm"} /\ f.b \in Budgets
                                 /\ \A at: [f EXCEPT !.at = at] = BudgetFrame(at, f.b)
           /\ f.op = "start_swarm" =>
                 /\ f.at \in {"existing", "spawn"} /\ f.swarm \in Swarms /\ f.mode \in Modes
                 /\ \A at: [f EXCEPT !.at = at] = SwarmFrame(at, f.swarm, f.mode)
<1>1. CASE f = NoCall
  BY <1>1, Zenon DEF NoCall
<1>2. CASE \E at \in {"core", "budget", "run"}, k \in Nat: f = StartFrame(at, k)
  BY <1>2 DEF StartFrame, NoCall
<1>3. CASE \E at \in {"core", "swarm", "mode"}: f = StopFrame(at)
  BY <1>3 DEF StopFrame, NoCall
<1>4. CASE \E at \in {"core", "swarm"}, b \in Budgets: f = BudgetFrame(at, b)
  BY <1>4 DEF BudgetFrame, NoCall
<1>5. CASE \E at \in {"existing", "spawn"}, s \in Swarms, mode \in Modes: f = SwarmFrame(at, s, mode)
  BY <1>5 DEF SwarmFrame, NoCall
<1>6. CASE \E s \in Swarms: f = BridgeFrame(s)
  BY <1>6 DEF BridgeFrame, NoCall
<1> QED
  BY <1>1, <1>2, <1>3, <1>4, <1>5, <1>6, Zenon DEF Frame

(* A call that goes to another frame leaves the other calls alone.         *)
LEMMA GotoChanges ==
    ASSUME SvcTypes, NEW c \in Callers, NEW f, Goto(c, f), Frame(f)
    PROVE  /\ caller' = [d \in Callers |-> caller'[d]]
           /\ \A d \in Callers: caller'[d] = (IF d = c THEN f ELSE caller[d]) /\ Frame(caller'[d])
  BY Zenon DEF SvcTypes, Goto

(* A service that was never started.                                       *)
LEMMA SvcInitially == ASSUME ServiceInit PROVE SvcInv
<1>1. SvcTypes
  BY ServiceAssumption DEF ServiceInit, SvcTypes, Frame, Swarms
<1>2. \A c \in Callers: caller[c].op = "none"
  BY Zenon DEF ServiceInit, NoCall
<1> QED
  BY <1>1, <1>2, Zenon DEF ServiceInit, SvcInv, LifeInv, SwarmInv, StoppedInv, BudgetInv,
     Inside

(* start: refused while running or starting. *)
LEMMA StartKeeps ==
    ASSUME SvcInv, NEW c \in Callers, Start(c) PROVE SvcInv'
<1> USE DEF coreVars, engineVars, bridgeVars
<1>1. SvcTypes /\ Frame(caller[c])
  BY Zenon DEF SvcInv, SvcTypes
<1>2. Goto(c, StartFrame("core", calls + 1)) /\ Frame(StartFrame("core", calls + 1))
  <2>1. Goto(c, StartFrame("core", calls + 1))
    BY <1>1, Zenon DEF Start, Enter, StartFrame
  <2>2. Frame(StartFrame("core", calls + 1))
    BY <1>1 DEF Frame, SvcTypes
  <2> QED
    BY <2>1, <2>2, Zenon
<1>3. /\ caller' = [d \in Callers |-> caller'[d]]
      /\ \A d \in Callers: caller'[d] = (IF d = c THEN StartFrame("core", calls + 1)
                 ELSE caller[d]) /\ Frame(caller'[d])
  BY <1>1, <1>2, GotoChanges, Zenon
<1>4. SvcTypes'
  BY <1>1, <1>3, ServiceAssumption DEF Start, SvcTypes, Enter
<1>5. LifeInv'
  BY <1>1, <1>3 DEF Start, SvcInv, LifeInv, Inside, Race, StartFrame
<1>6. SwarmInv'
  BY <1>1, <1>3 DEF Start, SvcInv, SwarmInv, Inside, Race, StartFrame
<1>7. StoppedInv'
  BY <1>1, <1>3 DEF Start, SvcInv, StoppedInv, Inside, Race, StartFrame
<1>8. BudgetInv'
  BY <1>1, <1>3, FrameShapes DEF Start, SvcInv, BudgetInv, Inside, Race, Enter,
     StartFrame
<1> QED
  BY <1>4, <1>5, <1>6, <1>7, <1>8, Zenon DEF SvcInv

(* The new core is published. *)
LEMMA PublishCoreKeeps ==
    ASSUME SvcInv, NEW c \in Callers, PublishCore(c) PROVE SvcInv'
<1> USE DEF coreVars, engineVars, bridgeVars
<1>1. SvcTypes /\ Frame(caller[c])
  BY Zenon DEF SvcInv, SvcTypes
<1>2. Goto(c, StartFrame("budget", caller[c].core)) /\ Frame(StartFrame("budget", caller[c].core))
  <2>1. Goto(c, StartFrame("budget", caller[c].core))
    BY <1>1, FrameShapes, Zenon DEF PublishCore
  <2>2. Frame(StartFrame("budget", caller[c].core))
    BY <1>1, FrameShapes, Zenon DEF PublishCore, Frame
  <2> QED
    BY <2>1, <2>2, Zenon
<1>3. /\ caller' = [d \in Callers |-> caller'[d]]
      /\ \A d \in Callers: caller'[d] = (IF d = c THEN StartFrame("budget", caller[c].core)
                 ELSE caller[d]) /\ Frame(caller'[d])
  BY <1>1, <1>2, GotoChanges, Zenon
<1>4. SvcTypes'
  BY <1>1, <1>3, FrameShapes, Zenon DEF PublishCore, SvcTypes
<1>5. LifeInv'
  BY <1>1, <1>3, FrameShapes, ServiceAssumption DEF PublishCore, SvcInv, LifeInv,
     StartFrame
<1>6. SwarmInv'
  BY <1>1, <1>3 DEF PublishCore, SvcInv, SwarmInv, Inside, StartFrame
<1>7. StoppedInv'
  BY <1>1, <1>3, FrameShapes, ServiceAssumption, Zenon DEF PublishCore, SvcTypes,
     StoppedInv
<1>8. BudgetInv'
  BY <1>1, <1>3 DEF PublishCore, DriftActivate, SvcInv, BudgetInv, Inside, StartFrame
<1> QED
  BY <1>4, <1>5, <1>6, <1>7, <1>8, Zenon DEF SvcInv

(* The drift engine follows the budget at the start. *)
LEMMA ActivateForBudgetKeeps ==
    ASSUME SvcInv, NEW c \in Callers, ActivateForBudget(c) PROVE SvcInv'
<1> USE DEF coreVars, engineVars, bridgeVars
<1>1. SvcTypes /\ Frame(caller[c])
  BY Zenon DEF SvcInv, SvcTypes
<1>2. Goto(c, StartFrame("run", caller[c].core)) /\ Frame(StartFrame("run", caller[c].core))
  <2>1. Goto(c, StartFrame("run", caller[c].core))
    BY <1>1, FrameShapes, Zenon DEF ActivateForBudget
  <2>2. Frame(StartFrame("run", caller[c].core))
    BY <1>1, FrameShapes, Zenon DEF ActivateForBudget, Frame
  <2> QED
    BY <2>1, <2>2, Zenon
<1>3. /\ caller' = [d \in Callers |-> caller'[d]]
      /\ \A d \in Callers: caller'[d] = (IF d = c THEN StartFrame("run", caller[c].core)
                 ELSE caller[d]) /\ Frame(caller'[d])
  BY <1>1, <1>2, GotoChanges, Zenon
<1>4. SvcTypes'
  BY <1>1, <1>3, Zenon DEF ActivateForBudget, SvcTypes
<1>5. LifeInv'
  BY <1>1, <1>3 DEF ActivateForBudget, SvcInv, LifeInv, StartFrame
<1>6. SwarmInv'
  BY <1>1, <1>3 DEF ActivateForBudget, SvcInv, SwarmInv, Inside, StartFrame
<1>7. StoppedInv'
  BY <1>1, <1>3, Zenon DEF ActivateForBudget, SvcInv, StoppedInv, LifeInv
<1>8. BudgetInv'
  BY <1>1, <1>3 DEF ActivateForBudget, DriftActivate, SvcInv, BudgetInv, SwarmInv, Inside,
     StartFrame
<1> QED
  BY <1>4, <1>5, <1>6, <1>7, <1>8, Zenon DEF SvcInv

(* The service runs. *)
LEMMA StartDoneKeeps ==
    ASSUME SvcInv, NEW c \in Callers, StartDone(c) PROVE SvcInv'
<1> USE DEF coreVars, engineVars, bridgeVars
<1>1. SvcTypes /\ Frame(caller[c])
  BY Zenon DEF SvcInv, SvcTypes
<1>2. Goto(c, NoCall) /\ Frame(NoCall)
  <2>1. Goto(c, NoCall)
    BY <1>1, Zenon DEF StartDone, Return
  <2>2. Frame(NoCall)
    BY Zenon DEF Frame
  <2> QED
    BY <2>1, <2>2, Zenon
<1>3. /\ caller' = [d \in Callers |-> caller'[d]]
      /\ \A d \in Callers: caller'[d] = (IF d = c THEN NoCall ELSE caller[d]) /\ Frame(caller'[d])
  BY <1>1, <1>2, GotoChanges, Zenon
<1>4. SvcTypes'
  BY <1>1, <1>3, Zenon DEF StartDone, SvcTypes
<1>5. LifeInv'
  BY <1>1, <1>3, FrameShapes DEF StartDone, SvcInv, LifeInv
<1>6. SwarmInv'
  BY <1>1, <1>3, FrameShapes DEF StartDone, SvcInv, SwarmInv, Inside
<1>7. StoppedInv'
  BY <1>1, <1>3, Zenon DEF StartDone, SvcInv, StoppedInv, LifeInv
<1>8. BudgetInv'
  BY <1>1, <1>3, FrameShapes DEF StartDone, SvcInv, BudgetInv, Inside
<1> QED
  BY <1>4, <1>5, <1>6, <1>7, <1>8, Zenon DEF SvcInv

(* stop begins. *)
LEMMA StopKeeps ==
    ASSUME SvcInv, NEW c \in Callers, Stop(c) PROVE SvcInv'
<1> USE DEF coreVars, engineVars, bridgeVars
<1>1. SvcTypes /\ Frame(caller[c])
  BY Zenon DEF SvcInv, SvcTypes
<1>2. Goto(c, StopFrame("core")) /\ Frame(StopFrame("core"))
  <2>1. Goto(c, StopFrame("core"))
    BY <1>1, Zenon DEF Stop, Enter, StopFrame
  <2>2. Frame(StopFrame("core"))
    BY <1>1, Zenon DEF Frame
  <2> QED
    BY <2>1, <2>2, Zenon
<1>3. /\ caller' = [d \in Callers |-> caller'[d]]
      /\ \A d \in Callers: caller'[d] = (IF d = c THEN StopFrame("core") ELSE caller[d])
                 /\ Frame(caller'[d])
  BY <1>1, <1>2, GotoChanges, Zenon
<1>4. SvcTypes'
  BY <1>1, <1>3, ServiceAssumption DEF Stop, SvcTypes, Enter
<1>5. LifeInv'
  BY <1>1, <1>3 DEF Stop, SvcInv, LifeInv, Inside, Race, StopFrame
<1>6. SwarmInv'
  BY <1>1, <1>3 DEF Stop, SvcInv, SwarmInv, Inside, Race, StopFrame
<1>7. StoppedInv'
  BY <1>1, <1>3 DEF StoppedInv, StopFrame
<1>8. BudgetInv'
  BY <1>1, <1>3, FrameShapes DEF Stop, SvcInv, BudgetInv, Inside, Race, Enter,
     StopFrame
<1> QED
  BY <1>4, <1>5, <1>6, <1>7, <1>8, Zenon DEF SvcInv

(* stop takes the core. *)
LEMMA TakeCoreKeeps ==
    ASSUME SvcInv, NEW c \in Callers, TakeCore(c) PROVE SvcInv'
<1> USE DEF coreVars, engineVars, bridgeVars
<1>1. SvcTypes /\ Frame(caller[c])
  BY Zenon DEF SvcInv, SvcTypes
<1>2. Goto(c, StopFrame("swarm")) /\ Frame(StopFrame("swarm"))
  <2>1. Goto(c, StopFrame("swarm"))
    BY <1>1, FrameShapes, Zenon DEF TakeCore
  <2>2. Frame(StopFrame("swarm"))
    BY <1>1, Zenon DEF Frame
  <2> QED
    BY <2>1, <2>2, Zenon
<1>3. /\ caller' = [d \in Callers |-> caller'[d]]
      /\ \A d \in Callers: caller'[d] = (IF d = c THEN StopFrame("swarm") ELSE caller[d])
                 /\ Frame(caller'[d])
  BY <1>1, <1>2, GotoChanges, Zenon
<1>4. SvcTypes'
  BY <1>1, <1>3, Zenon DEF TakeCore, SvcTypes
<1>5. LifeInv'
  BY <1>1, <1>3 DEF TakeCore, SvcInv, LifeInv, StopFrame
<1>6. SwarmInv'
  BY <1>1, <1>3 DEF TakeCore, SvcInv, SwarmInv, Inside, StopFrame
<1>7. StoppedInv'
  BY <1>1, <1>3 DEF StoppedInv, StopFrame
<1>8. BudgetInv'
  BY <1>1, <1>3 DEF TakeCore, DriftDeactivate, SvcInv, BudgetInv, Inside, StopFrame
<1> QED
  BY <1>4, <1>5, <1>6, <1>7, <1>8, Zenon DEF SvcInv

(* stop shuts the swarm down. *)
LEMMA ShutdownSwarmKeeps ==
    ASSUME SvcInv, NEW c \in Callers, ShutdownSwarm(c) PROVE SvcInv'
<1> USE DEF coreVars, engineVars, bridgeVars
<1>1. SvcTypes /\ Frame(caller[c])
  BY Zenon DEF SvcInv, SvcTypes
<1>2. Goto(c, StopFrame("mode")) /\ Frame(StopFrame("mode"))
  <2>1. Goto(c, StopFrame("mode"))
    BY <1>1, FrameShapes, Zenon DEF ShutdownSwarm
  <2>2. Frame(StopFrame("mode"))
    BY <1>1, Zenon DEF Frame
  <2> QED
    BY <2>1, <2>2, Zenon
<1>3. /\ caller' = [d \in Callers |-> caller'[d]]
      /\ \A d \in Callers: caller'[d] = (IF d = c THEN StopFrame("mode") ELSE caller[d])
                 /\ Frame(caller'[d])
  BY <1>1, <1>2, GotoChanges, Zenon
<1>4. SvcTypes'
  BY <1>1, <1>3, Zenon DEF ShutdownSwarm, SvcTypes
<1>5. LifeInv'
  BY <1>1, <1>3 DEF ShutdownSwarm, SvcInv, LifeInv, Race, StopFrame
<1>6. SwarmInv'
  BY <1>1, <1>3, Zenon DEF ShutdownSwarm, SvcInv, SwarmInv, Inside, Race
<1>7. StoppedInv'
  BY <1>1, <1>3 DEF ShutdownSwarm, SvcInv, StoppedInv, SwarmInv, Inside, Race,
     StopFrame
<1>8. BudgetInv'
  BY <1>1, <1>3 DEF ShutdownSwarm, SvcInv, BudgetInv, Inside, Race, StopFrame
<1> QED
  BY <1>4, <1>5, <1>6, <1>7, <1>8, Zenon DEF SvcInv

(* The service is stopped. *)
LEMMA StopDoneKeeps ==
    ASSUME SvcInv, NEW c \in Callers, StopDone(c) PROVE SvcInv'
<1> USE DEF coreVars, engineVars, bridgeVars
<1>1. SvcTypes /\ Frame(caller[c])
  BY Zenon DEF SvcInv, SvcTypes
<1>2. Goto(c, NoCall) /\ Frame(NoCall)
  <2>1. Goto(c, NoCall)
    BY <1>1, Zenon DEF StopDone, Return
  <2>2. Frame(NoCall)
    BY Zenon DEF Frame
  <2> QED
    BY <2>1, <2>2, Zenon
<1>3. /\ caller' = [d \in Callers |-> caller'[d]]
      /\ \A d \in Callers: caller'[d] = (IF d = c THEN NoCall ELSE caller[d]) /\ Frame(caller'[d])
  BY <1>1, <1>2, GotoChanges, Zenon
<1>4. SvcTypes'
  BY <1>1, <1>3, Zenon DEF StopDone, SvcTypes
<1>5. LifeInv'
  BY <1>1, <1>3, FrameShapes DEF StopDone, SvcInv, LifeInv
<1>6. SwarmInv'
  BY <1>1, <1>3, FrameShapes DEF StopDone, SvcInv, SwarmInv, Inside
<1>7. StoppedInv'
  BY <1>1, <1>3, FrameShapes, Zenon DEF StopDone, SvcInv, StoppedInv, Inside
<1>8. BudgetInv'
  BY <1>1, <1>3, FrameShapes DEF StopDone, SvcInv, BudgetInv, Inside
<1> QED
  BY <1>4, <1>5, <1>6, <1>7, <1>8, Zenon DEF SvcInv

(* set_relay_budget writes the field. *)
LEMMA SetRelayBudgetKeeps ==
    ASSUME SvcInv, NEW c \in Callers, NEW b \in Budgets, SetRelayBudget(c, b) PROVE SvcInv'
<1> USE DEF coreVars, engineVars, bridgeVars
<1>1. SvcTypes /\ Frame(caller[c])
  BY Zenon DEF SvcInv, SvcTypes
<1>2. Goto(c, BudgetFrame("core", b)) /\ Frame(BudgetFrame("core", b))
  <2>1. Goto(c, BudgetFrame("core", b))
    BY <1>1, Zenon DEF SetRelayBudget, Enter, BudgetFrame
  <2>2. Frame(BudgetFrame("core", b))
    BY <1>1, Zenon DEF Frame
  <2> QED
    BY <2>1, <2>2, Zenon
<1>3. /\ caller' = [d \in Callers |-> caller'[d]]
      /\ \A d \in Callers: caller'[d] = (IF d = c THEN BudgetFrame("core", b) ELSE caller[d])
                 /\ Frame(caller'[d])
  BY <1>1, <1>2, GotoChanges, Zenon
<1>4. SvcTypes'
  BY <1>1, <1>3, ServiceAssumption DEF SetRelayBudget, SvcTypes, Enter
<1>5. LifeInv'
  BY <1>1, <1>3, FrameShapes DEF SetRelayBudget, SvcInv, LifeInv, Race, Enter,
     BudgetFrame
<1>6. SwarmInv'
  BY <1>1, <1>3 DEF SetRelayBudget, SvcInv, SwarmInv, Inside, Race, BudgetFrame
<1>7. StoppedInv'
  BY <1>1, <1>3, FrameShapes DEF SetRelayBudget, SvcInv, StoppedInv, Inside, Race,
     Enter, BudgetFrame
<1>8. BudgetInv'
  BY <1>1, <1>3 DEF SetRelayBudget, BudgetInv, Inside, Race, BudgetFrame
<1> QED
  BY <1>4, <1>5, <1>6, <1>7, <1>8, Zenon DEF SvcInv

(* set_relay_budget tells the drift engine. *)
LEMMA SyncDriftKeeps ==
    ASSUME SvcInv, NEW c \in Callers, SyncDrift(c) PROVE SvcInv'
<1> USE DEF coreVars, engineVars, bridgeVars
<1>1. SvcTypes /\ Frame(caller[c])
  BY Zenon DEF SvcInv, SvcTypes
<1>2. Goto(c, BudgetFrame("swarm", caller[c].b)) /\ Frame(BudgetFrame("swarm", caller[c].b))
  <2>1. Goto(c, BudgetFrame("swarm", caller[c].b))
    BY <1>1, FrameShapes, Zenon DEF SyncDrift
  <2>2. Frame(BudgetFrame("swarm", caller[c].b))
    BY <1>1, FrameShapes, Zenon DEF SyncDrift, Frame
  <2> QED
    BY <2>1, <2>2, Zenon
<1>3. /\ caller' = [d \in Callers |-> caller'[d]]
      /\ \A d \in Callers: caller'[d] = (IF d = c THEN BudgetFrame("swarm", caller[c].b)
                 ELSE caller[d]) /\ Frame(caller'[d])
  BY <1>1, <1>2, GotoChanges, Zenon
<1>4. SvcTypes'
  BY <1>1, <1>3, Zenon DEF SyncDrift, SvcTypes
<1>5. LifeInv'
  BY <1>1, <1>3 DEF SyncDrift, SvcInv, LifeInv, BudgetFrame
<1>6. SwarmInv'
  BY <1>1, <1>3 DEF SyncDrift, SvcInv, SwarmInv, Inside, BudgetFrame
<1>7. StoppedInv'
  BY <1>1, <1>3 DEF SyncDrift, SvcInv, StoppedInv, Inside, BudgetFrame
<1>8. BudgetInv'
  BY <1>1, <1>3 DEF SyncDrift, DriftActivate, DriftDeactivate, SvcInv, BudgetInv, Inside, BudgetFrame
<1> QED
  BY <1>4, <1>5, <1>6, <1>7, <1>8, Zenon DEF SvcInv

(* set_relay_budget tells the swarm. *)
LEMMA ForwardBudgetKeeps ==
    ASSUME SvcInv, NEW c \in Callers, ForwardBudget(c) PROVE SvcInv'
<1> USE DEF coreVars, engineVars, bridgeVars
<1>1. SvcTypes /\ Frame(caller[c])
  BY Zenon DEF SvcInv, SvcTypes
<1>2. Goto(c, NoCall) /\ Frame(NoCall)
  <2>1. Goto(c, NoCall)
    BY <1>1, Zenon DEF ForwardBudget, Return
  <2>2. Frame(NoCall)
    BY Zenon DEF Frame
  <2> QED
    BY <2>1, <2>2, Zenon
<1>3. /\ caller' = [d \in Callers |-> caller'[d]]
      /\ \A d \in Callers: caller'[d] = (IF d = c THEN NoCall ELSE caller[d]) /\ Frame(caller'[d])
  BY <1>1, <1>2, GotoChanges, Zenon
<1>4. SvcTypes'
  BY <1>1, <1>3, Zenon DEF ForwardBudget, SvcTypes
<1>5. LifeInv'
  BY <1>1, <1>3, FrameShapes DEF ForwardBudget, SvcInv, LifeInv
<1>6. SwarmInv'
  BY <1>1, <1>3, FrameShapes DEF ForwardBudget, SvcInv, SwarmInv, Inside
<1>7. StoppedInv'
  BY <1>1, <1>3, FrameShapes, Zenon DEF ForwardBudget, SvcInv, StoppedInv, Inside
<1>8. BudgetInv'
  BY <1>1, <1>3, FrameShapes DEF ForwardBudget, SvcInv, SvcTypes, BudgetInv,
     SwarmInv, Inside
<1> QED
  BY <1>4, <1>5, <1>6, <1>7, <1>8, Zenon DEF SvcInv

(* start_swarm begins. *)
LEMMA StartSwarmKeeps ==
    ASSUME SvcInv, NEW c \in Callers, StartSwarm(c) PROVE SvcInv'
<1> USE DEF coreVars, engineVars, bridgeVars
<1>1. SvcTypes /\ Frame(caller[c])
  BY Zenon DEF SvcInv, SvcTypes
<1>2. Goto(c, SwarmFrame("existing", calls + 1, IF hasIdentity THEN "full" ELSE "headless"))
           /\ Frame(SwarmFrame("existing", calls + 1, IF hasIdentity THEN "full" ELSE "headless"))
  <2>1. Goto(c, SwarmFrame("existing", calls + 1, IF hasIdentity THEN "full" ELSE "headless"))
    BY <1>1, Zenon DEF StartSwarm, Enter, SwarmFrame
  <2>2. Frame(SwarmFrame("existing", calls + 1, IF hasIdentity THEN "full" ELSE "headless"))
    BY <1>1, ServiceAssumption DEF StartSwarm, Frame, Enter, Swarms, SvcTypes, Modes
  <2> QED
    BY <2>1, <2>2, Zenon
<1>3. /\ caller' = [d \in Callers |-> caller'[d]]
      /\ \A d \in Callers: caller'[d] = (IF d = c THEN SwarmFrame("existing", calls + 1,
                 IF hasIdentity THEN "full" ELSE "headless") ELSE caller[d]) /\ Frame(caller'[d])
  BY <1>1, <1>2, GotoChanges
<1>4. SvcTypes'
  BY <1>1, <1>3, ServiceAssumption DEF StartSwarm, SvcTypes, Enter
<1>5. LifeInv'
  BY <1>1, <1>3, FrameShapes DEF StartSwarm, SvcInv, LifeInv, Race, Enter,
     SwarmFrame
<1>6. SwarmInv'
  BY <1>1, <1>3 DEF StartSwarm, SvcInv, SwarmInv, Inside, Race, SwarmFrame
<1>7. StoppedInv'
  BY <1>1, <1>3, Zenon DEF StartSwarm, StoppedInv
<1>8. BudgetInv'
  <2>1. caller[c].op # "budget" /\ caller'[c].op # "budget" /\ \A d \in Callers: d # c => caller'[d] = caller[d]
    BY <1>3 DEF StartSwarm, Enter, NoCall, SwarmFrame
  <2>2. Inside("budget")' <=> Inside("budget")
    BY <2>1, Zenon DEF Inside
  <2> QED
    BY <2>1, <2>2, Zenon DEF StartSwarm, SvcInv, BudgetInv, Race
<1> QED
  BY <1>4, <1>5, <1>6, <1>7, <1>8, Zenon DEF SvcInv

(* start_swarm spawns the launching thread. *)
LEMMA SpawnLaunchKeeps ==
    ASSUME SvcInv, NEW c \in Callers, SpawnLaunch(c) PROVE SvcInv'
<1> USE DEF coreVars, engineVars, bridgeVars
<1>1. SvcTypes /\ Frame(caller[c])
  BY Zenon DEF SvcInv, SvcTypes
<1>2. Goto(c, NoCall) /\ Frame(NoCall)
  <2>1. Goto(c, NoCall)
    BY <1>1, Zenon DEF SpawnLaunch, Return
  <2>2. Frame(NoCall)
    BY Zenon DEF Frame
  <2> QED
    BY <2>1, <2>2, Zenon
<1>3. /\ caller' = [d \in Callers |-> caller'[d]]
      /\ \A d \in Callers: caller'[d] = (IF d = c THEN NoCall ELSE caller[d]) /\ Frame(caller'[d])
  BY <1>1, <1>2, GotoChanges, Zenon
<1>4. SvcTypes'
  BY <1>1, <1>3, FrameShapes DEF SpawnLaunch, SvcTypes, LaunchThread
<1>5. LifeInv'
  BY <1>1, <1>3, FrameShapes DEF SpawnLaunch, SvcInv, LifeInv, Race
<1>6. SwarmInv'
  BY <1>1, <1>3, FrameShapes DEF SpawnLaunch, SvcInv, SwarmInv, Inside, Race
<1>7. StoppedInv'
  BY <1>1, <1>3, Zenon DEF SpawnLaunch, SvcInv, StoppedInv, Inside, Race
<1>8. BudgetInv'
  BY <1>1, <1>3, FrameShapes DEF SpawnLaunch, SvcInv, BudgetInv, SwarmInv, Inside,
     Race
<1> QED
  BY <1>4, <1>5, <1>6, <1>7, <1>8, Zenon DEF SvcInv

(* A call through the bridge. *)
LEMMA CallBridgeKeeps ==
    ASSUME SvcInv, NEW c \in Callers, CallBridge(c) PROVE SvcInv'
<1> USE DEF coreVars, engineVars, bridgeVars
<1>1. SvcTypes /\ Frame(caller[c])
  BY Zenon DEF SvcInv, SvcTypes
<1>2. Goto(c, BridgeFrame(handle)) /\ Frame(BridgeFrame(handle))
  <2>1. Goto(c, BridgeFrame(handle))
    BY <1>1, Zenon DEF CallBridge, Enter, BridgeFrame
  <2>2. Frame(BridgeFrame(handle))
    BY <1>1, Zenon DEF CallBridge, Frame, SvcTypes
  <2> QED
    BY <2>1, <2>2, Zenon
<1>3. /\ caller' = [d \in Callers |-> caller'[d]]
      /\ \A d \in Callers: caller'[d] = (IF d = c THEN BridgeFrame(handle) ELSE caller[d])
                 /\ Frame(caller'[d])
  BY <1>1, <1>2, GotoChanges, Zenon
<1>4. SvcTypes'
  BY <1>1, <1>3, ServiceAssumption DEF CallBridge, SvcTypes, Enter
<1>5. LifeInv'
  BY <1>1, <1>3, FrameShapes DEF CallBridge, SvcInv, LifeInv, Enter, BridgeFrame
<1>6. SwarmInv'
  BY <1>1, <1>3 DEF CallBridge, SvcInv, SwarmInv, Inside, BridgeFrame
<1>7. StoppedInv'
  BY <1>1, <1>3, FrameShapes DEF CallBridge, SvcInv, StoppedInv, Inside, Enter,
     BridgeFrame
<1>8. BudgetInv'
  BY <1>1, <1>3, FrameShapes DEF CallBridge, SvcInv, BudgetInv, Inside, Enter,
     BridgeFrame
<1> QED
  BY <1>4, <1>5, <1>6, <1>7, <1>8, Zenon DEF SvcInv

(* A call through the bridge returns. *)
LEMMA BridgeReturnsKeeps ==
    ASSUME SvcInv, NEW c \in Callers, BridgeReturns(c) PROVE SvcInv'
<1> USE DEF coreVars, engineVars, bridgeVars
<1>1. SvcTypes /\ Frame(caller[c])
  BY Zenon DEF SvcInv, SvcTypes
<1>2. Goto(c, NoCall) /\ Frame(NoCall)
  <2>1. Goto(c, NoCall)
    BY <1>1, Zenon DEF BridgeReturns, Return
  <2>2. Frame(NoCall)
    BY Zenon DEF Frame
  <2> QED
    BY <2>1, <2>2, Zenon
<1>3. /\ caller' = [d \in Callers |-> caller'[d]]
      /\ \A d \in Callers: caller'[d] = (IF d = c THEN NoCall ELSE caller[d]) /\ Frame(caller'[d])
  BY <1>1, <1>2, GotoChanges, Zenon
<1>4. SvcTypes'
  BY <1>1, <1>3, Zenon DEF BridgeReturns, SvcTypes
<1>5. LifeInv'
  BY <1>1, <1>3, FrameShapes DEF BridgeReturns, SvcInv, LifeInv
<1>6. SwarmInv'
  BY <1>1, <1>3, FrameShapes DEF BridgeReturns, SvcInv, SwarmInv, Inside
<1>7. StoppedInv'
  BY <1>1, <1>3, FrameShapes, Zenon DEF BridgeReturns, SvcInv, StoppedInv, Inside
<1>8. BudgetInv'
  BY <1>1, <1>3, FrameShapes DEF BridgeReturns, SvcInv, BudgetInv, Inside
<1> QED
  BY <1>4, <1>5, <1>6, <1>7, <1>8, Zenon DEF SvcInv

(* The launched swarm runs. *)
LEMMA LaunchHandleKeeps ==
    ASSUME SvcInv, NEW l \in launches, LaunchHandle(l) PROVE SvcInv'
<1> USE DEF coreVars, engineVars, bridgeVars
<1>1. SvcTypes /\ \A d \in Callers: Frame(caller[d])
  BY Zenon DEF SvcInv, SvcTypes
<1>2. UNCHANGED caller
  BY Zenon DEF LaunchHandle
<1>3. PICK n \in LaunchThread: n.s = l.s /\ n.at = "mode" /\ launches' = (launches \ {l}) \cup {n}
  <2>1. l \in LaunchThread
    BY <1>1, Zenon DEF SvcTypes
  <2>2. [l EXCEPT !.at = "mode"] \in LaunchThread /\ [l EXCEPT !.at = "mode"].s = l.s
             /\ [l EXCEPT !.at = "mode"].at = "mode"
    BY <2>1, Zenon DEF LaunchThread
  <2> QED
    BY <2>2, Zenon DEF LaunchHandle
<1>4. "swarm" \notin raced => launches' = {n} /\ launches = {l}
  BY <1>3, Zenon DEF SvcInv, SwarmInv
<1>5. SvcTypes'
  BY <1>1, <1>3, <1>2, Zenon DEF LaunchHandle, SvcTypes, LaunchThread
<1>6. LifeInv'
  BY <1>2, Zenon DEF LaunchHandle, SvcInv, LifeInv
<1>7. SwarmInv'
  BY <1>3, <1>2, <1>4, Zenon DEF LaunchHandle, SvcInv, SwarmInv, Inside
<1>8. StoppedInv'
  BY <1>2, Zenon DEF LaunchHandle, SvcInv, StoppedInv
<1>9. BudgetInv'
  BY <1>3, <1>2, <1>4, Zenon DEF LaunchHandle, SvcInv, BudgetInv, Inside
<1> QED
  BY <1>5, <1>6, <1>7, <1>8, <1>9, Zenon DEF SvcInv

(* The launch stores its mode. *)
LEMMA LaunchModeKeeps ==
    ASSUME SvcInv, NEW l \in launches, LaunchMode(l) PROVE SvcInv'
<1> USE DEF coreVars, engineVars, bridgeVars
<1>1. SvcTypes /\ \A d \in Callers: Frame(caller[d])
  BY Zenon DEF SvcInv, SvcTypes
<1>2. UNCHANGED caller
  BY Zenon DEF LaunchMode
<1>3. PICK n \in LaunchThread: n.s = l.s /\ n.at = "budget" /\ launches' = (launches \ {l}) \cup {n}
  <2>1. l \in LaunchThread
    BY <1>1, Zenon DEF SvcTypes
  <2>2. [l EXCEPT !.at = "budget"] \in LaunchThread /\ [l EXCEPT !.at = "budget"].s = l.s
             /\ [l EXCEPT !.at = "budget"].at = "budget"
    BY <2>1, Zenon DEF LaunchThread
  <2> QED
    BY <2>2, Zenon DEF LaunchMode
<1>4. "swarm" \notin raced => launches' = {n} /\ launches = {l}
  BY <1>3, Zenon DEF SvcInv, SwarmInv
<1>5. SvcTypes'
  BY <1>1, <1>3, <1>2, Zenon DEF LaunchMode, SvcTypes
<1>6. LifeInv'
  BY <1>2, Zenon DEF LaunchMode, SvcInv, LifeInv
<1>7. SwarmInv'
  BY <1>3, <1>2, <1>4, Zenon DEF LaunchMode, SvcInv, SwarmInv, Inside
<1>8. StoppedInv'
  BY <1>2, Zenon DEF LaunchMode, SvcInv, StoppedInv
<1>9. BudgetInv'
  BY <1>3, <1>2, <1>4, Zenon DEF LaunchMode, SvcInv, BudgetInv, Inside
<1> QED
  BY <1>5, <1>6, <1>7, <1>8, <1>9, Zenon DEF SvcInv

(* The launched swarm is given the budget. *)
LEMMA LaunchBudgetKeeps ==
    ASSUME SvcInv, NEW l \in launches, LaunchBudget(l) PROVE SvcInv'
<1> USE DEF coreVars, engineVars, bridgeVars
<1>1. SvcTypes /\ \A d \in Callers: Frame(caller[d])
  BY Zenon DEF SvcInv, SvcTypes
<1>2. UNCHANGED caller
  BY Zenon DEF LaunchBudget
<1>3. SvcTypes'
  BY <1>1, <1>2, Zenon DEF LaunchBudget, SvcTypes
<1>4. LifeInv'
  BY <1>1, <1>2, Zenon DEF LaunchBudget, SvcInv, LifeInv
<1>5. SwarmInv'
  BY <1>1, <1>2, Zenon DEF LaunchBudget, SvcInv, SwarmInv
<1>6. StoppedInv'
  BY <1>1, <1>2, Zenon DEF LaunchBudget, SvcInv, StoppedInv
<1>7. BudgetInv'
  BY <1>1, <1>2, Zenon DEF LaunchBudget, SvcInv, SvcTypes, BudgetInv, SwarmInv, Inside
<1> QED
  BY <1>3, <1>4, <1>5, <1>6, <1>7, Zenon DEF SvcInv

(* The launch fails. *)
LEMMA LaunchFailsKeeps ==
    ASSUME SvcInv, NEW l \in launches, LaunchFails(l) PROVE SvcInv'
<1> USE DEF coreVars, engineVars, bridgeVars
<1>1. SvcTypes /\ \A d \in Callers: Frame(caller[d])
  BY Zenon DEF SvcInv, SvcTypes
<1>2. UNCHANGED caller
  BY Zenon DEF LaunchFails
<1>3. SvcTypes'
  BY <1>1, <1>2, Zenon DEF LaunchFails, SvcTypes
<1>4. LifeInv'
  BY <1>1, <1>2, Zenon DEF LaunchFails, SvcInv, LifeInv
<1>5. SwarmInv'
  BY <1>1, <1>2, Zenon DEF LaunchFails, SvcInv, SwarmInv
<1>6. StoppedInv'
  BY <1>1, <1>2, Zenon DEF LaunchFails, SvcInv, StoppedInv
<1>7. BudgetInv'
  BY <1>1, <1>2, Zenon DEF LaunchFails, SvcInv, BudgetInv, Inside
<1> QED
  BY <1>3, <1>4, <1>5, <1>6, <1>7, Zenon DEF SvcInv

(* start_swarm keeps a swarm of the same mode and shuts down any other.    *)
LEMMA ReplaceSwarmKeeps ==
    ASSUME SvcInv, NEW c \in Callers, ReplaceSwarm(c) PROVE SvcInv'
<1> DEFINE next == IF handle # None /\ swarmMode = caller[c].mode THEN NoCall
                   ELSE SwarmFrame("spawn", caller[c].swarm, caller[c].mode)
<1> USE DEF coreVars, engineVars, bridgeVars
<1>1. SvcTypes /\ Frame(caller[c])
  BY Zenon DEF SvcInv, SvcTypes
<1>2. Goto(c, next) /\ Frame(next)
  BY <1>1, FrameShapes, Zenon DEF ReplaceSwarm, Frame, Return
<1>3. /\ caller' = [d \in Callers |-> caller'[d]]
      /\ \A d \in Callers: caller'[d] = (IF d = c THEN next ELSE caller[d]) /\ Frame(caller'[d])
  BY <1>1, <1>2, GotoChanges
<1>4. SvcTypes'
  BY <1>1, <1>3, Zenon DEF ReplaceSwarm, SvcTypes
<1>5. LifeInv'
  BY <1>1, <1>3 DEF ReplaceSwarm, SvcInv, LifeInv, NoCall, SwarmFrame
<1>6. SwarmInv'
  BY <1>1, <1>3 DEF ReplaceSwarm, SvcInv, SwarmInv, Inside, NoCall
<1>7. StoppedInv'
  BY <1>1, <1>3, Zenon DEF ReplaceSwarm, SvcInv, StoppedInv, Inside
<1>8. BudgetInv'
  BY <1>1, <1>3 DEF ReplaceSwarm, SvcInv, BudgetInv, Inside, NoCall, SwarmFrame
<1> QED
  BY <1>4, <1>5, <1>6, <1>7, <1>8, Zenon DEF SvcInv

(* Steps that touch nothing the invariant speaks of.                       *)
LEMMA SvcUnchanged ==
    ASSUME SvcInv,
           UNCHANGED <<svcState, svcCore, liveCores, driftOn, budget, handle, liveSwarms,
                       swarmBudget, launches, caller, calls, raced>>
    PROVE  SvcInv'
<1>1. SvcTypes'
  BY Zenon DEF SvcInv, SvcTypes
<1>2. LifeInv' /\ SwarmInv' /\ StoppedInv' /\ BudgetInv'
  BY Zenon DEF SvcInv, LifeInv, SwarmInv, StoppedInv, BudgetInv, Inside
<1> QED
  BY <1>1, <1>2, Zenon DEF SvcInv

(* Every step of every call keeps the life cycle.                          *)
LEMMA SvcKept == SvcInv /\ [ServiceNext]_svcVars => SvcInv'
<1> SUFFICES ASSUME SvcInv, [ServiceNext]_svcVars PROVE SvcInv'
  BY Zenon
<1>1. CASE UNCHANGED svcVars
  BY <1>1, SvcUnchanged, Zenon DEF svcVars
<1>2. ASSUME NEW c \in Callers,
             \/ Start(c) \/ PublishCore(c) \/ ActivateForBudget(c) \/ StartDone(c)
             \/ Stop(c) \/ TakeCore(c) \/ ShutdownSwarm(c) \/ StopDone(c)
      PROVE  SvcInv'
  BY <1>2, StartKeeps, PublishCoreKeeps, ActivateForBudgetKeeps, StartDoneKeeps,
     StopKeeps, TakeCoreKeeps, ShutdownSwarmKeeps, StopDoneKeeps, Zenon
<1>3. ASSUME NEW c \in Callers,
             \/ (\E b \in Budgets: SetRelayBudget(c, b)) \/ SyncDrift(c) \/ ForwardBudget(c)
             \/ StartSwarm(c) \/ ReplaceSwarm(c) \/ SpawnLaunch(c) \/ CallBridge(c) \/ BridgeReturns(c)
      PROVE  SvcInv'
  BY <1>3, SetRelayBudgetKeeps, SyncDriftKeeps, ForwardBudgetKeeps, StartSwarmKeeps,
     ReplaceSwarmKeeps, SpawnLaunchKeeps, CallBridgeKeeps, BridgeReturnsKeeps, Zenon
<1>4. ASSUME NEW l \in launches, LaunchHandle(l) \/ LaunchMode(l) \/ LaunchBudget(l) \/ LaunchFails(l)
      PROVE  SvcInv'
  BY <1>4, LaunchHandleKeeps, LaunchModeKeeps, LaunchBudgetKeeps, LaunchFailsKeeps, Zenon
<1>5. CASE CreateIdentity
  BY <1>5, SvcUnchanged, Zenon DEF CreateIdentity, bridgeVars
<1>6. ASSUME NEW p \in NearbyPeers, OnProximityDataReceived(p) PROVE SvcInv'
  BY <1>6, SvcUnchanged, Zenon DEF OnProximityDataReceived, coreVars, engineVars
<1> QED
  BY <1>1, <1>2, <1>3, <1>4, <1>5, <1>6, Zenon DEF ServiceNext

(* An engine is Active only in a core whose flag is set: the two are       *)
(* switched together, and a new engine is Dormant.                         *)
EngineInv == engineOn \subseteq driftOn

LEMMA EnginesKept == EngineInv /\ [ServiceNext]_svcVars => EngineInv'
<1> SUFFICES ASSUME EngineInv, [ServiceNext]_svcVars PROVE EngineInv'
  BY Zenon
<1> USE DEF EngineInv, coreVars, engineVars
<1>1. CASE UNCHANGED svcVars
  BY <1>1, Zenon DEF svcVars
<1>2. ASSUME NEW c \in Callers,
             \/ Start(c) \/ PublishCore(c) \/ ActivateForBudget(c) \/ StartDone(c)
             \/ Stop(c) \/ TakeCore(c) \/ ShutdownSwarm(c) \/ StopDone(c)
      PROVE  EngineInv'
  BY <1>2 DEF Start, PublishCore, ActivateForBudget, StartDone, Stop, TakeCore, ShutdownSwarm,
     StopDone, DriftActivate, DriftDeactivate
<1>3. ASSUME NEW c \in Callers,
             \/ (\E b \in Budgets: SetRelayBudget(c, b)) \/ SyncDrift(c) \/ ForwardBudget(c)
             \/ StartSwarm(c) \/ ReplaceSwarm(c) \/ SpawnLaunch(c) \/ CallBridge(c) \/ BridgeReturns(c)
      PROVE  EngineInv'
  BY <1>3, Zenon DEF SetRelayBudget, SyncDrift, ForwardBudget, StartSwarm, ReplaceSwarm, SpawnLaunch,
     CallBridge, BridgeReturns, DriftActivate, DriftDeactivate
<1>4. ASSUME NEW l \in launches, LaunchHandle(l) \/ LaunchMode(l) \/ LaunchBudget(l) \/ LaunchFails(l)
      PROVE  EngineInv'
  BY <1>4, Zenon DEF LaunchHandle, LaunchMode, LaunchBudget, LaunchFails
<1>5. CASE CreateIdentity
  BY <1>5, Zenon DEF CreateIdentity
<1>6. ASSUME NEW p \in NearbyPeers, OnProximityDataReceived(p) PROVE EngineInv'
  BY <1>6, Zenon DEF OnProximityDataReceived
<1> QED
  BY <1>1, <1>2, <1>3, <1>4, <1>5, <1>6, Zenon DEF ServiceNext

(* The invariants hold what is said of the service.                        *)
LEMMA SvcInvImplies == SvcInv /\ EngineInv => ServiceSound
<1> SUFFICES ASSUME SvcInv, EngineInv PROVE ServiceSound
  BY Zenon
<1>1. ASSUME Quiet PROVE \A c \in Callers: caller[c].op = "none"
  BY <1>1 DEF Quiet, NoCall
<1>2. LifecycleConsistent
  BY <1>1, Zenon DEF LifecycleConsistent, SvcInv, LifeInv
<1>3. OneSwarm
  BY <1>1, Zenon DEF OneSwarm, SvcInv, SwarmInv, StoppedInv, LifeInv
<1>4. SwarmBudgetCurrent
  BY <1>1, Zenon DEF SwarmBudgetCurrent, SvcInv, BudgetInv, Inside, Quiet
<1>5. DriftFollowsBudget
  BY <1>1, Zenon DEF DriftFollowsBudget, SvcInv, BudgetInv, EngineInv
<1> QED
  BY <1>2, <1>3, <1>4, <1>5, Zenon DEF ServiceSound

(* The life cycle of the mobile service, for any number of calls, callers  *)
(* and budgets: as long as no two calls of a kind overlapped, the state    *)
(* the application reads is the one the core and the swarm are in, at most *)
(* one core and one swarm run, a stopped service has neither, the swarm    *)
(* applies the relay budget that was set last, drift is on with a positive *)
(* one, and no engine relays in a core whose drift is off, new identities  *)
(* included (MeshService of core/src/mobile_bridge.rs).                    *)
THEOREM ServiceStaysSound == ServiceSpec => []ServiceSound
<1>1. ServiceInit => SvcInv /\ EngineInv
  BY SvcInitially, Zenon DEF ServiceInit, EngineInv
<1> QED
  BY <1>1, SvcKept, EnginesKept, SvcInvImplies, PTL DEF ServiceSpec

-----------------------------------------------------------------------------
(* The device profile. *)

(* Callbacks of the platform, and what they carry.                         *)
DeviceProfile == [battery: Nat, charging: BOOLEAN, wifi: BOOLEAN, motion: {"Still", "Walking"}]
Carries(new, fields) == DOMAIN fields \subseteq DOMAIN new /\ \A f \in DOMAIN fields: new[f] = fields[f]
Callback(step, fields, new) == [step |-> step, fields |-> fields, new |-> new]
InCallback(r) ==
    /\ r = Callback(r.step, r.fields, r.new)
    /\ r.step \in {"state", "profile", "budget", "done"}
    /\ r.new \in DeviceProfile /\ Carries(r.new, r.fields)

(* A callback that is not disturbed is alone, and has stored its own copy  *)
(* wherever it has passed.                                                 *)
Alone(c) ==
    /\ \A d \in Reporters: reporter[d] # Out => d = c
    /\ reporter[c].step \in {"profile", "budget", "done"} => deviceState = <<reporter[c].new>>
    /\ reporter[c].step \in {"budget", "done"} => profile = <<reporter[c].new>>
    /\ reporter[c].step = "done" =>
          relayBudget = ComputeRelayAdjustment(ComputeProfile(reporter[c].new))

(* What the callbacks keep.                                                *)
ProfileInv ==
    /\ reporter = [c \in Reporters |-> reporter[c]]
    /\ \A c \in Reporters: reporter[c] = Out \/ InCallback(reporter[c])
    /\ profile = <<>> \/ \E d \in DeviceProfile: profile = <<d>>
    /\ \A c \in Reporters: reporter[c] # Out /\ c \notin disturbed => Alone(c)

(* A callback is not out, and what is out is in no step.                   *)
LEMMA OutIsOut ==
    /\ Out.step = "out"
    /\ \A r: InCallback(r) => r # Out
  BY DEF Out, InCallback

(* What a callback starts from is a profile.                               *)
LEMMA CurrentIsProfile == ASSUME ProfileInv PROVE Current \in DeviceProfile
<1>1. DefaultProfile \in DeviceProfile
  BY Zenon DEF DefaultProfile, DeviceProfile
<1>2. CASE profile = <<>>
  BY <1>1, <1>2, Zenon DEF Current
<1>3. ASSUME NEW d \in DeviceProfile, profile = <<d>> PROVE Current \in DeviceProfile
  <2>1. profile # <<>> /\ profile[1] = d
    BY <1>3, Zenon
  <2> QED
    BY <2>1, Zenon DEF Current
<1> QED
  BY <1>2, <1>3, Zenon DEF ProfileInv

(* The limit of each band falls with the battery.                          *)
LimitOf(d) ==
    IF d.charging /\ d.wifi THEN 1000
    ELSE IF d.battery > 50 THEN 500
    ELSE IF d.battery > 30 THEN 200
    ELSE IF d.battery > 15 THEN 100 ELSE 50

(* compute_relay_adjustment in closed form.                                *)
LEMMA LimitIs ==
    ASSUME NEW d \in DeviceProfile, relayOverride = NoOverride
    PROVE  ComputeRelayAdjustment(ComputeProfile(d)) = LimitOf(d)
<1> DEFINE limit == [Maximum |-> 1000, High |-> 500, Standard |-> 200, Reduced |-> 100, Minimal |-> 50]
<1>1. /\ limit["Maximum"] = 1000 /\ limit["High"] = 500 /\ limit["Standard"] = 200
      /\ limit["Reduced"] = 100 /\ limit["Minimal"] = 50
  BY Zenon
<1>2. \A p: ComputeRelayAdjustment(p) = limit[p]
  BY Zenon DEF ComputeRelayAdjustment
<1> HIDE DEF limit
<1>3. d.battery \in Nat /\ d.charging \in BOOLEAN /\ d.wifi \in BOOLEAN
  BY Zenon DEF DeviceProfile
<1>4. CASE d.charging /\ d.wifi
  <2>1. ComputeProfile(d) = "Maximum" /\ LimitOf(d) = 1000
    BY <1>3, <1>4, Zenon DEF ComputeProfile, LimitOf
  <2> QED
    BY <1>1, <1>2, <2>1
<1>5. CASE ~(d.charging /\ d.wifi) /\ d.battery > 50
  <2>1. ComputeProfile(d) = "High" /\ LimitOf(d) = 500
    BY <1>3, <1>5 DEF ComputeProfile, LimitOf
  <2> QED
    BY <1>1, <1>2, <2>1
<1>6. CASE ~(d.charging /\ d.wifi) /\ d.battery \in 31 .. 50
  <2>1. ComputeProfile(d) = "Standard" /\ LimitOf(d) = 200
    BY <1>3, <1>6 DEF ComputeProfile, LimitOf
  <2> QED
    BY <1>1, <1>2, <2>1
<1>7. CASE ~(d.charging /\ d.wifi) /\ d.battery \in 16 .. 30
  <2>1. ComputeProfile(d) = "Reduced" /\ LimitOf(d) = 100
    BY <1>3, <1>7 DEF ComputeProfile, LimitOf
  <2> QED
    BY <1>1, <1>2, <2>1
<1>8. CASE ~(d.charging /\ d.wifi) /\ d.battery \in 0 .. 15
  <2>1. ComputeProfile(d) = "Minimal" /\ LimitOf(d) = 50
    BY <1>3, <1>8 DEF ComputeProfile, LimitOf
  <2> QED
    BY <1>1, <1>2, <2>1
<1> QED
  BY <1>3, <1>4, <1>5, <1>6, <1>7, <1>8

(* No callback has run.                                                    *)
LEMMA ProfileInitially == ASSUME DeviceInit PROVE ProfileInv
  BY Zenon DEF DeviceInit, ProfileInv

(* A callback begins: with others under way all of them are disturbed.     *)
LEMMA ReportKeeps ==
    ASSUME ProfileInv, NEW c \in Reporters, NEW fields, Report(c, fields),
           NEW new \in DeviceProfile, Carries(new, fields), new = Updated(Current, fields)
    PROVE  ProfileInv'
<1> DEFINE r == Callback("state", fields, new)
<1>1. /\ reporter' = [d \in Reporters |-> reporter'[d]]
      /\ \A d \in Reporters: reporter'[d] = IF d = c THEN r ELSE reporter[d]
  BY Zenon DEF Report, ProfileInv, Callback
<1>2. InCallback(r) /\ r.step = "state" /\ r # Out
  BY OutIsOut, Zenon DEF InCallback, Callback
<1> HIDE DEF r
<1>3. \A d \in Reporters: reporter'[d] = Out \/ InCallback(reporter'[d])
  BY <1>1, <1>2, Zenon DEF ProfileInv
<1>4. ASSUME NEW d \in Reporters, reporter'[d] # Out, d \notin disturbed' PROVE Alone(d)'
  <2>1. DeviceActive = {} /\ d = c
    BY <1>1, <1>4, Zenon DEF Report, DeviceActive
  <2>2. \A e \in Reporters: reporter'[e] # Out => e = c
    BY <1>1, <2>1, Zenon DEF DeviceActive
  <2> QED
    BY <1>1, <1>2, <2>1, <2>2, Zenon DEF Alone
<1> QED
  BY <1>1, <1>3, <1>4, Zenon DEF ProfileInv, Report

(* on_battery_changed is a report of two fields.                           *)
LEMMA OnBatteryChangedKeeps ==
    ASSUME ProfileInv, NEW c \in Reporters, OnBatteryChanged(c) PROVE ProfileInv'
<1>1. PICK b \in Bands, charging \in BOOLEAN: Report(c, [battery |-> b, charging |-> charging])
  BY Zenon DEF OnBatteryChanged
<1> DEFINE fields == [battery |-> b, charging |-> charging]
           new == Updated(Current, fields)
<1>2. Current \in DeviceProfile
  BY CurrentIsProfile, Zenon
<1>3. new = [battery |-> b, charging |-> charging, wifi |-> Current.wifi, motion |-> Current.motion]
  BY <1>2 DEF DeviceProfile, Updated
<1>4. new \in DeviceProfile
  BY <1>2, <1>3, ProfileAssumption DEF DeviceProfile
<1>5. Carries(new, fields)
  BY <1>3 DEF Carries
<1> QED
  BY <1>1, <1>4, <1>5, ReportKeeps, Zenon

(* on_network_changed is a report of one field.                            *)
LEMMA OnNetworkChangedKeeps ==
    ASSUME ProfileInv, NEW c \in Reporters, OnNetworkChanged(c) PROVE ProfileInv'
<1>1. PICK wifi \in BOOLEAN: Report(c, [wifi |-> wifi])
  BY Zenon DEF OnNetworkChanged
<1> DEFINE fields == [wifi |-> wifi]
           new == Updated(Current, fields)
<1>2. Current \in DeviceProfile
  BY CurrentIsProfile, Zenon
<1>3. new = [battery |-> Current.battery, charging |-> Current.charging, wifi |-> wifi,
             motion |-> Current.motion]
  BY <1>2 DEF DeviceProfile, Updated
<1>4. new \in DeviceProfile
  BY <1>2, <1>3 DEF DeviceProfile
<1>5. Carries(new, fields)
  BY <1>3 DEF Carries
<1> QED
  BY <1>1, <1>4, <1>5, ReportKeeps, Zenon

(* on_motion_changed is a report of one field.                             *)
LEMMA OnMotionChangedKeeps ==
    ASSUME ProfileInv, NEW c \in Reporters, OnMotionChanged(c) PROVE ProfileInv'
<1>1. Report(c, [motion |-> "Walking"])
  BY Zenon DEF OnMotionChanged
<1> DEFINE fields == [motion |-> "Walking"]
           new == Updated(Current, fields)
<1>2. Current \in DeviceProfile
  BY CurrentIsProfile, Zenon
<1>3. new = [battery |-> Current.battery, charging |-> Current.charging, wifi |-> Current.wifi,
             motion |-> "Walking"]
  BY <1>2 DEF DeviceProfile, Updated
<1>4. new \in DeviceProfile
  BY <1>2, <1>3 DEF DeviceProfile
<1>5. Carries(new, fields)
  BY <1>3 DEF Carries
<1> QED
  BY <1>1, <1>4, <1>5, ReportKeeps, Zenon

(* A callback that goes on keeps its copy.                                 *)
LEMMA GoOnChanges ==
    ASSUME ProfileInv, NEW c \in Reporters, reporter[c].step # "out",
           NEW step \in {"state", "profile", "budget", "done"}, GoOn(c, step)
    PROVE  /\ InCallback(reporter[c])
           /\ reporter' = [d \in Reporters |-> reporter'[d]]
           /\ \A d \in Reporters: d # c => reporter'[d] = reporter[d]
           /\ reporter'[c] = Callback(step, reporter[c].fields, reporter[c].new)
           /\ InCallback(reporter'[c]) /\ reporter'[c].step = step
           /\ reporter'[c].new = reporter[c].new /\ reporter'[c] # Out
<1>1. InCallback(reporter[c])
  BY OutIsOut, Zenon DEF ProfileInv
<1>2. /\ reporter' = [d \in Reporters |-> reporter'[d]]
      /\ \A d \in Reporters: d # c => reporter'[d] = reporter[d]
      /\ reporter'[c] = [reporter[c] EXCEPT !.step = step]
  BY Zenon DEF GoOn, ProfileInv
<1>3. [reporter[c] EXCEPT !.step = step] = Callback(step, reporter[c].fields, reporter[c].new)
  BY <1>1 DEF InCallback, Callback
<1>4. InCallback(Callback(step, reporter[c].fields, reporter[c].new))
  BY <1>1, Zenon DEF InCallback, Callback
<1> QED
  BY <1>1, <1>2, <1>3, <1>4, OutIsOut, Zenon DEF Callback

(* Every step of every callback keeps the profile.                         *)
LEMMA ProfileKept == ProfileInv /\ [DeviceNext]_devVars => ProfileInv'
<1> SUFFICES ASSUME ProfileInv, [DeviceNext]_devVars PROVE ProfileInv'
  BY Zenon
<1>1. CASE UNCHANGED devVars
  <2>1. ASSUME NEW c \in Reporters, Alone(c) PROVE Alone(c)'
    BY <1>1, <2>1 DEF devVars, Alone, ComputeRelayAdjustment
  <2> QED
    BY <1>1, <2>1, Zenon DEF devVars, ProfileInv
<1>2. ASSUME NEW c \in Reporters, StoreState(c) PROVE ProfileInv'
  <2>1. GoOn(c, "profile") /\ reporter[c].step # "out"
    BY <1>2, Zenon DEF StoreState, At
  <2>2. \A d \in Reporters: reporter'[d] = Out \/ InCallback(reporter'[d])
    BY <2>1, GoOnChanges, Zenon DEF ProfileInv
  <2>3. ASSUME NEW d \in Reporters, reporter'[d] # Out, d \notin disturbed' PROVE Alone(d)'
    <3>1. d = c /\ Alone(c)
      BY <1>2, <2>1, <2>3, GoOnChanges, OutIsOut, Zenon DEF StoreState, ghosts, ProfileInv, Alone
    <3>2. deviceState' = <<reporter'[c].new>> /\ reporter'[c].step = "profile"
      BY <1>2, <2>1, GoOnChanges, Zenon DEF StoreState
    <3>3. \A e \in Reporters: reporter'[e] # Out => e = c
      BY <2>1, <3>1, GoOnChanges, Zenon DEF Alone
    <3> QED
      BY <3>1, <3>2, <3>3, Zenon DEF Alone
  <2> QED
    BY <1>2, <2>1, <2>2, <2>3, GoOnChanges, Zenon DEF StoreState, ProfileInv
<1>3. ASSUME NEW c \in Reporters, StoreProfile(c) PROVE ProfileInv'
  <2>1. GoOn(c, "budget") /\ reporter[c].step = "profile"
    BY <1>3, Zenon DEF StoreProfile, At
  <2>2. \A d \in Reporters: reporter'[d] = Out \/ InCallback(reporter'[d])
    BY <2>1, GoOnChanges, Zenon DEF ProfileInv
  <2>3. ASSUME NEW d \in Reporters, reporter'[d] # Out, d \notin disturbed' PROVE Alone(d)'
    <3>1. d = c /\ Alone(c)
      BY <1>3, <2>1, <2>3, GoOnChanges, OutIsOut, Zenon DEF StoreProfile, ghosts, ProfileInv, Alone
    <3>2. /\ profile' = <<reporter'[c].new>> /\ reporter'[c].step = "budget"
          /\ deviceState' = <<reporter'[c].new>>
      BY <1>3, <2>1, <3>1, GoOnChanges, Zenon DEF StoreProfile, Alone
    <3>3. \A e \in Reporters: reporter'[e] # Out => e = c
      BY <2>1, <3>1, GoOnChanges, Zenon DEF Alone
    <3> QED
      BY <3>1, <3>2, <3>3, Zenon DEF Alone
  <2>4. reporter[c].new \in DeviceProfile
    BY <2>1, GoOnChanges, Zenon DEF InCallback
  <2> QED
    BY <1>3, <2>1, <2>2, <2>3, <2>4, GoOnChanges, Zenon DEF StoreProfile, ProfileInv
<1>4. ASSUME NEW c \in Reporters, ApplyBudget(c) PROVE ProfileInv'
  <2>1. GoOn(c, "done") /\ reporter[c].step = "budget"
    BY <1>4, Zenon DEF ApplyBudget, At
  <2>2. \A d \in Reporters: reporter'[d] = Out \/ InCallback(reporter'[d])
    BY <2>1, GoOnChanges, Zenon DEF ProfileInv
  <2>3. ASSUME NEW d \in Reporters, reporter'[d] # Out, d \notin disturbed' PROVE Alone(d)'
    <3>1. d = c /\ Alone(c)
      BY <1>4, <2>1, <2>3, GoOnChanges, OutIsOut, Zenon DEF ApplyBudget, ghosts, ProfileInv, Alone
    <3>2. /\ profile' = <<reporter'[c].new>> /\ deviceState' = <<reporter'[c].new>>
      BY <1>4, <2>1, <3>1, GoOnChanges, Zenon DEF ApplyBudget, Alone
    <3>3. \A e \in Reporters: reporter'[e] # Out => e = c
      BY <2>1, <3>1, GoOnChanges, Zenon DEF Alone
    <3>4. relayBudget' = ComputeRelayAdjustment(ComputeProfile(reporter[c].new))
          /\ reporter'[c].new = reporter[c].new
      BY <1>4, <2>1, GoOnChanges, Zenon DEF ApplyBudget
    <3>5. relayBudget' = ComputeRelayAdjustment(ComputeProfile(reporter[c].new))'
      BY <1>4, <3>4 DEF ComputeRelayAdjustment, ApplyBudget
    <3> QED
      BY <3>1, <3>2, <3>3, <3>5, Zenon DEF Alone
  <2> QED
    BY <1>4, <2>1, <2>2, <2>3, GoOnChanges, Zenon DEF ApplyBudget, ProfileInv
<1>5. ASSUME NEW c \in Reporters, ReportDone(c) PROVE ProfileInv'
  <2>1. \A d \in Reporters: reporter'[d] = IF d = c THEN Out ELSE reporter[d]
    BY <1>5, Zenon DEF ReportDone, ProfileInv
  <2>2. \A d \in Reporters: reporter'[d] # Out => reporter[d] # Out /\ reporter'[d] = reporter[d]
    BY <2>1, Zenon
  <2>3. ASSUME NEW d \in Reporters, reporter'[d] # Out, d \notin disturbed' PROVE Alone(d)'
    <3>1. Alone(d) /\ reporter'[d] = reporter[d]
      BY <1>5, <2>2, <2>3, Zenon DEF ReportDone, ghosts, ProfileInv
    <3> QED
      BY <1>5, <2>2, <3>1 DEF Alone, ReportDone, ComputeRelayAdjustment
  <2> QED
    BY <1>5, <2>1, <2>3, Zenon DEF ReportDone, ProfileInv
<1>6. ASSUME NEW o \in Overrides \cup {NoOverride}, SetOverride(o) PROVE ProfileInv'
  BY <1>6, Zenon DEF SetOverride, ProfileInv, DeviceActive
<1>8. CASE ServiceStarted
  <2>1. DefaultProfile \in DeviceProfile
    BY Zenon DEF DefaultProfile, DeviceProfile
  <2> QED
    BY <1>8, <2>1, Zenon DEF ServiceStarted, ProfileInv, DeviceActive
<1>7. ASSUME NEW c \in Reporters, OnBatteryChanged(c) \/ OnNetworkChanged(c) \/ OnMotionChanged(c)
      PROVE  ProfileInv'
  BY <1>7, OnBatteryChangedKeeps, OnNetworkChangedKeeps, OnMotionChangedKeeps, Zenon
<1> QED
  BY <1>1, <1>2, <1>3, <1>4, <1>5, <1>6, <1>7, <1>8, Zenon DEF DeviceNext

(* A field whose last report was alone: every callback under way carries   *)
(* what was reported, and so does the profile, unless the report is still  *)
(* on its way there.                                                       *)
Fields == {"battery", "charging", "wifi", "motion"}
OnItsWay(f) == \E c \in Reporters: reporter[c].step \in {"state", "profile"} /\ f \in DOMAIN reporter[c].fields
FieldInv ==
    /\ DOMAIN told = Fields
    /\ \A f \in Fields \ shaken:
          /\ \A c \in Reporters: reporter[c] # Out => reporter[c].new[f] = told[f]
          /\ Current[f] = told[f] \/ OnItsWay(f)

(* A callback begins: it copies the fields it does not report, and puts    *)
(* those of every callback it overlaps at risk.                            *)
LEMMA ReportKeepsFields ==
    ASSUME ProfileInv, FieldInv, NEW c \in Reporters, NEW fields, Report(c, fields)
    PROVE  FieldInv'
<1>1. DOMAIN Current = Fields
  BY CurrentIsProfile DEF DeviceProfile, Fields
<1>2. /\ reporter'[c].new = Updated(Current, fields) /\ reporter'[c].fields = fields
      /\ reporter'[c].step = "state"
      /\ \A d \in Reporters: d # c => reporter'[d] = reporter[d]
  BY Zenon DEF Report, ProfileInv
<1>3. told' = Updated(told, fields) /\ DOMAIN told' = Fields
  BY Zenon DEF Report, FieldInv, Updated
<1>4. \A f \in Fields: /\ Updated(Current, fields)[f] = IF f \in DOMAIN fields THEN fields[f] ELSE Current[f]
                      /\ told'[f] = IF f \in DOMAIN fields THEN fields[f] ELSE told[f]
  BY <1>1, <1>3, Zenon DEF Updated, FieldInv
<1>5. Current' = Current
  BY Zenon DEF Report, Current
<1>6. ASSUME NEW f \in Fields \ shaken', f \in DOMAIN fields, DeviceActive = {}
      PROVE  /\ \A d \in Reporters: reporter'[d] # Out => reporter'[d].new[f] = told'[f]
             /\ OnItsWay(f)'
  BY <1>2, <1>4, <1>6, Zenon DEF OnItsWay, DeviceActive
<1>7. ASSUME NEW f \in Fields \ shaken', f \notin DOMAIN fields
      PROVE  /\ \A d \in Reporters: reporter'[d] # Out => reporter'[d].new[f] = told'[f]
             /\ Current'[f] = told'[f]
  <2>1. f \notin shaken /\ (\A d \in DeviceActive: f \notin DOMAIN reporter[d].fields)
    BY <1>7, Zenon DEF Report
  <2>2. ~OnItsWay(f)
    BY <2>1, OutIsOut DEF OnItsWay, DeviceActive
  <2> QED
    BY <1>2, <1>4, <1>5, <1>7, <2>1, <2>2, ZenonT(40) DEF FieldInv
<1>8. ASSUME NEW f \in Fields \ shaken', f \in DOMAIN fields PROVE DeviceActive = {}
  BY <1>8, Zenon DEF Report
<1> QED
  BY <1>3, <1>6, <1>7, <1>8, Zenon DEF FieldInv

(* Every step of every callback keeps the fields.                          *)
LEMMA FieldsStep == ProfileInv /\ FieldInv /\ [DeviceNext]_devVars => FieldInv'
<1> SUFFICES ASSUME ProfileInv, FieldInv, [DeviceNext]_devVars PROVE FieldInv'
  BY Zenon
<1>1. CASE UNCHANGED devVars
  BY <1>1, Zenon DEF devVars, FieldInv, OnItsWay, Current
<1>2. ASSUME NEW c \in Reporters, StoreState(c) PROVE FieldInv'
  <2>1. GoOn(c, "profile") /\ reporter[c].step = "state"
    BY <1>2, Zenon DEF StoreState, At
  <2>2. /\ \A d \in Reporters: d # c => reporter'[d] = reporter[d]
        /\ reporter'[c] = Callback("profile", reporter[c].fields, reporter[c].new)
    BY <2>1, GoOnChanges, OutIsOut, Zenon
  <2>3. /\ reporter'[c].new = reporter[c].new /\ reporter'[c].step = "profile"
        /\ reporter'[c].fields = reporter[c].fields /\ reporter[c] # Out
    BY <2>1, <2>2, OutIsOut DEF Callback
  <2>4. \A d \in Reporters: reporter'[d].new = reporter[d].new /\ (reporter'[d] # Out => reporter[d] # Out)
    BY <2>2, <2>3, Zenon
  <2>5. \A f: OnItsWay(f) => OnItsWay(f)'
    BY <2>1, <2>2, <2>3, Zenon DEF OnItsWay
  <2>6. Current' = Current /\ told' = told /\ shaken' = shaken
    BY <1>2, Zenon DEF StoreState, Current, ghosts
  <2> QED
    BY <2>4, <2>5, <2>6 DEF FieldInv
<1>3. ASSUME NEW c \in Reporters, StoreProfile(c) PROVE FieldInv'
  <2>1. GoOn(c, "budget") /\ reporter[c].step = "profile"
    BY <1>3, Zenon DEF StoreProfile, At
  <2>2. /\ \A d \in Reporters: d # c => reporter'[d] = reporter[d]
        /\ reporter'[c].new = reporter[c].new /\ reporter[c] # Out
    BY <2>1, GoOnChanges, OutIsOut, Zenon
  <2>5. \A d \in Reporters: reporter'[d].new = reporter[d].new /\ (reporter'[d] # Out => reporter[d] # Out)
    BY <2>2, Zenon
  <2>3. profile' # <<>> /\ profile'[1] = reporter[c].new
    BY <1>3, Zenon DEF StoreProfile
  <2>4. Current' = reporter[c].new
    BY <2>3, Zenon DEF Current
  <2>6. told' = told /\ shaken' = shaken
    BY <1>3, Zenon DEF StoreProfile, ghosts
  <2> QED
    BY <2>2, <2>4, <2>5, <2>6 DEF FieldInv
<1>4. ASSUME NEW c \in Reporters, ApplyBudget(c) PROVE FieldInv'
  <2>1. GoOn(c, "done") /\ reporter[c].step = "budget"
    BY <1>4, Zenon DEF ApplyBudget, At
  <2>2. /\ \A d \in Reporters: d # c => reporter'[d] = reporter[d]
        /\ reporter'[c].new = reporter[c].new /\ reporter[c] # Out
    BY <2>1, GoOnChanges, OutIsOut, Zenon
  <2>5. \A d \in Reporters: reporter'[d].new = reporter[d].new /\ (reporter'[d] # Out => reporter[d] # Out)
    BY <2>2, Zenon
  <2>3. \A f: OnItsWay(f) => OnItsWay(f)'
    BY <2>1, <2>2 DEF OnItsWay
  <2>6. Current' = Current /\ told' = told /\ shaken' = shaken
    BY <1>4, Zenon DEF ApplyBudget, Current, ghosts
  <2> QED
    BY <2>3, <2>5, <2>6 DEF FieldInv
<1>5. ASSUME NEW c \in Reporters, ReportDone(c) PROVE FieldInv'
  <2>1. \A d \in Reporters: reporter'[d] = IF d = c THEN Out ELSE reporter[d]
    BY <1>5, Zenon DEF ReportDone, ProfileInv
  <2>2. \A f: OnItsWay(f) => OnItsWay(f)'
    BY <1>5, <2>1 DEF OnItsWay, ReportDone, At
  <2>6. Current' = Current /\ told' = told /\ shaken' = shaken
    BY <1>5, Zenon DEF ReportDone, Current, ghosts
  <2> QED
    BY <2>1, <2>2, <2>6, ZenonT(40) DEF FieldInv
<1>6. ASSUME NEW o \in Overrides \cup {NoOverride}, SetOverride(o) PROVE FieldInv'
  BY <1>6, Zenon DEF SetOverride, FieldInv, OnItsWay, Current
<1>7. ASSUME NEW c \in Reporters, OnBatteryChanged(c) \/ OnNetworkChanged(c) \/ OnMotionChanged(c)
      PROVE  FieldInv'
  BY <1>7, ReportKeepsFields, Zenon DEF OnBatteryChanged, OnNetworkChanged, OnMotionChanged
<1>8. CASE ServiceStarted
  BY <1>8, Zenon DEF ServiceStarted, FieldInv
<1> QED
  BY <1>1, <1>2, <1>3, <1>4, <1>5, <1>6, <1>7, <1>8, Zenon DEF DeviceNext

(* The invariant gives the profile and its budget.                         *)
LEMMA ProfileInvImplies == ProfileInv => UndisturbedReportHeals /\ BudgetFollowsBattery
<1> SUFFICES ASSUME ProfileInv, NEW c \in Reporters, At(c, "done"), c \notin disturbed
             PROVE  /\ profile = deviceState
                    /\ \A f \in DOMAIN reporter[c].fields: Current[f] = reporter[c].fields[f]
                    /\ relayBudget = ComputeRelayAdjustment(ComputeProfile(Current))
                    /\ relayOverride = NoOverride =>
                          \A b \in Bands: b >= Current.battery =>
                                relayBudget <= ComputeRelayAdjustment(
                                                  ComputeProfile([Current EXCEPT !.battery = b]))
  BY Zenon DEF UndisturbedReportHeals, BudgetFollowsBattery
<1>1. InCallback(reporter[c]) /\ Alone(c) /\ reporter[c].step = "done"
  BY OutIsOut, Zenon DEF At, ProfileInv
<1>2. profile = <<reporter[c].new>> /\ deviceState = <<reporter[c].new>>
  BY <1>1, Zenon DEF Alone
<1>3. profile # <<>> /\ profile[1] = reporter[c].new
  BY <1>2, Zenon
<1>4. Current = reporter[c].new
  BY <1>3, Zenon DEF Current
<1>5. relayBudget = ComputeRelayAdjustment(ComputeProfile(Current))
  BY <1>1, <1>4, Zenon DEF Alone
<1>6. Current \in DeviceProfile /\ Carries(Current, reporter[c].fields)
  BY <1>1, <1>4, Zenon DEF InCallback
<1>7. ASSUME relayOverride = NoOverride
      PROVE  \A b \in Bands: b >= Current.battery =>
                relayBudget <= ComputeRelayAdjustment(ComputeProfile([Current EXCEPT !.battery = b]))
  <2> DEFINE d == Current
  <2> SUFFICES ASSUME NEW b \in Nat, b >= d.battery
               PROVE  relayBudget <=
                         ComputeRelayAdjustment(ComputeProfile([d EXCEPT !.battery = b]))
    BY ProfileAssumption, Zenon
  <2> DEFINE e == [d EXCEPT !.battery = b]
  <2>1. e \in DeviceProfile /\ e.charging = d.charging /\ e.wifi = d.wifi /\ e.battery = b
    BY <1>6, Zenon DEF DeviceProfile
  <2>2. relayBudget = LimitOf(d) /\ ComputeRelayAdjustment(ComputeProfile(e)) = LimitOf(e)
    BY <1>5, <1>6, <1>7, <2>1, LimitIs, Zenon
  <2>3. d.battery \in Nat /\ d.charging \in BOOLEAN /\ d.wifi \in BOOLEAN
    BY <1>6, Zenon DEF DeviceProfile
  <2> HIDE DEF d, e
  <2>4. LimitOf(d) <= LimitOf(e)
    BY <2>1, <2>3 DEF LimitOf
  <2> QED
    BY <2>2, <2>4, Zenon DEF e
<1> QED
  BY <1>2, <1>5, <1>6, <1>7, Zenon DEF Carries

(* The device profile, for any platform threads and any reports of theirs: *)
(* a callback that nothing overlapped leaves the engine's profile, the     *)
(* stored state and the relay budget in agreement with what it reported,   *)
(* whatever was lost before, and overlapping callbacks lose only fields    *)
(* that one of them reports (the platform callbacks of MeshService,        *)
(* core/src/mobile_bridge.rs, which copy the profile, release the lock and *)
(* store it back).                                                         *)
THEOREM ProfileStaysSound == DeviceSpec => []ProfileSound
<1>1. DeviceInit => ProfileInv /\ FieldInv
  <2>1. ASSUME DeviceInit PROVE FieldInv
    BY <2>1, Zenon DEF DeviceInit, FieldInv, Fields, Current, DefaultProfile
  <2> QED
    BY <2>1, ProfileInitially, Zenon
<1>2. FieldInv => FieldsKept
  BY Zenon DEF FieldInv, FieldsKept, OnItsWay
<1>3. ProfileInv /\ FieldInv => ProfileSound
  BY <1>2, ProfileInvImplies, Zenon DEF ProfileSound
<1> QED
  BY <1>1, <1>3, ProfileKept, FieldsStep, PTL DEF DeviceSpec
=============================================================================
