------------------------------ MODULE CoreLocks ------------------------------
(***************************************************************************)
(* The locks of IronCore.  Every field of IronCore is a read-write lock of *)
(* its own, and an operation holds some of them while it takes others.     *)
(* The operations run on the threads of the caller: the interface, the     *)
(* network, the maintenance timer.                                         *)
(*                                                                         *)
(* The locks are those of parking_lot: they are not reentrant, and a       *)
(* reader is held back while a writer is parked, so a thread that reads a  *)
(* lock it already reads can block on itself.                              *)
(***************************************************************************)
EXTENDS Integers, Sequences, FiniteSets

CONSTANTS
    Threads,
    CallsOf         \* CallsOf[t]: the operations of Program the thread t calls

VARIABLES
    inside,    \* inside[t]: the operation t is inside, or "none"
    lockStep,  \* lockStep[t]: how many steps of it are done
    parked     \* the writers that wait, as <<thread, lock>>

lockVars == <<inside, lockStep, parked>>

-----------------------------------------------------------------------------
(* The steps of an operation: take a lock to read or to write, let it go.    *)
ReadLock(l)  == <<[do |-> "read", lock |-> l]>>
WriteLock(l) == <<[do |-> "write", lock |-> l]>>
FreeLock(l)  == <<[do |-> "free", lock |-> l]>>
Briefly(step) == step \o FreeLock(step[1].lock)    \* a temporary guard

InitializeIdentity ==
    Briefly(ReadLock("consent")) \o WriteLock("identity") \o Briefly(WriteLock("audit_log"))
      \o WriteLock("drift_engine") \o WriteLock("routing_engine") \o WriteLock("bootstrap_manager")
      \o FreeLock("bootstrap_manager") \o FreeLock("routing_engine") \o FreeLock("drift_engine")
      \o FreeLock("identity")

StartCore ==
    WriteLock("running") \o Briefly(WriteLock("drift_active")) \o Briefly(WriteLock("drift_engine"))
      \o FreeLock("running")

SetNickname ==
    WriteLock("identity") \o Briefly(WriteLock("audit_log")) \o FreeLock("identity")

PrepareMessage ==
    ReadLock("identity") \o Briefly(WriteLock("routing_engine")) \o Briefly(WriteLock("outbox"))
      \o Briefly(WriteLock("audit_log")) \o FreeLock("identity")

(* The delegate is called with the identity still held.  The mobile service's *)
(* one takes a lock of its own and passes the message on; what the            *)
(* application does with it there is not modelled.                            *)
ReceiveMessage ==
    ReadLock("identity") \o Briefly(ReadLock("blocked_manager")) \o Briefly(ReadLock("contact_manager"))
      \o Briefly(ReadLock("blocked_manager")) \o Briefly(WriteLock("inbox")) \o Briefly(WriteLock("audit_log"))
      \o ReadLock("delegate") \o Briefly(WriteLock("external_delegate")) \o FreeLock("delegate")
      \o FreeLock("identity")

SetDelegate == Briefly(WriteLock("delegate"))

ImportIdentityBackup ==
    WriteLock("identity") \o Briefly(WriteLock("ratchet_sessions"))
      \o Briefly(ReadLock("contact_manager")) \o Briefly(WriteLock("audit_log")) \o FreeLock("identity")

RoutingTick ==
    WriteLock("routing_engine") \o Briefly(ReadLock("drift_active")) \o Briefly(ReadLock("drift_store"))
      \o FreeLock("routing_engine")

(* build_identity_backup_payload, then an append whose argument reads the    *)
(* identity with the guard of the log already taken.                         *)
ExportIdentityBackup ==
    ReadLock("identity") \o Briefly(ReadLock("ratchet_sessions")) \o Briefly(ReadLock("contact_manager"))
      \o FreeLock("identity")
      \o WriteLock("audit_log") \o Briefly(ReadLock("identity")) \o FreeLock("audit_log")

(* Mutant: the identity is read inside the append.                           *)
PerformMaintenanceInside ==
    Briefly(WriteLock("outbox")) \o WriteLock("audit_log") \o Briefly(ReadLock("identity"))
      \o FreeLock("audit_log") \o Briefly(WriteLock("transport_manager")) \o Briefly(ReadLock("audit_log"))

(* The block engine has no peer to report (see AbuseControl).                *)
PerformMaintenance ==
    Briefly(WriteLock("outbox")) \o Briefly(ReadLock("identity")) \o Briefly(WriteLock("audit_log"))
      \o Briefly(ReadLock("auto_block_engine")) \o Briefly(WriteLock("transport_manager"))
      \o Briefly(ReadLock("audit_log"))

Program ==
    [ initialize_identity |-> InitializeIdentity,
      start               |-> StartCore,
      set_nickname        |-> SetNickname,
      prepare_message     |-> PrepareMessage,
      receive_message     |-> ReceiveMessage,
      import_backup       |-> ImportIdentityBackup,
      routing_tick        |-> RoutingTick,
      export_backup       |-> ExportIdentityBackup,
      set_delegate        |-> SetDelegate,
      maintenance         |-> PerformMaintenance ]

-----------------------------------------------------------------------------
Busy(t) == inside[t] # "none"
NextStep(t) == Program[inside[t]][lockStep[t] + 1]

(* The locks an operation has taken and not yet freed after n steps, as a    *)
(* table over the operations.                                                *)
HeldAfter ==
    [op \in DOMAIN Program |-> [mode \in {"read", "write"} |->
        [n \in 0..Len(Program[op]) |->
            {Program[op][i].lock : i \in {j \in 1..n :
                /\ Program[op][j].do = mode
                /\ ~\E k \in (j + 1)..n :
                       Program[op][k] = [do |-> "free", lock |-> Program[op][j].lock]}}]]]

HeldAs(t, mode) == IF Busy(t) THEN HeldAfter[inside[t]][mode][lockStep[t]] ELSE {}
Holds(t) == HeldAs(t, "read") \cup HeldAs(t, "write")

(* Who keeps t from its next step: for a reader, a writer inside or parked;  *)
(* for a writer, whoever is inside.                                          *)
Blockers(t) ==
    IF ~Busy(t) THEN {}
    ELSE LET s == NextStep(t)
         IN  CASE s.do = "read"  -> {u \in Threads : s.lock \in HeldAs(u, "write")
                                                       \/ <<u, s.lock>> \in parked}
               [] s.do = "write" -> {u \in Threads : s.lock \in Holds(u)}
               [] s.do = "free"  -> {}

LocksInit ==
    /\ inside = [t \in Threads |-> "none"]
    /\ lockStep = [t \in Threads |-> 0]
    /\ parked = {}

CallOp(t, op) ==
    /\ ~Busy(t)
    /\ inside' = [inside EXCEPT ![t] = op]
    /\ UNCHANGED <<lockStep, parked>>

ParkWriter(t) ==
    /\ Busy(t) /\ NextStep(t).do = "write"
    /\ Blockers(t) # {}
    /\ parked' = parked \cup {<<t, NextStep(t).lock>>}
    /\ UNCHANGED <<inside, lockStep>>

AdvanceOp(t) ==
    /\ Busy(t)
    /\ Blockers(t) = {}
    /\ parked' = parked \ {<<t, NextStep(t).lock>>}
    /\ IF lockStep[t] + 1 = Len(Program[inside[t]])
         THEN /\ inside' = [inside EXCEPT ![t] = "none"]
              /\ lockStep' = [lockStep EXCEPT ![t] = 0]
         ELSE /\ lockStep' = [lockStep EXCEPT ![t] = @ + 1]
              /\ UNCHANGED inside

LocksNext ==
    \E t \in Threads :
        \/ \E op \in CallsOf[t] : CallOp(t, op)
        \/ ParkWriter(t)
        \/ AdvanceOp(t)

LocksSpec == LocksInit /\ [][LocksNext]_lockVars

-----------------------------------------------------------------------------
(* "lock ordering: identity -> audit_log": taken in one order, the locks of  *)
(* IronCore never leave a set of threads each waiting for another of them.   *)
NoCircularWait ==
    \A stuck \in (SUBSET Threads) \ {{}} :
        \E t \in stuck : Blockers(t) \cap stuck = {}
=============================================================================
