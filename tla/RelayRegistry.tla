--------------------------- MODULE RelayRegistry ---------------------------
(***************************************************************************)
(* The relay's identity registry (RelayRegistry in                         *)
(* core/src/store/relay_custody.rs): which device may currently receive    *)
(* the messages of an identity.  The registry is a persistent map from     *)
(* identity to registration state; every operation runs to completion in   *)
(* the swarm's single event loop, so each is one step.                     *)
(*                                                                         *)
(* The pure operators (Lookup, RegisterOk, DeregisterOk, ...) are shared   *)
(* with RelayCustody, which adds the message queue the operations act on.  *)
(***************************************************************************)
EXTENDS Integers

CONSTANTS
    Identities,                      \* canonical identity ids
    Keys,                            \* public keys, usable as an identity hint
    IdentityOfKey,                   \* the identity id derived from a key
    Devices,                         \* device ids (UUID v4)
    NoIdentity,                      \* "no recipient_identity_id given"
    NoDevice,                        \* "no device": None
    REGISTRATION_STALE_TAKEOVER_MS,
    HANDOVER_STALE_COLLAPSE_MS,
    MaxNow                           \* bound on the clock

ASSUME RegistryAssumption ==
    /\ NoDevice \notin Devices
    /\ Keys \cap Identities = {}
    /\ NoIdentity \notin Identities \cup Keys
    /\ IdentityOfKey \in [Keys -> Identities]
    /\ REGISTRATION_STALE_TAKEOVER_MS \in Nat
    /\ HANDOVER_STALE_COLLAPSE_MS \in Nat
    /\ MaxNow \in Nat

VARIABLES
    now,   \* the relay's wall clock
    reg    \* identity -> registration state (persistent)

registryVars == <<now, reg>>

(***************************************************************************)
(* A registration: dev is the active device, the device handed over from,  *)
(* or the abandoned one; to is the handover target; at is the one time a   *)
(* later decision reads: updated_at_ms of an Active registration,          *)
(* initiated_at of a Handover.                                             *)
(***************************************************************************)
Registration ==
    [st : {"none", "active", "handover", "abandoned"},
     dev : Devices \cup {NoDevice}, to : Devices \cup {NoDevice}, at : Nat]

Unregistered == [st |-> "none", dev |-> NoDevice, to |-> NoDevice, at |-> 0]

Active(d) == [st |-> "active", dev |-> d, to |-> NoDevice, at |-> now]

Handover(f, t, at) == [st |-> "handover", dev |-> f, to |-> t, at |-> at]

Abandoned(d) == [st |-> "abandoned", dev |-> d, to |-> NoDevice, at |-> 0]

HandoverStale(i) ==
    reg[i].st = "handover" /\ now - reg[i].at > HANDOVER_STALE_COLLAPSE_MS

(* Every read of a registration first collapses a stale handover. *)
Lookup(i) == IF HandoverStale(i) THEN Abandoned(reg[i].dev) ELSE reg[i]

(* Mutant: the stale window is one tick short. *)
TakeoverAllowedEarly(r) == now - r.at >= REGISTRATION_STALE_TAKEOVER_MS

(* An Active registration that another device may take over. *)
TakeoverAllowed(r) == now - r.at > REGISTRATION_STALE_TAKEOVER_MS

RegisterOk(i, d) ==
    LET r == Lookup(i) IN
    \/ r.st \in {"none", "abandoned"}
    \/ r.st = "active" /\ (r.dev = d \/ TakeoverAllowed(r))
    \/ r.st = "handover" /\ r.to = d

(* Mutant: the handover starts with its stale window already used up. *)
DeregisteredBackdated(i, f, t) ==
    IF Lookup(i).st = "active" /\ t # NoDevice
    THEN Handover(f, t, now - HANDOVER_STALE_COLLAPSE_MS) ELSE Abandoned(f)
(* The state a successful deregistration of device f, handing over to t,   *)
(* leaves; a reaffirmed handover keeps the time it was initiated.          *)
Deregistered(i, f, t) ==
    LET r == Lookup(i) IN
    CASE r.st = "active" /\ t # NoDevice -> Handover(f, t, now)
      [] r.st = "handover" -> Handover(f, t, r.at)
      [] OTHER -> Abandoned(f)

DeregisterOk(i, f, t) ==
    LET r == Lookup(i) IN
    /\ r.dev = f
    /\ \/ r.st \in {"active", "abandoned"}
       \/ r.st = "handover" /\ t = r.to

(* enforce_custody: may a message for device d of identity i be accepted,  *)
(* and for which device is it then held.                                   *)
EnforceOk(i, d) ==
    LET r == Lookup(i) IN
    \/ r.st = "active" /\ r.dev = d
    \/ r.st = "handover" /\ d \in {r.dev, r.to}

EnforcedDevice(i, d) == IF Lookup(i).st = "handover" THEN Lookup(i).to ELSE d

(* A public key is an alias of its identity once that identity is known. *)
NormalizeLookupIdentity(h) ==
    IF h \in Keys /\ reg[IdentityOfKey[h]].st # "none"
    THEN IdentityOfKey[h] ELSE h

-----------------------------------------------------------------------------

RegistryInit ==
    /\ now = 0
    /\ reg = [i \in Identities |-> Unregistered]

(* A rejected request still persists the collapse its lookup performed. *)
Register(i, d) ==
    /\ reg' = [reg EXCEPT ![i] = IF RegisterOk(i, d) THEN Active(d) ELSE Lookup(i)]
    /\ UNCHANGED now
Deregister(i, f, t) ==
    /\ t # f
    /\ reg' = [reg EXCEPT ![i] =
                  IF DeregisterOk(i, f, t) THEN Deregistered(i, f, t) ELSE Lookup(i)]
    /\ UNCHANGED now

(* get_state, get_state_info and the lookups of requests that are refused. *)
GetState(i) ==
    /\ reg' = [reg EXCEPT ![i] = Lookup(i)]
    /\ UNCHANGED now

Tick ==
    /\ now < MaxNow
    /\ now' = now + 1
    /\ UNCHANGED reg

RegistryNext ==
    \/ \E i \in Identities, d \in Devices : Register(i, d)
    \/ \E i \in Identities, f \in Devices, t \in Devices \cup {NoDevice} :
          Deregister(i, f, t)
    \/ \E i \in Identities : GetState(i)
    \/ Tick

RegistrySpec == RegistryInit /\ [][RegistryNext]_registryVars

-----------------------------------------------------------------------------

(* Types: a registration for every identity, times never negative. *)
RegistryTypeOK ==
    /\ now \in Nat
    /\ reg \in [Identities -> Registration]

(* Consistency of the persisted states: a registration never names a time  *)
(* in the future, an owner is a real device, and a handover has two        *)
(* different ends.  Reached through any sequence of register, deregister,  *)
(* lazy collapse and clock steps.                                          *)
RegistrationWellFormed ==
    \A i \in Identities :
        /\ reg[i].at <= now
        /\ reg[i].st # "none" => reg[i].dev \in Devices
        /\ reg[i].st = "handover" => reg[i].to \in Devices \ {reg[i].dev}

(* Nobody is displaced early: an identity's owning device (the active one, *)
(* or the target once a handover has begun) is replaced by a different one *)
(* only after the owner itself asked for it (deregister) or after its      *)
(* registration went stale.  register_identity and every lookup obey this. *)
OwnerDisplacedOnlyWhenStale ==
    [][\A i \in Identities :
          /\ (reg[i].st = "active" /\ reg'[i].st = "active" /\ reg'[i].dev # reg[i].dev)
                => now - reg[i].at > REGISTRATION_STALE_TAKEOVER_MS
          /\ (reg[i].st = "handover" /\ reg'[i].st # "handover"
                /\ ~(reg'[i].st = "active" /\ reg'[i].dev = reg[i].to))
                => now - reg[i].at > HANDOVER_STALE_COLLAPSE_MS]_registryVars

(* The handover deadline cannot be pushed back: however often the old      *)
(* device repeats its deregistration, the handover keeps its target and    *)
(* the time it began (registration_handover_reaffirmed).                   *)
HandoverDeadlineFixed ==
    [][\A i \in Identities :
          (reg[i].st = "handover" /\ reg'[i].st = "handover")
             => reg'[i] = reg[i]]_registryVars
=============================================================================
