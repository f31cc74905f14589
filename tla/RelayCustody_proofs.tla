------------------------ MODULE RelayCustody_proofs ------------------------
(***************************************************************************)
(* Safety of relay custody for any number of senders, destinations,        *)
(* messages, devices, faults and crashes, and for any limits.              *)
(*                                                                         *)
(* The inductive invariant is stated over a queue q, a table of dispatches *)
(* fl, requests on the wire wr, the next custody id n and the orphans o,   *)
(* so that one lemma per store operation serves every action that uses it. *)
(***************************************************************************)
EXTENDS RelayCustody, FiniteSetTheorems, TLAPS

-----------------------------------------------------------------------------
(* The registry, for any identities, devices and stale windows. *)

(* What a lookup returns is a registration that is as well formed as the   *)
(* stored one (get_record_by_identity_id).                                 *)
LEMMA LookupWellFormed ==
    ASSUME RegistryTypeOK, RegistrationWellFormed, NEW i \in Identities
    PROVE  /\ Lookup(i) \in Registration
           /\ Lookup(i).at <= now
           /\ Lookup(i).st # "none" => Lookup(i).dev \in Devices
           /\ Lookup(i).st = "handover" =>
                 Lookup(i) = reg[i] /\ Lookup(i).to \in Devices \ {Lookup(i).dev}
           /\ Lookup(i) # reg[i] => HandoverStale(i) /\ Lookup(i).st = "abandoned"
           /\ Lookup(i).st \in {"none", "active"} => Lookup(i) = reg[i]
  <1>1. CASE HandoverStale(i)
    BY <1>1, RegistryAssumption DEF Lookup, RegistryTypeOK, RegistrationWellFormed,
       Registration, Abandoned, HandoverStale
  <1>2. CASE ~HandoverStale(i)
    BY <1>2, Zenon DEF Lookup, RegistryTypeOK, RegistrationWellFormed, Registration
  <1> QED
    BY <1>1, <1>2, Zenon

(* The typing and well-formedness of registrations is inductive. *)
RegistryInv == RegistryTypeOK /\ RegistrationWellFormed

(* An empty registry is well formed.                                       *)
LEMMA RegistryInitInv ==
    RegistryInit => RegistryInv
  BY RegistryAssumption DEF RegistryInit, RegistryInv, RegistryTypeOK,
     RegistrationWellFormed, Registration, Unregistered

(* Every registry operation keeps registrations typed and well formed.     *)
LEMMA RegistryNextInv ==
    RegistryInv /\ [RegistryNext]_registryVars => RegistryInv'
  <1> SUFFICES ASSUME RegistryInv, [RegistryNext]_registryVars
               PROVE  RegistryInv'
    BY Zenon
  <1> USE DEF RegistryInv
  <1>a. ASSUME NEW i \in Identities, NEW r \in Registration,
               reg' = [reg EXCEPT ![i] = r], now' = now,
               r.at <= now, r.st # "none" => r.dev \in Devices,
               r.st = "handover" => r.to \in Devices \ {r.dev}
        PROVE  RegistryInv'
    BY <1>a, Zenon DEF RegistryTypeOK, RegistrationWellFormed
  <1>1. ASSUME NEW i \in Identities, NEW d \in Devices, Register(i, d)
        PROVE  RegistryInv'
    <2>1. CASE RegisterOk(i, d)
      <3>1. Active(d) \in Registration /\ Active(d).at <= now /\ Active(d).st = "active"
            /\ Active(d).dev = d
        BY DEF Active, Registration, RegistryTypeOK
      <3>2. reg' = [reg EXCEPT ![i] = Active(d)] /\ now' = now
        BY <1>1, <2>1, Zenon DEF Register
      <3> QED
        BY <3>1, <3>2, <1>a, Zenon
    <2>2. CASE ~RegisterOk(i, d)
      <3>1. reg' = [reg EXCEPT ![i] = Lookup(i)] /\ now' = now
        BY <1>1, <2>2, Zenon DEF Register
      <3> QED
        BY <3>1, <1>a, LookupWellFormed, Zenon
    <2> QED
      BY <2>1, <2>2, Zenon
  <1>2. ASSUME NEW i \in Identities, NEW f \in Devices,
               NEW t \in Devices \cup {NoDevice}, Deregister(i, f, t)
        PROVE  RegistryInv'
    <2>1. CASE DeregisterOk(i, f, t)
      <3>1. reg' = [reg EXCEPT ![i] = Deregistered(i, f, t)] /\ now' = now /\ t # f
        BY <1>2, <2>1, Zenon DEF Deregister
      <3>2. Lookup(i).st = "handover" => t = Lookup(i).to /\ t \in Devices
        BY <2>1, LookupWellFormed, Zenon DEF DeregisterOk
      <3>3. /\ Deregistered(i, f, t) \in Registration
            /\ Deregistered(i, f, t).at <= now
            /\ Deregistered(i, f, t).dev = f
            /\ Deregistered(i, f, t).st = "handover" =>
                  Deregistered(i, f, t).to = t /\ t \in Devices
        BY <3>2, LookupWellFormed, RegistryAssumption
           DEF Deregistered, Handover, Abandoned, Registration, RegistryTypeOK
      <3> QED
        BY <3>1, <3>3, <1>a, Zenon
    <2>2. CASE ~DeregisterOk(i, f, t)
      <3>1. reg' = [reg EXCEPT ![i] = Lookup(i)] /\ now' = now
        BY <1>2, <2>2, Zenon DEF Deregister
      <3> QED
        BY <3>1, <1>a, LookupWellFormed, Zenon
    <2> QED
      BY <2>1, <2>2, Zenon
  <1>3. ASSUME NEW i \in Identities, GetState(i)
        PROVE  RegistryInv'
    BY <1>3, <1>a, LookupWellFormed, Zenon DEF GetState
  <1>4. CASE Tick
    BY <1>4 DEF Tick, RegistryTypeOK, RegistrationWellFormed, Registration
  <1>5. CASE UNCHANGED registryVars
    BY <1>5, Zenon DEF registryVars, RegistryTypeOK, RegistrationWellFormed
  <1> QED
    BY <1>1, <1>2, <1>3, <1>4, <1>5, Zenon DEF RegistryNext

(* Registrations keep their type and stay well formed for ever: no owner   *)
(* is missing, no handover has equal ends, no time lies in the future.     *)
THEOREM RegistrySafe ==
    RegistrySpec => [](RegistryTypeOK /\ RegistrationWellFormed)
  <1>1. RegistryInit => RegistryInv
    BY RegistryInitInv, Zenon
  <1>2. RegistryInv /\ [RegistryNext]_registryVars => RegistryInv'
    BY RegistryNextInv, Zenon
  <1> QED
    BY <1>1, <1>2, PTL DEF RegistrySpec, RegistryInv

-----------------------------------------------------------------------------

(* A step of the registry from a well-formed state never displaces an      *)
(* owner early and never moves a handover's deadline or target.            *)
OwnerStep ==
    \A i \in Identities :
        /\ (reg[i].st = "active" /\ reg'[i].st = "active" /\ reg'[i].dev # reg[i].dev)
              => now - reg[i].at > REGISTRATION_STALE_TAKEOVER_MS
        /\ (reg[i].st = "handover" /\ reg'[i].st # "handover"
              /\ ~(reg'[i].st = "active" /\ reg'[i].dev = reg[i].to))
              => now - reg[i].at > HANDOVER_STALE_COLLAPSE_MS

(* A handover that goes on keeps its target and its deadline.              *)
DeadlineStep ==
    \A i \in Identities :
        (reg[i].st = "handover" /\ reg'[i].st = "handover") => reg'[i] = reg[i]

(* Both step predicates follow from the invariant for every operation.     *)
LEMMA RegistryStepFacts ==
    RegistryInv /\ [RegistryNext]_registryVars => OwnerStep /\ DeadlineStep
  <1> SUFFICES ASSUME RegistryInv, [RegistryNext]_registryVars
               PROVE  OwnerStep /\ DeadlineStep
    BY Zenon
  <1> USE DEF RegistryInv, RegistryTypeOK
  <1>1. ASSUME NEW i \in Identities, NEW d \in Devices, Register(i, d)
        PROVE  OwnerStep /\ DeadlineStep
    <2>1. CASE RegisterOk(i, d)
      BY <1>1, <2>1, LookupWellFormed, Zenon
         DEF Register, RegisterOk, Active, TakeoverAllowed, HandoverStale,
             OwnerStep, DeadlineStep
    <2>2. CASE ~RegisterOk(i, d)
      BY <1>1, <2>2, LookupWellFormed, Zenon DEF Register, HandoverStale, OwnerStep, DeadlineStep
    <2> QED
      BY <2>1, <2>2, Zenon
  <1>2. ASSUME NEW i \in Identities, NEW f \in Devices,
               NEW t \in Devices \cup {NoDevice}, Deregister(i, f, t)
        PROVE  OwnerStep /\ DeadlineStep
    <2>1. CASE DeregisterOk(i, f, t)
      <3>1. reg' = [reg EXCEPT ![i] = Deregistered(i, f, t)] /\ now' = now
        BY <1>2, <2>1, Zenon DEF Deregister
      <3>2. Deregistered(i, f, t).st # "active"
        BY Zenon DEF Deregistered, Handover, Abandoned
      <3>3. ASSUME Lookup(i).st = "handover"
            PROVE  Deregistered(i, f, t) = reg[i]
        <4>1. Lookup(i) = reg[i] /\ reg[i].dev = f /\ reg[i].to = t /\ reg[i].st = "handover"
          BY <3>3, <2>1, LookupWellFormed, Zenon DEF DeregisterOk
        <4>2. Deregistered(i, f, t) = Handover(f, t, reg[i].at)
          BY <4>1, Zenon DEF Deregistered
        <4> QED
          BY <4>1, <4>2, Zenon DEF Handover, Registration
      <3>4. reg[i].st = "handover" => HandoverStale(i) \/ Lookup(i).st = "handover"
        BY LookupWellFormed, Zenon
      <3>5. HandoverStale(i) => Deregistered(i, f, t).st = "abandoned"
        BY Zenon DEF Lookup, Deregistered, Abandoned
      <3> QED
        BY <3>1, <3>2, <3>3, <3>4, <3>5, Zenon DEF HandoverStale, OwnerStep, DeadlineStep
    <2>2. CASE ~DeregisterOk(i, f, t)
      BY <1>2, <2>2, LookupWellFormed, Zenon DEF Deregister, HandoverStale, OwnerStep, DeadlineStep
    <2> QED
      BY <2>1, <2>2, Zenon
  <1>3. ASSUME NEW i \in Identities, GetState(i)
        PROVE  OwnerStep /\ DeadlineStep
    BY <1>3, LookupWellFormed, Zenon DEF GetState, HandoverStale, OwnerStep, DeadlineStep
  <1>4. CASE Tick
    BY <1>4, Zenon DEF Tick, OwnerStep, DeadlineStep
  <1>5. CASE UNCHANGED registryVars
    BY <1>5, Zenon DEF registryVars, OwnerStep, DeadlineStep
  <1> QED
    BY <1>1, <1>2, <1>3, <1>4, <1>5, Zenon DEF RegistryNext

(* An owning device is displaced only at its own request or when stale.    *)
THEOREM OwnerNeverDisplacedEarly ==
    RegistrySpec => OwnerDisplacedOnlyWhenStale
  <1>1. RegistryInv /\ [RegistryNext]_registryVars => [OwnerStep]_registryVars
    BY RegistryStepFacts, Zenon
  <1>2. RegistrySpec => []RegistryInv
    BY RegistryInitInv, RegistryNextInv, PTL DEF RegistrySpec
  <1> QED
    BY <1>1, <1>2, PTL DEF RegistrySpec, OwnerDisplacedOnlyWhenStale, OwnerStep

(* Reaffirming a handover moves neither its deadline nor its target.       *)
THEOREM HandoverDeadlineNeverMoves ==
    RegistrySpec => HandoverDeadlineFixed
  <1>1. RegistryInv /\ [RegistryNext]_registryVars => [DeadlineStep]_registryVars
    BY RegistryStepFacts, Zenon
  <1>2. RegistrySpec => []RegistryInv
    BY RegistryInitInv, RegistryNextInv, PTL DEF RegistrySpec
  <1> QED
    BY <1>1, <1>2, PTL DEF RegistrySpec, HandoverDeadlineFixed, DeadlineStep

-----------------------------------------------------------------------------
(* The custody store and its handlers. *)

(* The type of the durable queue.                                          *)
QueueTyped(q) ==
    /\ DOMAIN q \subseteq Nat
    /\ q = [c \in DOMAIN q |-> q[c]]
    /\ \A c \in DOMAIN q : q[c] \in CustodyMessage

(* Custody ids below n have been issued; nobody refers to later ones. *)
Issued(q, fl, n) ==
    /\ n \in Nat
    /\ \A c \in DOMAIN q : c < n
    /\ \A p \in fl : p.cid < n

(* One record for a destination and message.                               *)
Unique(q) == \A c, e \in DOMAIN q : PairOf(q[c]) = PairOf(q[e]) => c = e

(* Dispatches in flight and records that are dispatching agree, apart from *)
(* the orphans o of a crash.                                               *)
Matches(q, fl, o) ==
    /\ \A p \in fl :
          p.cid \in DOMAIN q =>
             /\ q[p.cid].state = "dispatching"
             /\ q[p.cid].attempts = p.attempt
             /\ PairOf(q[p.cid]) = PairOf(p)
    /\ \A p, r \in fl : p.cid = r.cid => p = r
    /\ \A c \in DOMAIN q :
          q[c].state = "dispatching" => c \in o \/ \E p \in fl : p.cid = c

(* No record and no request exceeds the attempts.                          *)
Bounded(q, fl, wr) ==
    /\ \A c \in DOMAIN q : q[c].attempts <= MAX_DELIVERY_ATTEMPTS
    /\ \A p \in fl \cup wr : p.attempt <= MAX_DELIVERY_ATTEMPTS

(* What every stage of a handler keeps of queue and dispatches.            *)
QueueInv(q, fl, wr, n, o) ==
    /\ QueueTyped(q)
    /\ fl \subseteq Dispatch
    /\ wr \subseteq Dispatch
    /\ Issued(q, fl, n)
    /\ Unique(q)
    /\ Matches(q, fl, o)
    /\ Bounded(q, fl, wr)

-----------------------------------------------------------------------------
(* What the store operations do to the invariant. *)

(* Field by field, what changing a record gives. *)
LEMMA StateUpdates ==
    ASSUME NEW r \in CustodyMessage
    PROVE  /\ [r EXCEPT !.state = "accepted"] \in CustodyMessage
           /\ [r EXCEPT !.state = "accepted"].state = "accepted"
           /\ [r EXCEPT !.state = "accepted"].attempts = r.attempts
           /\ PairOf([r EXCEPT !.state = "accepted"]) = PairOf(r)
           /\ [r EXCEPT !.state = "dispatching", !.attempts = @ + 1] \in CustodyMessage
           /\ [r EXCEPT !.state = "dispatching", !.attempts = @ + 1].state = "dispatching"
           /\ [r EXCEPT !.state = "dispatching", !.attempts = @ + 1].attempts = r.attempts + 1
           /\ PairOf([r EXCEPT !.state = "dispatching", !.attempts = @ + 1]) = PairOf(r)
  <1>1. r.attempts \in Nat /\ r.attempts + 1 \in Nat
    BY DEF CustodyMessage
  <1>2. /\ [r EXCEPT !.state = "accepted"] \in CustodyMessage
        /\ [r EXCEPT !.state = "accepted"].state = "accepted"
        /\ [r EXCEPT !.state = "accepted"].attempts = r.attempts
        /\ PairOf([r EXCEPT !.state = "accepted"]) = PairOf(r)
    BY Zenon DEF CustodyMessage, PairOf
  <1>3. [r EXCEPT !.state = "dispatching", !.attempts = @ + 1] \in CustodyMessage
    BY <1>1, Zenon DEF CustodyMessage
  <1>4. /\ [r EXCEPT !.state = "dispatching", !.attempts = @ + 1].state = "dispatching"
        /\ [r EXCEPT !.state = "dispatching", !.attempts = @ + 1].attempts = r.attempts + 1
    BY <1>1, Zenon DEF CustodyMessage
  <1>5. PairOf([r EXCEPT !.state = "dispatching", !.attempts = @ + 1]) = PairOf(r)
    BY Zenon DEF CustodyMessage, PairOf
  <1> QED
    BY <1>2, <1>3, <1>4, <1>5, Zenon

(* Dispatching a record changes neither its message nor its addressee. *)
LEMMA DispatchUpdates ==
    ASSUME NEW r \in CustodyMessage
    PROVE  /\ PairOf([r EXCEPT !.state = "dispatching", !.attempts = @ + 1]) = PairOf(r)
           /\ [r EXCEPT !.state = "dispatching", !.attempts = @ + 1].identity = r.identity
           /\ [r EXCEPT !.state = "dispatching", !.attempts = @ + 1].device = r.device
  BY Zenon DEF CustodyMessage, PairOf

(* Re-addressing a record to device t changes its device, nothing else. *)
LEMMA DeviceUpdates ==
    ASSUME NEW r \in CustodyMessage, NEW t \in Devices \cup {NoDevice}
    PROVE  /\ [r EXCEPT !.device = t] \in CustodyMessage
           /\ [r EXCEPT !.device = t].state = r.state
           /\ [r EXCEPT !.device = t].attempts = r.attempts
           /\ [r EXCEPT !.device = t].identity = r.identity
           /\ [r EXCEPT !.device = t].device = t
           /\ PairOf([r EXCEPT !.device = t]) = PairOf(r)
  BY Zenon DEF CustodyMessage, PairOf

(* remove_message of the records S, giving up the dispatches D. *)
LEMMA RemoveKeeps ==
    ASSUME NEW q, NEW fl, NEW wr, NEW n, NEW o, NEW S, NEW D,
           QueueInv(q, fl, wr, n, o),
           \A p \in D \cap fl : p.cid \in DOMAIN q => p.cid \in S
    PROVE  QueueInv(RemoveMessages(q, S), fl \ D, wr, n, o)
  <1> DEFINE q2 == RemoveMessages(q, S)
  <1>1. DOMAIN q2 = DOMAIN q \ S /\ \A c \in DOMAIN q2 : q2[c] = q[c]
    BY Zenon DEF RemoveMessages
  <1>2. QueueTyped(q2)
    BY <1>1, Zenon DEF QueueTyped, QueueInv, RemoveMessages
  <1> HIDE DEF q2
  <1>3. Issued(q2, fl \ D, n) /\ Unique(q2) /\ Bounded(q2, fl \ D, wr)
    BY <1>1, Zenon DEF QueueInv, Issued, Unique, Bounded
  <1>4. Matches(q2, fl \ D, o)
    <2>1. ASSUME NEW c \in DOMAIN q2, q2[c].state = "dispatching", c \notin o
          PROVE  \E p \in fl \ D : p.cid = c
      <3>1. PICK p \in fl : p.cid = c
        BY <1>1, <2>1, Zenon DEF QueueInv, Matches
      <3> QED
        BY <1>1, <3>1, Zenon
    <2> QED
      BY <1>1, <2>1, Zenon DEF QueueInv, Matches
  <1> QED
    BY <1>2, <1>3, <1>4, Zenon DEF QueueInv, q2

(* put_message of a record that was not in custody before. *)
LEMMA PutKeeps ==
    ASSUME NEW q, NEW fl, NEW wr, NEW n, NEW o,
           NEW d \in Destinations, NEW m \in Messages,
           NEW i \in Identities \cup Keys \cup {NoIdentity},
           NEW dv \in Devices \cup {NoDevice},
           QueueInv(q, fl, wr, n, o),
           \A c \in DOMAIN q : PairOf(q[c]) # <<d, m>>
    PROVE  QueueInv(PutAccepted(q, n, d, m, i, dv), fl, wr, n + 1, o)
  <1> DEFINE r == [dest |-> d, mid |-> m, identity |-> i, device |-> dv,
                   state |-> "accepted", attempts |-> 0]
             q2 == PutAccepted(q, n, d, m, i, dv)
  <1>1. n \in Nat /\ n \notin DOMAIN q
    BY DEF QueueInv, Issued, QueueTyped
  <1>2. /\ DOMAIN q2 = DOMAIN q \cup {n}
        /\ q2[n] = r
        /\ \A c \in DOMAIN q : q2[c] = q[c]
    BY <1>1, Zenon DEF PutAccepted
  <1>3. r \in CustodyMessage /\ PairOf(r) = <<d, m>> /\ r.state = "accepted" /\ r.attempts = 0
    BY Zenon DEF CustodyMessage, PairOf
  <1>4. q2 = [c \in DOMAIN q2 |-> q2[c]]
    BY Zenon DEF PutAccepted
  <1> HIDE DEF q2, r
  <1>5. QueueTyped(q2)
    BY <1>1, <1>2, <1>3, <1>4, Zenon DEF QueueTyped, QueueInv
  <1>6. Issued(q2, fl, n + 1)
    <2>1. \A c \in DOMAIN q2 : c < n + 1
      BY <1>1, <1>2 DEF QueueInv, Issued, QueueTyped
    <2>2. \A p \in fl : p.cid < n + 1
      BY <1>1 DEF QueueInv, Issued, Dispatch
    <2> QED
      BY <1>1, <2>1, <2>2 DEF Issued
  <1>7. Unique(q2)
    BY <1>2, <1>3, Zenon DEF QueueInv, Unique
  <1>8. Matches(q2, fl, o)
    BY <1>1, <1>2, <1>3 DEF QueueInv, Matches, Issued
  <1>9. Bounded(q2, fl, wr)
    BY <1>2, <1>3, CustodyAssumption DEF QueueInv, Bounded
  <1> QED
    BY <1>5, <1>6, <1>7, <1>8, <1>9, Zenon DEF QueueInv, q2

(* A pull selects pending records that have attempts left. *)
LEMMA PulledArePending ==
    ASSUME NEW q, NEW D, NEW R \in SUBSET UNION {Batch(q, d) : d \in D}
    PROVE  /\ R \subseteq DOMAIN q
           /\ \A c \in R : q[c].state = "accepted" /\ q[c].attempts < MAX_DELIVERY_ATTEMPTS
  BY Zenon DEF Batch, Oldest, PendingForDestination

(* mark_dispatching and send_request for the records R. *)
LEMMA DispatchKeeps ==
    ASSUME NEW q, NEW fl, NEW wr, NEW n, NEW o, NEW R,
           QueueInv(q, fl, wr, n, o),
           R \subseteq DOMAIN q,
           \A c \in R : q[c].state = "accepted" /\ q[c].attempts < MAX_DELIVERY_ATTEMPTS
    PROVE  QueueInv(MarkDispatching(q, R), fl \cup DispatchesOf(q, R),
                    wr \cup DispatchesOf(q, R), n, o)
  <1> DEFINE q2 == MarkDispatching(q, R)
             N == DispatchesOf(q, R)
             req(c) == [cid |-> c, attempt |-> q[c].attempts + 1,
                        dest |-> q[c].dest, mid |-> q[c].mid]
  <1>1. /\ DOMAIN q2 = DOMAIN q
        /\ q2 = [c \in DOMAIN q2 |-> q2[c]]
        /\ \A c \in DOMAIN q \ R : q2[c] = q[c]
    BY Zenon DEF MarkDispatching
  <1>2. \A c \in R : /\ q2[c] \in CustodyMessage
                      /\ q2[c].state = "dispatching"
                      /\ q2[c].attempts = q[c].attempts + 1
                      /\ PairOf(q2[c]) = PairOf(q[c])
    <2> SUFFICES ASSUME NEW c \in R
                 PROVE  /\ q2[c] \in CustodyMessage
                        /\ q2[c].state = "dispatching"
                        /\ q2[c].attempts = q[c].attempts + 1
                        /\ PairOf(q2[c]) = PairOf(q[c])
      BY Zenon
    <2>1. q2[c] = [q[c] EXCEPT !.state = "dispatching", !.attempts = @ + 1]
      BY Zenon DEF MarkDispatching
    <2>2. q[c] \in CustodyMessage
      BY Zenon DEF QueueInv, QueueTyped
    <2> HIDE DEF q2
    <2> QED
      BY <2>1, <2>2, StateUpdates, Zenon
  <1>3. \A c \in DOMAIN q : q[c] \in CustodyMessage /\ c \in Nat /\ q[c].attempts \in Nat
    BY Zenon DEF QueueInv, QueueTyped, CustodyMessage
  <1>4. \A p \in N : /\ p \in Dispatch
                      /\ p.cid \in R
                      /\ p.attempt = q[p.cid].attempts + 1
                      /\ PairOf(p) = PairOf(q[p.cid])
    <2> SUFFICES ASSUME NEW c \in R
                 PROVE  /\ req(c) \in Dispatch
                        /\ req(c).cid = c
                        /\ req(c).attempt = q[c].attempts + 1
                        /\ PairOf(req(c)) = PairOf(q[c])
      BY DEF DispatchesOf
    <2> QED
      BY <1>3 DEF Dispatch, CustodyMessage, PairOf
  <1>5. \A c \in R : \E p \in N : p.cid = c
    <2> SUFFICES ASSUME NEW c \in R PROVE \E p \in N : p.cid = c
      BY Zenon
    <2>1. req(c) \in N /\ req(c).cid = c
      BY Zenon DEF DispatchesOf
    <2> QED
      BY <2>1, Zenon
  <1>6. \A p, r \in N : p.cid = r.cid => p = r
    BY DEF DispatchesOf
  <1> HIDE DEF q2, N, req
  <1>7. \A p \in fl : p.cid \notin R
    BY Zenon DEF QueueInv, Matches
  <1>8. QueueTyped(q2)
    BY <1>1, <1>2, <1>3, Zenon DEF QueueTyped, QueueInv
  <1>9. Issued(q2, fl \cup N, n)
    BY <1>1, <1>4, Zenon DEF QueueInv, Issued
  <1>10. Unique(q2)
    <2>1. \A c \in DOMAIN q : PairOf(q2[c]) = PairOf(q[c])
      BY <1>1, <1>2, Zenon
    <2> QED
      BY <1>1, <2>1, Zenon DEF QueueInv, Unique
  <1>11. Matches(q2, fl \cup N, o)
    <2>1. ASSUME NEW p \in fl \cup N, p.cid \in DOMAIN q2
          PROVE  /\ q2[p.cid].state = "dispatching"
                 /\ q2[p.cid].attempts = p.attempt
                 /\ PairOf(q2[p.cid]) = PairOf(p)
      <3>1. CASE p \in fl
        BY <1>1, <1>7, <2>1, <3>1, Zenon DEF QueueInv, Matches
      <3>2. CASE p \in N
        BY <1>2, <1>4, <3>2, Zenon
      <3> QED
        BY <3>1, <3>2, Zenon
    <2>2. \A p, r \in fl \cup N : p.cid = r.cid => p = r
      BY <1>4, <1>6, <1>7, Zenon DEF QueueInv, Matches
    <2>3. ASSUME NEW c \in DOMAIN q2, q2[c].state = "dispatching", c \notin o
          PROVE  \E p \in fl \cup N : p.cid = c
      <3>1. CASE c \in R
        BY <1>5, <3>1, Zenon
      <3>2. CASE c \notin R
        <4>1. c \in DOMAIN q /\ q[c].state = "dispatching"
          BY <1>1, <2>3, <3>2, Zenon
        <4>2. PICK p \in fl : p.cid = c
          BY <4>1, <2>3, Zenon DEF QueueInv, Matches
        <4> QED
          BY <4>2, Zenon
      <3> QED
        BY <3>1, <3>2, Zenon
    <2> QED
      BY <2>1, <2>2, <2>3, Zenon DEF Matches
  <1>12. Bounded(q2, fl \cup N, wr \cup N)
    <2>1. \A c \in R : q[c].attempts + 1 <= MAX_DELIVERY_ATTEMPTS
      BY <1>3, CustodyAssumption
    <2>2. \A c \in DOMAIN q2 : q2[c].attempts <= MAX_DELIVERY_ATTEMPTS
      BY <1>1, <1>2, <2>1, Zenon DEF QueueInv, Bounded
    <2> QED
      BY <1>4, <2>1, <2>2, Zenon DEF QueueInv, Bounded
  <1> QED
    BY <1>4, <1>8, <1>9, <1>10, <1>11, <1>12, Zenon DEF QueueInv, q2, N

(* mark_dispatch_failed for the records of the dispatches D. *)
LEMMA FailKeeps ==
    ASSUME NEW q, NEW fl, NEW wr, NEW n, NEW o, NEW D \in SUBSET fl,
           QueueInv(q, fl, wr, n, o)
    PROVE  QueueInv(MarkDispatchFailed(q, {p.cid : p \in D}), fl \ D, wr, n, o)
  <1> DEFINE S == {p.cid : p \in D}
             q2 == MarkDispatchFailed(q, S)
  <1>1. /\ DOMAIN q2 = DOMAIN q
        /\ q2 = [c \in DOMAIN q2 |-> q2[c]]
        /\ \A c \in DOMAIN q \ S : q2[c] = q[c]
    BY Zenon DEF MarkDispatchFailed
  <1>2. ASSUME NEW c \in S \cap DOMAIN q
        PROVE  /\ q2[c] \in CustodyMessage
               /\ q2[c].state = "accepted"
               /\ q2[c].attempts = q[c].attempts
               /\ PairOf(q2[c]) = PairOf(q[c])
    <2>1. q2[c] = [q[c] EXCEPT !.state = "accepted"]
      BY Zenon DEF MarkDispatchFailed
    <2>2. q[c] \in CustodyMessage
      BY Zenon DEF QueueInv, QueueTyped
    <2> HIDE DEF q2, S
    <2> QED
      BY <2>1, <2>2, StateUpdates, Zenon
  <1>3. \A p \in fl \ D : p.cid \notin S
    BY Zenon DEF QueueInv, Matches
  <1>4. \A p \in D : p.cid \in S
    BY Zenon
  <1> HIDE DEF q2, S
  <1>5. QueueTyped(q2)
    BY <1>1, <1>2, Zenon DEF QueueTyped, QueueInv
  <1>6. Issued(q2, fl \ D, n)
    BY <1>1, Zenon DEF QueueInv, Issued
  <1>7. \A c \in DOMAIN q : PairOf(q2[c]) = PairOf(q[c]) /\ q2[c].attempts = q[c].attempts
    BY <1>1, <1>2, Zenon
  <1>8. Unique(q2) /\ Bounded(q2, fl \ D, wr)
    BY <1>1, <1>7, Zenon DEF QueueInv, Unique, Bounded
  <1>9. Matches(q2, fl \ D, o)
    <2>1. ASSUME NEW c \in DOMAIN q2, q2[c].state = "dispatching", c \notin o
          PROVE  \E p \in fl \ D : p.cid = c
      <3>1. c \in DOMAIN q /\ c \notin S /\ q[c].state = "dispatching"
        BY <1>1, <1>2, <2>1, Zenon
      <3>2. PICK p \in fl : p.cid = c
        BY <3>1, <2>1, Zenon DEF QueueInv, Matches
      <3> QED
        BY <1>4, <3>1, <3>2, Zenon
    <2>2. \A p \in fl \ D : p.cid \in DOMAIN q2 => q2[p.cid] = q[p.cid]
      BY <1>1, <1>3, Zenon
    <2> QED
      BY <1>1, <2>1, <2>2, Zenon DEF QueueInv, Matches
  <1> QED
    BY <1>5, <1>6, <1>8, <1>9, Zenon DEF QueueInv, q2, S

(* The migration of the records S to device t. *)
LEMMA MigrateKeeps ==
    ASSUME NEW q, NEW fl, NEW wr, NEW n, NEW o, NEW S, NEW t \in Devices \cup {NoDevice},
           QueueInv(q, fl, wr, n, o)
    PROVE  QueueInv(MigrateIdentityDevice(q, S, t), fl, wr, n, o)
  <1> DEFINE q2 == MigrateIdentityDevice(q, S, t)
  <1>1. DOMAIN q2 = DOMAIN q /\ q2 = [c \in DOMAIN q2 |-> q2[c]]
    BY Zenon DEF MigrateIdentityDevice
  <1>2. ASSUME NEW c \in DOMAIN q
        PROVE  /\ q2[c] \in CustodyMessage
               /\ q2[c].state = q[c].state
               /\ q2[c].attempts = q[c].attempts
               /\ PairOf(q2[c]) = PairOf(q[c])
    <2>1. q2[c] = IF c \in S THEN [q[c] EXCEPT !.device = t] ELSE q[c]
      BY Zenon DEF MigrateIdentityDevice
    <2>2. q[c] \in CustodyMessage
      BY Zenon DEF QueueInv, QueueTyped
    <2> HIDE DEF q2
    <2> QED
      BY <2>1, <2>2, DeviceUpdates
  <1> HIDE DEF q2
  <1>3. QueueTyped(q2)
    BY <1>1, <1>2, Zenon DEF QueueTyped, QueueInv
  <1>4. Issued(q2, fl, n) /\ Unique(q2) /\ Bounded(q2, fl, wr)
    BY <1>1, <1>2, Zenon DEF QueueInv, Issued, Unique, Bounded
  <1>5. Matches(q2, fl, o)
    BY <1>1, <1>2, Zenon DEF QueueInv, Matches
  <1> QED
    BY <1>3, <1>4, <1>5, Zenon DEF QueueInv, q2

(* A restart: no dispatch survives, what was Dispatching becomes an orphan. *)
LEMMA RestartKeeps ==
    ASSUME NEW q, NEW fl, NEW wr, NEW n, NEW o, NEW w \in SUBSET wr,
           QueueInv(q, fl, wr, n, o)
    PROVE  QueueInv(q, {}, w, n, o \cup {c \in DOMAIN q : q[c].state = "dispatching"})
  BY Zenon DEF QueueInv, Issued, Matches, Bounded

(* Requests may vanish from the wire. *)
LEMMA WireShrinks ==
    ASSUME NEW q, NEW fl, NEW wr, NEW n, NEW o, NEW w \in SUBSET wr,
           QueueInv(q, fl, wr, n, o)
    PROVE  QueueInv(q, fl, w, n, o)
  BY Zenon DEF QueueInv, Bounded

-----------------------------------------------------------------------------
(* The registry inside the relay behaves as the registry alone does. *)

(* Every step of the relay is a step of its registry or leaves it alone.   *)
LEMMA RegistryStep ==
    Next => [RegistryNext]_registryVars
  <1> SUFFICES ASSUME Next PROVE [RegistryNext]_registryVars
    BY Zenon
  <1>1. CASE RelayRequest
    BY <1>1 DEF RelayRequest, SuppressDuplicate, AcceptExisting, AcceptNew,
       RefuseForPressure, registryVars
  <1>2. CASE Connections
    BY <1>2, Zenon DEF Connections, ConnectionEstablished, ConnectionClosed, CustodyPullTick,
       DispatchesFail, registryVars
  <1>3. CASE Responses
    BY <1>3, Zenon DEF Responses, RecipientAck, RecipientRejected, OutboundFailure,
       ConvergenceMarker, DispatchesFail, registryVars
  <1>4. CASE Environment
    BY <1>4, Zenon DEF Environment, RecipientReceives, RecipientRefuses, OtherRelayDelivers,
       ForgetRecent, ClockTick, RegistryNext, registryVars
  <1>5. CASE Registrations
    BY <1>5 DEF Registrations, RegisterIdentity, CrashInRegister, DeregisterIdentity,
       CrashInDeregister, ReadRegistration, RegistryNext
  <1>6. CASE Crash
    BY <1>6, Zenon DEF Crash, registryVars
  <1> QED
    BY <1>1, <1>2, <1>3, <1>4, <1>5, <1>6, Zenon DEF Next

(* The composed relay implements the registry on its own, so everything    *)
(* proved of register and deregister holds beside traffic and crashes.     *)
THEOREM ImplementsRegistry ==
    Spec => RegistrySpec
  <1>1. Init => RegistryInit
    BY Zenon DEF Init
  <1>2. [Next]_vars => [RegistryNext]_registryVars
    BY RegistryStep, Zenon DEF vars, registryVars
  <1> QED
    BY <1>1, <1>2, PTL DEF Spec, RegistrySpec

(* The registry's invariant holds of the whole relay.                      *)
LEMMA SpecRegistryInv ==
    Spec => []RegistryInv
  BY ImplementsRegistry, RegistryInitInv, RegistryNextInv, PTL DEF RegistrySpec

-----------------------------------------------------------------------------
(* The inductive step for the queue. *)

(* The same for the state of the relay.                                    *)
Core == QueueInv(queue, inflight, wire, nextId, orphans)

(* Responses belong to dispatches in flight, and an acceptance means that  *)
(* the recipient has the message.                                          *)
AckInv ==
    \A a \in acks : a.req \in inflight /\ (a.ok => PairOf(a.req) \in arrived)

(* A pull preserves the agreement of queue and dispatches: it marks and    *)
(* sends only records that were Accepted.                                  *)
LEMMA PullKeeps ==
    ASSUME NEW q, NEW n, NEW o, NEW D,
           QueueInv(q, inflight, wire, n, o), DispatchPending(q, D)
    PROVE  QueueInv(queue', inflight', wire', n, o)
  <1>1. PICK R \in SUBSET UNION {Batch(q, d) : d \in D} :
            /\ queue' = MarkDispatching(q, R)
            /\ inflight' = inflight \cup DispatchesOf(q, R)
            /\ wire' = wire \cup DispatchesOf(q, R)
    BY Zenon DEF DispatchPending
  <1>2. /\ R \subseteq DOMAIN q
        /\ \A c \in R : q[c].state = "accepted" /\ q[c].attempts < MAX_DELIVERY_ATTEMPTS
    BY PulledArePending, Zenon
  <1> QED
    BY <1>1, <1>2, DispatchKeeps, Zenon

(* The identity and device a relay request resolves to have their types. *)
LEMMA ResolvedTypes ==
    ASSUME RegistryInv,
           NEW h \in Identities \cup Keys \cup {NoIdentity},
           NEW dv \in Devices \cup {NoDevice}, Resolvable(h, dv)
    PROVE  /\ NormalizeLookupIdentity(h) \in Identities \cup Keys \cup {NoIdentity}
           /\ ResolvedDevice(h, dv) \in Devices \cup {NoDevice}
  <1>1. NormalizeLookupIdentity(h) \in Identities \cup Keys \cup {NoIdentity}
    BY RegistryAssumption, Zenon DEF NormalizeLookupIdentity
  <1>2. ResolvedDevice(h, dv) \in Devices \cup {NoDevice}
    <2>1. CASE Complete(h, dv)
      BY <2>1, LookupWellFormed, Zenon
         DEF ResolvedDevice, Resolvable, EnforcedDevice, Registration, RegistryInv
    <2>2. CASE ~Complete(h, dv)
      BY <2>2, Zenon DEF ResolvedDevice
    <2> QED
      BY <2>1, <2>2, Zenon
  <1> QED
    BY <1>1, <1>2, Zenon

(* The queue of an accepted request, before the pull that follows. *)
LEMMA AcceptQueue ==
    ASSUME RegistryInv, Core,
           NEW s \in Senders, NEW d \in Destinations, NEW m \in Messages,
           NEW h \in Identities \cup Keys \cup {NoIdentity},
           NEW dv \in Devices \cup {NoDevice}, NEW P, WritableNew(s, d, m, h, dv)
    PROVE  QueueInv(PutAccepted(RemoveMessages(queue, P), nextId, d, m,
                        NormalizeLookupIdentity(h), ResolvedDevice(h, dv)),
                    inflight, wire, nextId + 1, orphans)
  <1> DEFINE q0 == RemoveMessages(queue, P)
  <1>1. QueueInv(q0, inflight, wire, nextId, orphans)
    <2>1. QueueInv(q0, inflight \ {}, wire, nextId, orphans)
      BY RemoveKeeps, Zenon DEF Core
    <2> QED
      BY <2>1, Zenon
  <1>2. \A c \in DOMAIN q0 : PairOf(q0[c]) # <<d, m>>
    BY Zenon DEF WritableNew, Held, RemoveMessages
  <1>3. Resolvable(h, dv)
    BY Zenon DEF WritableNew, Admitted
  <1> HIDE DEF q0
  <1>4. QueueInv(PutAccepted(q0, nextId, d, m, NormalizeLookupIdentity(h),
                             ResolvedDevice(h, dv)),
                 inflight, wire, nextId + 1, orphans)
    BY <1>1, <1>2, <1>3, PutKeeps, ResolvedTypes, Zenon
  <1> QED
    BY <1>4, Zenon DEF q0

(* Every step of the relay preserves the queue invariant.                  *)
LEMMA CoreStep ==
    ASSUME RegistryInv, Core, AckInv, Next
    PROVE  Core'
  <1> USE DEF Core
  <1>1. ASSUME NEW s \in Senders, NEW d \in Destinations, NEW m \in Messages,
               NEW h \in Identities \cup Keys \cup {NoIdentity},
               NEW dv \in Devices \cup {NoDevice}
        PROVE  /\ SuppressDuplicate(s, d, m, h, dv) => Core'
               /\ AcceptExisting(s, d, m, h, dv) => Core'
               /\ \A P : AcceptNew(s, d, m, h, dv, P) => Core'
               /\ \A P : RefuseForPressure(s, d, m, h, dv, P) => Core'
    <2>1. SuppressDuplicate(s, d, m, h, dv) => Core'
      BY Zenon DEF SuppressDuplicate, memoryVars
    <2>2. AcceptExisting(s, d, m, h, dv) => Core'
      BY PullKeeps, Zenon DEF AcceptExisting
    <2>3. ASSUME NEW P, AcceptNew(s, d, m, h, dv, P)
          PROVE  Core'
      BY <2>3, AcceptQueue, PullKeeps, Zenon DEF AcceptNew
    <2>4. ASSUME NEW P, RefuseForPressure(s, d, m, h, dv, P)
          PROVE  Core'
      <3>1. QueueInv(RemoveMessages(queue, P), inflight \ {}, wire, nextId, orphans)
        BY RemoveKeeps, Zenon
      <3> QED
        BY <2>4, <3>1, Zenon DEF RefuseForPressure, memoryVars
    <2> QED
      BY <2>1, <2>2, <2>3, <2>4, Zenon
  <1>2. ASSUME NEW D \in SUBSET inflight, NEW w \in SUBSET wire,
               DispatchesFail(D), wire' = w
        PROVE  Core'
    BY <1>2, FailKeeps, WireShrinks, Zenon DEF DispatchesFail, historyVars
  <1>3. CASE Connections
    <2>1. ASSUME NEW d \in Destinations, ConnectionEstablished(d)
          PROVE  Core'
      BY <2>1, PullKeeps, Zenon DEF ConnectionEstablished, historyVars
    <2>2. ASSUME NEW d \in Destinations, ConnectionClosed(d)
          PROVE  Core'
      BY <2>2, <1>2, Zenon DEF ConnectionClosed
    <2>3. CASE CustodyPullTick
      BY <2>3, PullKeeps, Zenon DEF CustodyPullTick, historyVars
    <2> QED
      BY <1>3, <2>1, <2>2, <2>3, Zenon DEF Connections
  <1>4. ASSUME NEW pair, NEW D \in SUBSET inflight, NEW S, ApplyMarker(pair, D, S),
               \A p \in D : p.cid \in S,
               UNCHANGED <<wire, nextId, orphans>>
        PROVE  Core'
    <2>1. \A p \in (D \cup DispatchesFor(pair)) \cap inflight :
              p.cid \in DOMAIN queue => p.cid \in S \cup Held(pair)
      BY <1>4, Zenon DEF DispatchesFor, Held, QueueInv, Matches
    <2>2. QueueInv(RemoveMessages(queue, S \cup Held(pair)),
                   inflight \ (D \cup DispatchesFor(pair)), wire, nextId, orphans)
      BY <2>1, RemoveKeeps, Zenon
    <2> QED
      BY <1>4, <2>2, Zenon DEF ApplyMarker
  <1>5. CASE Responses
    <2>1. ASSUME NEW a \in acks, RecipientAck(a)
          PROVE  Core'
      <3>1. a.req \in inflight
        BY Zenon DEF AckInv
      <3>2. CASE PairOf(a.req) \notin seen
        <4>1. /\ ApplyMarker(PairOf(a.req), {a.req}, {a.req.cid})
              /\ UNCHANGED <<wire, nextId, orphans>>
          BY <2>1, <3>2, Zenon DEF RecipientAck, historyVars
        <4>2. {a.req} \in SUBSET inflight /\ \A p \in {a.req} : p.cid \in {a.req.cid}
          BY <3>1, Zenon
        <4> QED
          BY <1>4, <4>1, <4>2, Zenon
      <3>3. CASE PairOf(a.req) \in seen
        <4>1. QueueInv(RemoveMessages(queue, {a.req.cid}), inflight \ {a.req}, wire,
                       nextId, orphans)
          BY RemoveKeeps, Zenon
        <4> QED
          BY <2>1, <3>3, <4>1, Zenon DEF RecipientAck, historyVars
      <3> QED
        BY <3>2, <3>3, Zenon
    <2>2. ASSUME NEW a \in acks, RecipientRejected(a)
          PROVE  Core'
      BY <2>2, <1>2, Zenon DEF RecipientRejected, AckInv
    <2>3. ASSUME NEW p \in inflight, OutboundFailure(p)
          PROVE  Core'
      BY <2>3, <1>2, Zenon DEF OutboundFailure
    <2>4. ASSUME NEW pair \in Pairs, ConvergenceMarker(pair)
          PROVE  Core'
      BY <2>4, <1>4 DEF ConvergenceMarker, historyVars
    <2> QED
      BY <1>5, <2>1, <2>2, <2>3, <2>4, Zenon DEF Responses
  <1>6. CASE Environment
    BY <1>6, WireShrinks DEF Environment, RecipientReceives, RecipientRefuses,
       OtherRelayDelivers, ForgetRecent, ClockTick, memoryVars, historyVars
  <1>7. CASE Registrations
    <2>1. ASSUME NEW S, PurgeRecords(S)
          PROVE  /\ QueueInv(queue', inflight, wire, nextId, orphans)
                 /\ Restart => Core'
      <3>1. QueueInv(RemoveMessages(queue, S), inflight \ {}, wire, nextId, orphans)
        BY RemoveKeeps, Zenon
      <3>2. queue' = RemoveMessages(queue, S)
        BY <2>1, Zenon DEF PurgeRecords
      <3>3. ASSUME Restart PROVE Core'
        <4>1. QueueInv(queue, {}, wire', nextId,
                 orphans \cup {c \in DOMAIN queue : queue[c].state = "dispatching"})
          BY <3>3, RestartKeeps, Zenon DEF Restart
        <4>2. QueueInv(queue, {}, wire', nextId', orphans')
          BY <3>3, <4>1, Zenon DEF Restart
        <4>3. QueueInv(RemoveMessages(queue, S), {} \ {}, wire', nextId', orphans')
          BY <4>2, RemoveKeeps, Zenon
        <4> QED
          BY <3>2, <3>3, <4>3, Zenon DEF Restart
      <3> QED
        BY <3>1, <3>2, <3>3, Zenon
    <2>2. ASSUME NEW t \in Devices \cup {NoDevice}, NEW S, HandOverOrPurge(t, S)
          PROVE  /\ QueueInv(queue', inflight, wire, nextId, orphans)
                 /\ Restart => Core'
      <3>1. CASE t = NoDevice
        BY <2>1, <2>2, <3>1, Zenon DEF HandOverOrPurge
      <3>2. CASE t # NoDevice
        <4>1. queue' = MigrateIdentityDevice(queue, S, t)
          BY <2>2, <3>2, Zenon DEF HandOverOrPurge
        <4>2. ASSUME Restart PROVE Core'
          <5>1. QueueInv(queue, {}, wire', nextId,
                   orphans \cup {c \in DOMAIN queue : queue[c].state = "dispatching"})
            BY <4>2, RestartKeeps, Zenon DEF Restart
          <5>2. QueueInv(queue, {}, wire', nextId', orphans')
            BY <4>2, <5>1, Zenon DEF Restart
          <5> QED
            BY <4>1, <4>2, <5>2, MigrateKeeps, Zenon DEF Restart
        <4> QED
          BY <4>1, <4>2, MigrateKeeps, Zenon
      <3> QED
        BY <3>1, <3>2, Zenon
    <2>3. ASSUME NEW i \in Identities, NEW d \in Devices
          PROVE  /\ RegisterIdentity(i, d) => Core'
                 /\ CrashInRegister(i, d) => Core'
      BY <2>1, Zenon DEF RegisterIdentity, CrashInRegister, memoryVars
    <2>4. ASSUME NEW i \in Identities, NEW f \in Devices, NEW t \in Devices \cup {NoDevice}
          PROVE  /\ DeregisterIdentity(i, f, t) => Core'
                 /\ CrashInDeregister(i, f, t) => Core'
      BY <2>2, Zenon DEF DeregisterIdentity, CrashInDeregister, memoryVars
    <2>5. ASSUME NEW i \in Identities, ReadRegistration(i)
          PROVE  Core'
      BY <2>5, Zenon DEF ReadRegistration, memoryVars
    <2> QED
      BY <1>7, <2>3, <2>4, <2>5, Zenon DEF Registrations
  <1>8. CASE Crash
    BY <1>8, RestartKeeps, Zenon DEF Crash, Restart
  <1> QED
    BY <1>1, <1>3, <1>5, <1>6, <1>7, <1>8 DEF Next, RelayRequest

-----------------------------------------------------------------------------
(* Responses, and the remaining types. *)

(* A pull only adds dispatches, each for a record it has just marked.      *)
LEMMA PullAdds ==
    ASSUME NEW q, NEW D, DispatchPending(q, D)
    PROVE  inflight \subseteq inflight'
  BY Zenon DEF DispatchPending

(* A pull changes neither which records there are nor whom they are for. *)
LEMMA PullShape ==
    ASSUME NEW q, NEW D, QueueTyped(q), DispatchPending(q, D)
    PROVE  /\ DOMAIN queue' = DOMAIN q
           /\ \A c \in DOMAIN q : /\ PairOf(queue'[c]) = PairOf(q[c])
                                 /\ queue'[c].identity = q[c].identity
                                 /\ queue'[c].device = q[c].device
  <1>1. PICK R : queue' = MarkDispatching(q, R)
    BY Zenon DEF DispatchPending
  <1>2. DOMAIN queue' = DOMAIN q
    BY <1>1, Zenon DEF MarkDispatching
  <1>3. ASSUME NEW c \in DOMAIN q
        PROVE  /\ PairOf(queue'[c]) = PairOf(q[c])
               /\ queue'[c].identity = q[c].identity
               /\ queue'[c].device = q[c].device
    <2>1. q[c] \in CustodyMessage
      BY Zenon DEF QueueTyped
    <2>2. CASE c \in R
      <3>1. queue'[c] = [q[c] EXCEPT !.state = "dispatching", !.attempts = @ + 1]
        BY <1>1, <2>2, Zenon DEF MarkDispatching
      <3> QED
        BY <2>1, <3>1, DispatchUpdates, Zenon
    <2>3. CASE c \notin R
      BY <1>1, <2>3, Zenon DEF MarkDispatching
    <2> QED
      BY <2>2, <2>3, Zenon
  <1> QED
    BY <1>2, <1>3, Zenon

(* Responses on their way back always answer a dispatch still in flight.   *)
LEMMA AckStep ==
    ASSUME AckInv, Next
    PROVE  AckInv'
  <1> USE DEF AckInv, PairOf
  <1>1. CASE RelayRequest
    <2> SUFFICES inflight \subseteq inflight' /\ UNCHANGED <<acks, arrived>>
      BY Zenon
    <2>1. PICK s \in Senders, d \in Destinations, m \in Messages,
               h \in Identities \cup Keys \cup {NoIdentity}, dv \in Devices \cup {NoDevice} :
            \/ SuppressDuplicate(s, d, m, h, dv)
            \/ AcceptExisting(s, d, m, h, dv)
            \/ \E P \in PressurePurges : AcceptNew(s, d, m, h, dv, P)
            \/ \E P \in PressurePurges : RefuseForPressure(s, d, m, h, dv, P)
      BY <1>1 DEF RelayRequest
    <2>2. CASE SuppressDuplicate(s, d, m, h, dv)
      BY <2>2, Zenon DEF SuppressDuplicate, memoryVars
    <2>3. CASE AcceptExisting(s, d, m, h, dv)
      BY <2>3, PullAdds, Zenon DEF AcceptExisting
    <2>4. ASSUME NEW P, AcceptNew(s, d, m, h, dv, P)
          PROVE  inflight \subseteq inflight' /\ UNCHANGED <<acks, arrived>>
      BY <2>4, PullAdds, Zenon DEF AcceptNew
    <2>5. ASSUME NEW P, RefuseForPressure(s, d, m, h, dv, P)
          PROVE  inflight \subseteq inflight' /\ UNCHANGED <<acks, arrived>>
      BY <2>5, Zenon DEF RefuseForPressure, memoryVars
    <2> QED
      BY <2>1, <2>2, <2>3, <2>4, <2>5, Zenon
  <1>2. CASE Connections
    BY <1>2, PullAdds, Zenon DEF Connections, ConnectionEstablished, ConnectionClosed,
       CustodyPullTick, DispatchesFail, historyVars
  <1>3. CASE Responses
    <2>1. ASSUME NEW a \in acks, RecipientAck(a)
          PROVE  AckInv'
      <3>1. /\ arrived' = arrived
            /\ \E D : /\ inflight' = inflight \ D
                     /\ acks' = {b \in acks : b.req \notin D}
        BY <2>1, Zenon DEF RecipientAck, ApplyMarker, historyVars
      <3> QED
        BY <3>1, Zenon
    <2>2. ASSUME NEW a \in acks, RecipientRejected(a)
          PROVE  AckInv'
      BY <2>2, Zenon DEF RecipientRejected, DispatchesFail, historyVars
    <2>3. ASSUME NEW p \in inflight, OutboundFailure(p)
          PROVE  AckInv'
      BY <2>3, Zenon DEF OutboundFailure, DispatchesFail, historyVars
    <2>4. ASSUME NEW pair \in Pairs, ConvergenceMarker(pair)
          PROVE  AckInv'
      BY <2>4, Zenon DEF ConvergenceMarker, ApplyMarker, historyVars
    <2> QED
      BY <1>3, <2>1, <2>2, <2>3, <2>4, Zenon DEF Responses
  <1>4. CASE Environment
    <2>1. ASSUME NEW p \in wire, RecipientReceives(p) \/ RecipientRefuses(p)
          PROVE  AckInv'
      <3>1. CASE RecipientReceives(p)
        <4>1. /\ inflight' = inflight /\ arrived' = arrived \cup {PairOf(p)}
              /\ \A a \in acks' : a \in acks \/ (p \in inflight /\ a.req = p)
          BY <3>1 DEF RecipientReceives
        <4> QED
          BY <4>1, Zenon
      <3>2. CASE RecipientRefuses(p)
        <4>1. /\ inflight' = inflight /\ arrived' = arrived
              /\ \A a \in acks' : a \in acks \/ (p \in inflight /\ a.req = p /\ ~a.ok)
          BY <3>2 DEF RecipientRefuses, historyVars
        <4> QED
          BY <4>1, Zenon
      <3> QED
        BY <2>1, <3>1, <3>2, Zenon
    <2>2. ASSUME NEW pair \in Pairs, OtherRelayDelivers(pair)
          PROVE  AckInv'
      BY <2>2, Zenon DEF OtherRelayDelivers, memoryVars
    <2>3. ASSUME NEW k \in recent, ForgetRecent(k)
          PROVE  AckInv'
      BY <2>3, Zenon DEF ForgetRecent, historyVars
    <2>4. CASE ClockTick
      BY <2>4, Zenon DEF ClockTick, memoryVars, historyVars
    <2> QED
      BY <1>4, <2>1, <2>2, <2>3, <2>4, Zenon DEF Environment
  <1>5. CASE Registrations
    <2>1. Restart => AckInv'
      BY Zenon DEF Restart
    <2>2. ASSUME UNCHANGED <<memoryVars, arrived>>
          PROVE  AckInv'
      BY <2>2, Zenon DEF memoryVars
    <2>3. ASSUME NEW i \in Identities, NEW d \in Devices,
                 RegisterIdentity(i, d) \/ CrashInRegister(i, d)
          PROVE  AckInv'
      BY <2>1, <2>2, <2>3, Zenon DEF RegisterIdentity, CrashInRegister
    <2>4. ASSUME NEW i \in Identities, NEW f \in Devices, NEW t \in Devices \cup {NoDevice},
                 DeregisterIdentity(i, f, t) \/ CrashInDeregister(i, f, t)
          PROVE  AckInv'
      BY <2>1, <2>2, <2>4, Zenon DEF DeregisterIdentity, CrashInDeregister
    <2>5. ASSUME NEW i \in Identities, ReadRegistration(i)
          PROVE  AckInv'
      BY <2>2, <2>5, Zenon DEF ReadRegistration
    <2> QED
      BY <1>5, <2>3, <2>4, <2>5, Zenon DEF Registrations
  <1>6. CASE Crash
    BY <1>6, Zenon DEF Crash, Restart
  <1> QED
    BY <1>1, <1>2, <1>3, <1>4, <1>5, <1>6, Zenon DEF Next

(* Sending never invents an acceptance, and what was accepted is held, has *)
(* arrived or was purged on the record; the duplicate window only          *)
(* remembers accepted requests.                                            *)
LossInv ==
    /\ NoSilentLoss
    /\ \A k \in recent : <<k[2], k[3]>> \in promised

(* Every step preserves the loss invariant: no removal without an arrival  *)
(* or a purge on the record.                                               *)
LEMMA LossStep ==
    ASSUME RegistryInv, Core, AckInv, LossInv, Next
    PROVE  LossInv'
  <1> USE DEF LossInv, NoSilentLoss, Held
  <1>0. QueueTyped(queue)
    BY Zenon DEF Core, QueueInv
  <1>1. ASSUME NEW s \in Senders, NEW d \in Destinations, NEW m \in Messages,
               NEW h \in Identities \cup Keys \cup {NoIdentity},
               NEW dv \in Devices \cup {NoDevice}
        PROVE  /\ SuppressDuplicate(s, d, m, h, dv) => LossInv'
               /\ AcceptExisting(s, d, m, h, dv) => LossInv'
               /\ \A P : AcceptNew(s, d, m, h, dv, P) => LossInv'
               /\ \A P : RefuseForPressure(s, d, m, h, dv, P) => LossInv'
    <2>1. SuppressDuplicate(s, d, m, h, dv) => LossInv'
      BY Zenon DEF SuppressDuplicate, memoryVars
    <2>2. ASSUME AcceptExisting(s, d, m, h, dv)
          PROVE  LossInv'
      <3>1. /\ DOMAIN queue' = DOMAIN queue
            /\ \A c \in DOMAIN queue : PairOf(queue'[c]) = PairOf(queue[c])
        BY <1>0, <2>2, PullShape, Zenon DEF AcceptExisting
      <3>2. /\ promised' = promised \cup {<<d, m>>} /\ UNCHANGED <<arrived, purged>>
            /\ recent' = recent \cup {<<s, d, m>>} /\ Held(<<d, m>>) # {}
        BY <2>2, Zenon DEF AcceptExisting
      <3> QED
        BY <3>1, <3>2
    <2>3. ASSUME NEW P, AcceptNew(s, d, m, h, dv, P)
          PROVE  LossInv'
      <3> DEFINE q1 == PutAccepted(RemoveMessages(queue, P), nextId, d, m,
                                   NormalizeLookupIdentity(h), ResolvedDevice(h, dv))
      <3>1. /\ nextId \in DOMAIN q1 /\ PairOf(q1[nextId]) = <<d, m>>
            /\ \A c \in DOMAIN queue \ P : c \in DOMAIN q1 /\ q1[c] = queue[c]
        <4>1. nextId \notin DOMAIN queue
          BY DEF Core, QueueInv, Issued, QueueTyped
        <4> DEFINE q0 == RemoveMessages(queue, P)
        <4>2. DOMAIN q0 = DOMAIN queue \ P /\ \A c \in DOMAIN queue \ P : q0[c] = queue[c]
          BY Zenon DEF RemoveMessages
        <4>3. q1 = PutAccepted(q0, nextId, d, m, NormalizeLookupIdentity(h),
                               ResolvedDevice(h, dv))
          BY Zenon
        <4> HIDE DEF q0, q1
        <4>4. /\ DOMAIN q1 = DOMAIN q0 \cup {nextId}
              /\ \A c \in DOMAIN q0 : c # nextId => q1[c] = q0[c]
          BY <4>3, Zenon DEF PutAccepted
        <4>5. PairOf(q1[nextId]) = <<d, m>>
          BY <4>3, Zenon DEF PutAccepted, PairOf
        <4> QED
          BY <4>1, <4>2, <4>4, <4>5, Zenon
      <3>2. DispatchPending(q1, {d} \cap connected)
        BY <2>3, Zenon DEF AcceptNew
      <3>3. QueueTyped(q1)
        BY <2>3, AcceptQueue, Zenon DEF AcceptNew, QueueInv
      <3> HIDE DEF q1
      <3>4. /\ nextId \in DOMAIN queue' /\ PairOf(queue'[nextId]) = <<d, m>>
            /\ \A c \in DOMAIN queue \ P :
                  c \in DOMAIN queue' /\ PairOf(queue'[c]) = PairOf(queue[c])
        <4>1. /\ DOMAIN queue' = DOMAIN q1
              /\ \A c \in DOMAIN q1 : PairOf(queue'[c]) = PairOf(q1[c])
          BY <3>2, <3>3, PullShape, Zenon
        <4> QED
          BY <3>1, <4>1, Zenon
      <3> QED
        BY <2>3, <3>4 DEF AcceptNew
    <2>4. ASSUME NEW P, RefuseForPressure(s, d, m, h, dv, P)
          PROVE  LossInv'
      BY <2>4, Zenon DEF RefuseForPressure, RemoveMessages, memoryVars
    <2> QED
      BY <2>1, <2>2, <2>3, <2>4, Zenon
  <1>2. ASSUME NEW D, DispatchesFail(D)
        PROVE  LossInv'
    <2>1. DOMAIN queue' = DOMAIN queue /\ UNCHANGED <<promised, arrived, purged, recent>>
      BY <1>2, Zenon DEF DispatchesFail, MarkDispatchFailed, historyVars
    <2>2. \A c \in DOMAIN queue : PairOf(queue'[c]) = PairOf(queue[c])
      BY <1>0, <1>2, StateUpdates, Zenon DEF DispatchesFail, MarkDispatchFailed, QueueTyped
    <2> QED
      BY <2>1, <2>2, Zenon
  <1>3. CASE Connections
    <2>1. ASSUME NEW D, DispatchPending(queue, D),
                 UNCHANGED <<promised, arrived, purged, recent>>
          PROVE  LossInv'
      <3>1. /\ DOMAIN queue' = DOMAIN queue
            /\ \A c \in DOMAIN queue : PairOf(queue'[c]) = PairOf(queue[c])
        BY <1>0, <2>1, PullShape, Zenon
      <3> QED
        BY <2>1, <3>1, Zenon
    <2>2. ASSUME NEW d \in Destinations, ConnectionEstablished(d)
          PROVE  LossInv'
      BY <2>1, <2>2, Zenon DEF ConnectionEstablished, historyVars
    <2>3. ASSUME NEW d \in Destinations, ConnectionClosed(d)
          PROVE  LossInv'
      BY <1>2, <2>3, Zenon DEF ConnectionClosed
    <2>4. CASE CustodyPullTick
      BY <2>1, <2>4, Zenon DEF CustodyPullTick, historyVars
    <2> QED
      BY <1>3, <2>2, <2>3, <2>4, Zenon DEF Connections
  <1>4. ASSUME NEW pair, NEW D, NEW S, ApplyMarker(pair, D, S), pair \in arrived,
               \A c \in S \cap DOMAIN queue : PairOf(queue[c]) = pair,
               UNCHANGED <<promised, arrived, purged, recent>>
        PROVE  LossInv'
    BY <1>4, Zenon DEF ApplyMarker, RemoveMessages
  <1>5. CASE Responses
    <2>1. ASSUME NEW a \in acks, RecipientAck(a)
          PROVE  LossInv'
      <3>1. a.req \in inflight /\ PairOf(a.req) \in arrived
        BY <2>1, Zenon DEF RecipientAck, AckInv
      <3>2. a.req.cid \in DOMAIN queue => PairOf(queue[a.req.cid]) = PairOf(a.req)
        BY <3>1, Zenon DEF Core, QueueInv, Matches
      <3>3. CASE PairOf(a.req) \notin seen
        <4>1. /\ ApplyMarker(PairOf(a.req), {a.req}, {a.req.cid})
              /\ UNCHANGED <<promised, arrived, purged, recent>>
          BY <2>1, <3>3, Zenon DEF RecipientAck, historyVars
        <4>2. \A c \in {a.req.cid} \cap DOMAIN queue : PairOf(queue[c]) = PairOf(a.req)
          BY <3>2, Zenon
        <4> QED
          BY <1>4, <3>1, <4>1, <4>2, Zenon
      <3>4. CASE PairOf(a.req) \in seen
        <4>1. /\ queue' = RemoveMessages(queue, {a.req.cid})
              /\ UNCHANGED <<promised, arrived, purged, recent>>
          BY <2>1, <3>4, Zenon DEF RecipientAck, historyVars
        <4>2. \A c \in DOMAIN queue \ {a.req.cid} : c \in DOMAIN queue' /\ queue'[c] = queue[c]
          BY <4>1, Zenon DEF RemoveMessages
        <4> QED
          BY <3>1, <3>2, <4>1, <4>2, ZenonT(30)
      <3> QED
        BY <3>3, <3>4, Zenon
    <2>2. ASSUME NEW a \in acks, RecipientRejected(a)
          PROVE  LossInv'
      BY <1>2, <2>2, Zenon DEF RecipientRejected
    <2>3. ASSUME NEW p \in inflight, OutboundFailure(p)
          PROVE  LossInv'
      BY <1>2, <2>3, Zenon DEF OutboundFailure
    <2>4. ASSUME NEW pair \in Pairs, ConvergenceMarker(pair)
          PROVE  LossInv'
      BY <1>4, <2>4, Zenon DEF ConvergenceMarker, MarkerPublished, historyVars
    <2> QED
      BY <1>5, <2>1, <2>2, <2>3, <2>4, Zenon DEF Responses
  <1>6. CASE Environment
    BY <1>6, Zenon DEF Environment, RecipientReceives, RecipientRefuses, OtherRelayDelivers,
       ForgetRecent, ClockTick, memoryVars, historyVars
  <1>7. CASE Registrations
    <2>1. ASSUME NEW S, PurgeRecords(S), recent' = recent \/ recent' = {},
                 UNCHANGED <<promised, arrived>>
          PROVE  LossInv'
      BY <2>1, Zenon DEF PurgeRecords, RemoveMessages
    <2>2. ASSUME NEW t \in Devices \cup {NoDevice}, NEW S, HandOverOrPurge(t, S), recent' = recent
               \/ recent' = {},
                 UNCHANGED <<promised, arrived>>
          PROVE  LossInv'
      <3>1. CASE t = NoDevice
        BY <2>1, <2>2, <3>1, Zenon DEF HandOverOrPurge
      <3>2. CASE t # NoDevice
        <4>1. DOMAIN queue' = DOMAIN queue /\ UNCHANGED purged
          BY <2>2, <3>2, Zenon DEF HandOverOrPurge, MigrateIdentityDevice
        <4>2. \A c \in DOMAIN queue : PairOf(queue'[c]) = PairOf(queue[c])
          BY <1>0, <2>2, <3>2, DeviceUpdates
             DEF HandOverOrPurge, MigrateIdentityDevice, QueueTyped
        <4> QED
          BY <2>2, <4>1, <4>2, Zenon
      <3> QED
        BY <3>1, <3>2, Zenon
    <2>3. ASSUME NEW i \in Identities, NEW d \in Devices
          PROVE  /\ RegisterIdentity(i, d) => LossInv'
                 /\ CrashInRegister(i, d) => LossInv'
      BY <2>1, Zenon DEF RegisterIdentity, CrashInRegister, Restart, memoryVars
    <2>4. ASSUME NEW i \in Identities, NEW f \in Devices, NEW t \in Devices \cup {NoDevice}
          PROVE  /\ DeregisterIdentity(i, f, t) => LossInv'
                 /\ CrashInDeregister(i, f, t) => LossInv'
      BY <2>2, Zenon DEF DeregisterIdentity, CrashInDeregister, Restart, memoryVars
    <2>5. ASSUME NEW i \in Identities, ReadRegistration(i)
          PROVE  LossInv'
      BY <2>5, Zenon DEF ReadRegistration, memoryVars
    <2> QED
      BY <1>7, <2>3, <2>4, <2>5, Zenon DEF Registrations
  <1>8. CASE Crash
    BY <1>8, Zenon DEF Crash, Restart
  <1>9. CASE RelayRequest
    <2> HIDE DEF LossInv
    <2> QED
      BY <1>1, <1>9 DEF RelayRequest
  <1> QED
    BY <1>3, <1>5, <1>6, <1>7, <1>8, <1>9, Zenon DEF Next

-----------------------------------------------------------------------------
(* The device a record is held for, against the registry. *)

(* The registration r lets messages go to the device d.                    *)
Deliverable(r, d) ==
    \/ r.st = "active" /\ d = r.dev
    \/ r.st = "handover" /\ d = r.to

(* A record for a device is for the one that the registry names, except    *)
(* for the identities lp.                                                  *)
DeviceOK(q, rg, lp) ==
    \A c \in DOMAIN q :
        (q[c].identity \in Identities \ lp /\ q[c].device # NoDevice) =>
            Deliverable(rg[q[c].identity], q[c].device)

(* q2 has no record that q1 has not, for the same identity and device. *)
Within(q1, q2) ==
    \A c \in DOMAIN q2 : /\ c \in DOMAIN q1
                         /\ q2[c].identity = q1[c].identity
                         /\ q2[c].device = q1[c].device

(* Requests, connections and responses change records within the device    *)
(* the registry names, and leave the registry alone.                       *)
LEMMA TrafficWithin ==
    ASSUME Core, Connections \/ Responses \/ Environment \/ Crash
    PROVE  Within(queue, queue') /\ UNCHANGED <<reg, lapsed>>
  <1>0. QueueTyped(queue)
    BY Zenon DEF Core, QueueInv
  <1>1. ASSUME NEW D, DispatchPending(queue, D)
        PROVE  Within(queue, queue')
    BY <1>0, <1>1, PullShape, Zenon DEF Within
  <1>2. ASSUME NEW D, DispatchesFail(D)
        PROVE  Within(queue, queue') /\ UNCHANGED <<reg, lapsed>>
    <2>1. queue' = MarkDispatchFailed(queue, {p.cid : p \in D}) /\ UNCHANGED <<reg, lapsed>>
      BY <1>2, Zenon DEF DispatchesFail, historyVars
    <2> QED
      BY <1>0, <2>1, Zenon DEF MarkDispatchFailed, Within, QueueTyped, CustodyMessage
  <1>3. ASSUME NEW S, queue' = RemoveMessages(queue, S)
        PROVE  Within(queue, queue')
    BY <1>3, Zenon DEF RemoveMessages, Within
  <1>4. CASE Connections
    BY <1>1, <1>2, <1>4, Zenon DEF Connections, ConnectionEstablished, ConnectionClosed,
       CustodyPullTick, historyVars
  <1>5. CASE Responses
    <2>1. ASSUME NEW a \in acks, RecipientAck(a)
          PROVE  Within(queue, queue') /\ UNCHANGED <<reg, lapsed>>
      BY <1>3, <2>1, Zenon DEF RecipientAck, ApplyMarker, historyVars
    <2>2. ASSUME NEW a \in acks, RecipientRejected(a)
          PROVE  Within(queue, queue') /\ UNCHANGED <<reg, lapsed>>
      BY <1>2, <2>2, Zenon DEF RecipientRejected
    <2>3. ASSUME NEW p \in inflight, OutboundFailure(p)
          PROVE  Within(queue, queue') /\ UNCHANGED <<reg, lapsed>>
      BY <1>2, <2>3, Zenon DEF OutboundFailure
    <2>4. ASSUME NEW pair \in Pairs, ConvergenceMarker(pair)
          PROVE  Within(queue, queue') /\ UNCHANGED <<reg, lapsed>>
      BY <1>3, <2>4, Zenon DEF ConvergenceMarker, ApplyMarker, historyVars
    <2> QED
      BY <1>5, <2>1, <2>2, <2>3, <2>4, Zenon DEF Responses
  <1>6. CASE Environment
    BY <1>6, Zenon DEF Environment, RecipientReceives, RecipientRefuses, OtherRelayDelivers,
       ForgetRecent, ClockTick, Tick, memoryVars, historyVars, Within
  <1>7. CASE Crash
    BY <1>7, Zenon DEF Crash, Within
  <1> QED
    BY <1>4, <1>5, <1>6, <1>7, Zenon

(* Every step preserves the agreement of records and registry.             *)
LEMMA DeviceStep ==
    ASSUME RegistryInv, Core, DeviceOK(queue, reg, lapsed), Next
    PROVE  DeviceOK(queue, reg, lapsed)'
  <1>0. QueueTyped(queue)
    BY Zenon DEF Core, QueueInv
  <1>1. ASSUME Within(queue, queue'), UNCHANGED <<reg, lapsed>>
        PROVE  DeviceOK(queue, reg, lapsed)'
    BY <1>1, Zenon DEF Within, DeviceOK
  <1>2. CASE Connections \/ Responses \/ Environment \/ Crash
    BY <1>1, <1>2, TrafficWithin, Zenon
  <1>3. ASSUME NEW s \in Senders, NEW d \in Destinations, NEW m \in Messages,
               NEW h \in Identities \cup Keys \cup {NoIdentity},
               NEW dv \in Devices \cup {NoDevice}
        PROVE  /\ SuppressDuplicate(s, d, m, h, dv) => DeviceOK(queue, reg, lapsed)'
               /\ AcceptExisting(s, d, m, h, dv) => DeviceOK(queue, reg, lapsed)'
               /\ \A P : AcceptNew(s, d, m, h, dv, P) => DeviceOK(queue, reg, lapsed)'
               /\ \A P : RefuseForPressure(s, d, m, h, dv, P) => DeviceOK(queue, reg, lapsed)'
    <2>1. SuppressDuplicate(s, d, m, h, dv) => DeviceOK(queue, reg, lapsed)'
      BY <1>1, Zenon DEF SuppressDuplicate, Within
    <2>2. AcceptExisting(s, d, m, h, dv) => DeviceOK(queue, reg, lapsed)'
      BY <1>0, <1>1, PullShape, Zenon DEF AcceptExisting, Within
    <2>3. ASSUME NEW P, AcceptNew(s, d, m, h, dv, P)
          PROVE  DeviceOK(queue, reg, lapsed)'
      <3> DEFINE i == NormalizeLookupIdentity(h)
                 x == ResolvedDevice(h, dv)
                 q1 == PutAccepted(RemoveMessages(queue, P), nextId, d, m, i, x)
      <3>1. ASSUME i \in Identities, x # NoDevice
            PROVE  Deliverable(reg[i], x)
        <4>1. Complete(h, dv)
          BY <3>1, RegistryAssumption, Zenon DEF NormalizeLookupIdentity, ResolvedDevice, Complete
        <4>2. EnforceOk(i, dv) /\ x = EnforcedDevice(i, dv)
          BY <2>3, <4>1, Zenon DEF AcceptNew, WritableNew, Admitted, Resolvable, ResolvedDevice
        <4> HIDE DEF i, x
        <4>3. Lookup(i).st \in {"active", "handover"} => Lookup(i) = reg[i]
          BY <3>1, LookupWellFormed, Zenon DEF RegistryInv
        <4> QED
          BY <4>2, <4>3, Zenon DEF EnforceOk, EnforcedDevice, Deliverable
      <3>2. QueueTyped(q1) /\ DispatchPending(q1, {d} \cap connected)
            /\ UNCHANGED <<reg, lapsed>>
        BY <2>3, AcceptQueue, Zenon DEF AcceptNew, QueueInv
      <3>3. \A c \in DOMAIN q1 :
                \/ q1[c].identity = i /\ q1[c].device = x
                \/ c \in DOMAIN queue /\ q1[c] = queue[c]
        BY Zenon DEF PutAccepted, RemoveMessages
      <3> HIDE DEF i, x, q1
      <3>4. DeviceOK(q1, reg, lapsed)
        BY <3>1, <3>3, Zenon DEF DeviceOK
      <3> QED
        BY <3>2, <3>4, PullShape, Zenon DEF DeviceOK
    <2>4. ASSUME NEW P, RefuseForPressure(s, d, m, h, dv, P)
          PROVE  DeviceOK(queue, reg, lapsed)'
      BY <1>1, <2>4, Zenon DEF RefuseForPressure, RemoveMessages, Within
    <2> QED
      BY <2>1, <2>2, <2>3, <2>4, Zenon
  <1>4. ASSUME NEW i \in Identities, NEW r, reg' = [reg EXCEPT ![i] = r],
               lapsed \ {i} \subseteq lapsed',
               \A c \in DOMAIN queue' :
                   /\ c \in DOMAIN queue
                   /\ queue'[c].identity = queue[c].identity
                   /\ queue'[c].identity # i => queue'[c].device = queue[c].device,
               i \notin lapsed' =>
                   \A c \in DOMAIN queue' :
                       (queue'[c].identity = i /\ queue'[c].device # NoDevice)
                           => Deliverable(r, queue'[c].device)
        PROVE  DeviceOK(queue, reg, lapsed)'
    <2> SUFFICES ASSUME NEW c \in DOMAIN queue',
                        queue'[c].identity \in Identities \ lapsed',
                        queue'[c].device # NoDevice
                 PROVE  Deliverable(reg'[queue'[c].identity], queue'[c].device)
      BY Zenon DEF DeviceOK
    <2>1. reg' = [x \in Identities |-> IF x = i THEN r ELSE reg[x]]
      BY <1>4, Zenon DEF RegistryInv, RegistryTypeOK
    <2>2. CASE queue'[c].identity # i
      BY <1>4, <2>1, <2>2, Zenon DEF DeviceOK
    <2>3. CASE queue'[c].identity = i
      BY <1>4, <2>1, <2>3, Zenon DEF DeviceOK
    <2> QED
      BY <2>2, <2>3, Zenon
  <1>5. ASSUME NEW i \in Identities, i \notin lapsed, ~HandoverStale(i),
               NEW c \in DOMAIN queue, queue[c].identity = i, queue[c].device # NoDevice
        PROVE  Lookup(i) = reg[i] /\ Deliverable(reg[i], queue[c].device)
    BY <1>5, Zenon DEF DeviceOK, Lookup
  <1>6. ASSUME NEW i \in Identities, NEW d \in Devices, NEW S,
               Register(i, d), PurgeRecords(S), lapsed \ {i} \subseteq lapsed',
               i \notin lapsed' =>
                  i \notin lapsed /\ ~HandoverStale(i) /\ S = RegisterPurge(i, d)
        PROVE  DeviceOK(queue, reg, lapsed)'
    <2>1. \A c \in DOMAIN queue' : c \in DOMAIN queue \ S /\ queue'[c] = queue[c]
      BY <1>6, Zenon DEF PurgeRecords, RemoveMessages
    <2>2. ASSUME i \notin lapsed', NEW c \in DOMAIN queue', queue'[c].identity = i,
                 queue'[c].device # NoDevice
          PROVE  Deliverable(IF RegisterOk(i, d) THEN Active(d) ELSE Lookup(i),
                             queue'[c].device)
      <3>1. /\ Lookup(i) = reg[i] /\ Deliverable(reg[i], queue[c].device)
            /\ c \notin RegisterPurge(i, d) /\ queue[c].identity = i /\ c \in DOMAIN queue
        BY <1>5, <1>6, <2>1, <2>2, Zenon
      <3>2. CASE RegisterOk(i, d)
        <4>1. queue[c].device = d
          BY <3>1, <3>2, Zenon DEF RegisterOk, RegisterPurge, Deliverable, DeviceMessages,
             IdentityMessages
        <4> QED
          BY <2>1, <3>2, <4>1, Zenon DEF Deliverable, Active
      <3>3. CASE ~RegisterOk(i, d)
        BY <2>1, <3>1, <3>3, Zenon
      <3> QED
        BY <3>2, <3>3, Zenon
    <2> QED
      BY <1>4, <1>6, <2>1, <2>2, Zenon DEF Register
  <1>7. ASSUME NEW i \in Identities, NEW f \in Devices, NEW t \in Devices \cup {NoDevice},
               NEW S \in SUBSET DeregisterEffect(i, f, t),
               Deregister(i, f, t), HandOverOrPurge(t, S), lapsed \ {i} \subseteq lapsed',
               i \notin lapsed' =>
                  /\ S = DeregisterEffect(i, f, t)
                  /\ Abandons(i, f, t) \/ (i \notin lapsed /\ ~HandoverStale(i))
        PROVE  DeviceOK(queue, reg, lapsed)'
    <2>0. \A c \in S : c \in DOMAIN queue /\ queue[c].identity = i
      BY <1>7, Zenon DEF DeregisterEffect, DeviceMessages, IdentityMessages
    <2>1. \A c \in DOMAIN queue' :
              /\ c \in DOMAIN queue
              /\ queue'[c].identity = queue[c].identity
              /\ \/ t # NoDevice /\ c \in S /\ queue'[c].device = t
                 \/ c \notin S /\ queue'[c] = queue[c]
      <3>1. CASE t # NoDevice
        <4>1. queue' = MigrateIdentityDevice(queue, S, t)
          BY <1>7, <3>1, Zenon DEF HandOverOrPurge
        <4> QED
          BY <1>0, <3>1, <4>1, DeviceUpdates DEF MigrateIdentityDevice, QueueTyped
      <3>2. CASE t = NoDevice
        BY <1>7, <3>2, Zenon DEF HandOverOrPurge, PurgeRecords, RemoveMessages
      <3> QED
        BY <3>1, <3>2, Zenon
    <2>2. ASSUME i \notin lapsed', NEW c \in DOMAIN queue', queue'[c].identity = i,
                 queue'[c].device # NoDevice
          PROVE  Deliverable(IF DeregisterOk(i, f, t) THEN Deregistered(i, f, t)
                             ELSE Lookup(i), queue'[c].device)
      <3>1. ~Abandons(i, f, t)
        BY <1>7, <2>1, <2>2, Zenon DEF Abandons, DeregisterEffect, IdentityMessages
      <3>2. CASE c \in S
        <4>1. DeregisterOk(i, f, t) /\ Lookup(i).st = "active" /\ t # NoDevice
              /\ queue'[c].device = t
          BY <2>1, <2>2, <3>2, Zenon DEF DeregisterEffect
        <4> QED
          BY <4>1, Zenon DEF Deregistered, Handover, Deliverable
      <3>3. CASE c \notin S
        <4>1. /\ Lookup(i) = reg[i] /\ Deliverable(reg[i], queue[c].device)
              /\ c \notin DeregisterEffect(i, f, t) /\ queue[c].identity = i
              /\ c \in DOMAIN queue /\ queue'[c].device = queue[c].device
          <5>1. c \in DOMAIN queue /\ queue'[c] = queue[c]
            BY <2>1, <2>2, <3>3, Zenon
          <5>2. S = DeregisterEffect(i, f, t) /\ i \notin lapsed /\ ~HandoverStale(i)
            BY <1>7, <2>2, <3>1, Zenon
          <5> QED
            BY <1>5, <2>2, <3>3, <5>1, <5>2, Zenon
        <4>2. CASE DeregisterOk(i, f, t)
          <5>1. Lookup(i).st = "handover" /\ t = Lookup(i).to
            BY <3>1, <4>1, <4>2, Zenon DEF DeregisterOk, DeregisterEffect, DeviceMessages,
               IdentityMessages, Deliverable, Abandons
          <5> QED
            BY <4>1, <4>2, <5>1, Zenon DEF Deregistered, Handover, Deliverable
        <4>3. CASE ~DeregisterOk(i, f, t)
          BY <4>1, <4>3, Zenon
        <4> QED
          BY <4>2, <4>3, Zenon
      <3> QED
        BY <3>2, <3>3, Zenon
    <2> QED
      BY <1>4, <1>7, <2>0, <2>1, <2>2, Zenon DEF Deregister
  <1>8. CASE Registrations
    <2>1. ASSUME NEW i \in Identities, NEW d \in Devices
          PROVE  /\ RegisterIdentity(i, d) => DeviceOK(queue, reg, lapsed)'
                 /\ CrashInRegister(i, d) => DeviceOK(queue, reg, lapsed)'
      BY <1>6, Zenon DEF RegisterIdentity, CrashInRegister, LapsedByLookup
    <2>2. ASSUME NEW i \in Identities, NEW f \in Devices, NEW t \in Devices \cup {NoDevice}
          PROVE  /\ DeregisterIdentity(i, f, t) => DeviceOK(queue, reg, lapsed)'
                 /\ CrashInDeregister(i, f, t) => DeviceOK(queue, reg, lapsed)'
      BY <1>7, Zenon DEF DeregisterIdentity, CrashInDeregister, LapsedByLookup
    <2>3. ASSUME NEW i \in Identities, ReadRegistration(i)
          PROVE  DeviceOK(queue, reg, lapsed)'
      <3>1. /\ reg' = [reg EXCEPT ![i] = Lookup(i)] /\ queue' = queue
            /\ lapsed' = LapsedByLookup(i)
        BY <2>3, Zenon DEF ReadRegistration, GetState
      <3>2. i \notin lapsed' => i \notin lapsed /\ ~HandoverStale(i)
        BY <3>1, Zenon DEF LapsedByLookup
      <3>3. i \notin lapsed' =>
                \A c \in DOMAIN queue' :
                    (queue'[c].identity = i /\ queue'[c].device # NoDevice)
                        => Deliverable(Lookup(i), queue'[c].device)
        BY <1>5, <3>1, <3>2, Zenon
      <3>4. lapsed \ {i} \subseteq lapsed'
        BY <3>1, Zenon DEF LapsedByLookup
      <3> QED
        BY <1>4, <3>1, <3>3, <3>4, Zenon
    <2> QED
      BY <1>8, <2>1, <2>2, <2>3, Zenon DEF Registrations
  <1> QED
    BY <1>2, <1>3, <1>8 DEF Next, RelayRequest

-----------------------------------------------------------------------------
(* The remaining types. *)

(* The types of the remaining variables.                                   *)
RestTyped ==
    /\ faults \in Nat /\ crashes \in Nat
    /\ acks \subseteq [req : Dispatch, ok : BOOLEAN]
    /\ recent \subseteq Senders \X Destinations \X Messages
    /\ connected \subseteq Destinations
    /\ seen \subseteq Pairs /\ promised \subseteq Pairs /\ arrived \subseteq Pairs
    /\ purged \subseteq Pairs /\ orphans \subseteq Nat /\ lapsed \subseteq Identities

(* Every step preserves the types of the remaining variables.              *)
LEMMA RestStep ==
    ASSUME Core, RestTyped, Next
    PROVE  RestTyped'
  <1> USE DEF RestTyped
  <1>1. /\ \A c \in DOMAIN queue : PairOf(queue[c]) \in Pairs
        /\ \A p \in inflight \cup wire : p \in Dispatch /\ PairOf(p) \in Pairs
        /\ DOMAIN queue \subseteq Nat
    BY Zenon DEF Core, QueueInv, QueueTyped, CustodyMessage, Dispatch, PairOf, Pairs
  <1>2. CASE RelayRequest
    <2>1. PICK s \in Senders, d \in Destinations, m \in Messages,
               h \in Identities \cup Keys \cup {NoIdentity}, dv \in Devices \cup {NoDevice} :
            \/ SuppressDuplicate(s, d, m, h, dv)
            \/ AcceptExisting(s, d, m, h, dv)
            \/ \E P \in PressurePurges : AcceptNew(s, d, m, h, dv, P)
            \/ \E P \in PressurePurges : RefuseForPressure(s, d, m, h, dv, P)
      BY <1>2 DEF RelayRequest
    <2>2. <<d, m>> \in Pairs /\ <<s, d, m>> \in Senders \X Destinations \X Messages
      BY Zenon DEF Pairs
    <2>3. \A P \in PressurePurges : {PairOf(queue[c]) : c \in P} \subseteq Pairs
      BY <1>1, Zenon DEF PressurePurges, IdentityRelated, Oldest
    <2> QED
      BY <2>1, <2>2, <2>3, Zenon DEF SuppressDuplicate, AcceptExisting, AcceptNew,
         RefuseForPressure, memoryVars
  <1>3. ASSUME NEW D, DispatchesFail(D)
        PROVE  /\ acks' \subseteq acks
               /\ UNCHANGED <<recent, seen, crashes, promised, arrived, purged, orphans, lapsed>>
    BY <1>3, Zenon DEF DispatchesFail, historyVars
  <1>a. Fault => faults' \in Nat
    BY DEF Fault
  <1>4. CASE Connections
    <2>1. ASSUME NEW d \in Destinations, ConnectionEstablished(d)
          PROVE  RestTyped'
      BY <2>1, Zenon DEF ConnectionEstablished, historyVars
    <2>2. ASSUME NEW d \in Destinations, ConnectionClosed(d)
          PROVE  RestTyped'
      <3>1. connected' \subseteq Destinations
        BY <2>2, Zenon DEF ConnectionClosed
      <3> QED
        BY <1>3, <1>a, <2>2, <3>1, Zenon DEF ConnectionClosed
    <2>3. CASE CustodyPullTick
      BY <2>3, Zenon DEF CustodyPullTick, historyVars
    <2> QED
      BY <1>4, <2>1, <2>2, <2>3, Zenon DEF Connections
  <1>5. CASE Responses
    <2>1. ASSUME NEW a \in acks, RecipientAck(a)
          PROVE  RestTyped'
      <3>1. PairOf(a.req) \in Pairs
        BY Zenon DEF Dispatch, PairOf, Pairs
      <3> QED
        BY <2>1, <3>1, Zenon DEF RecipientAck, ApplyMarker, historyVars
    <2>2. ASSUME NEW a \in acks, RecipientRejected(a)
          PROVE  RestTyped'
      BY <1>3, <2>2, Zenon DEF RecipientRejected
    <2>3. ASSUME NEW p \in inflight, OutboundFailure(p)
          PROVE  RestTyped'
      BY <1>3, <1>a, <2>3, Zenon DEF OutboundFailure
    <2>4. ASSUME NEW pair \in Pairs, ConvergenceMarker(pair)
          PROVE  RestTyped'
      BY <2>4, Zenon DEF ConvergenceMarker, ApplyMarker, historyVars
    <2> QED
      BY <1>5, <2>1, <2>2, <2>3, <2>4, Zenon DEF Responses
  <1>6. CASE Environment
    <2>1. ASSUME NEW p \in wire, RecipientReceives(p)
          PROVE  RestTyped'
      <3>1. acks' \subseteq [req : Dispatch, ok : BOOLEAN]
        <4>1. [req |-> p, ok |-> TRUE] \in [req : Dispatch, ok : BOOLEAN]
          BY <1>1, Zenon
        <4> QED
          BY <2>1, <4>1, Zenon DEF RecipientReceives
      <3>2. arrived' \subseteq Pairs
        BY <1>1, <2>1, Zenon DEF RecipientReceives
      <3> QED
        BY <2>1, <3>1, <3>2, Zenon DEF RecipientReceives
    <2>2. ASSUME NEW p \in wire, RecipientRefuses(p)
          PROVE  RestTyped'
      <3>1. acks' \subseteq [req : Dispatch, ok : BOOLEAN]
        <4>1. [req |-> p, ok |-> FALSE] \in [req : Dispatch, ok : BOOLEAN]
          BY <1>1, Zenon
        <4> QED
          BY <2>2, <4>1, Zenon DEF RecipientRefuses
      <3> QED
        BY <1>a, <2>2, <3>1, Zenon DEF RecipientRefuses, historyVars
    <2>3. ASSUME NEW pair \in Pairs, OtherRelayDelivers(pair)
          PROVE  RestTyped'
      BY <2>3, Zenon DEF OtherRelayDelivers, memoryVars
    <2>4. ASSUME NEW k \in recent, ForgetRecent(k)
          PROVE  RestTyped'
      BY <2>4, Zenon DEF ForgetRecent, historyVars
    <2>5. CASE ClockTick
      BY <2>5, Zenon DEF ClockTick, memoryVars, historyVars
    <2> QED
      BY <1>6, <2>1, <2>2, <2>3, <2>4, <2>5, Zenon DEF Environment
  <1>7. ASSUME Restart
        PROVE  /\ UNCHANGED <<faults, promised, arrived>>
               /\ crashes' \in Nat /\ acks' = {} /\ recent' = {} /\ connected' = {}
               /\ seen' = {} /\ orphans' \subseteq Nat
    <2>1. crashes' \in Nat
      BY <1>7 DEF Restart
    <2>2. orphans' \subseteq Nat
      BY <1>1, <1>7, Zenon DEF Restart
    <2> QED
      BY <1>7, <2>1, <2>2, Zenon DEF Restart
  <1>8. CASE Registrations
    <2>1. ASSUME NEW S \in SUBSET DOMAIN queue, PurgeRecords(S)
          PROVE  purged' \subseteq Pairs
      BY <1>1, <2>1, Zenon DEF PurgeRecords
    <2>2. ASSUME NEW i \in Identities, NEW d \in Devices
          PROVE  /\ RegisterIdentity(i, d) => RestTyped'
                 /\ CrashInRegister(i, d) => RestTyped'
      <3>1. RegisterPurge(i, d) \subseteq DOMAIN queue
        BY Zenon DEF RegisterPurge, DeviceMessages, IdentityMessages
      <3> QED
        BY <1>7, <2>1, <3>1, Zenon DEF RegisterIdentity, CrashInRegister, LapsedByLookup,
           memoryVars
    <2>3. ASSUME NEW i \in Identities, NEW f \in Devices, NEW t \in Devices \cup {NoDevice}
          PROVE  /\ DeregisterIdentity(i, f, t) => RestTyped'
                 /\ CrashInDeregister(i, f, t) => RestTyped'
      <3>1. DeregisterEffect(i, f, t) \subseteq DOMAIN queue
        BY Zenon DEF DeregisterEffect, DeviceMessages, IdentityMessages
      <3>2. \A S \in SUBSET DOMAIN queue : HandOverOrPurge(t, S) => purged' \subseteq Pairs
        BY <2>1, Zenon DEF HandOverOrPurge
      <3> QED
        BY <1>7, <3>1, <3>2, Zenon DEF DeregisterIdentity, CrashInDeregister, LapsedByLookup,
           memoryVars
    <2>4. ASSUME NEW i \in Identities, ReadRegistration(i)
          PROVE  RestTyped'
      BY <2>4, Zenon DEF ReadRegistration, LapsedByLookup, memoryVars
    <2> QED
      BY <1>8, <2>2, <2>3, <2>4, Zenon DEF Registrations
  <1>9. CASE Crash
    BY <1>7, <1>9, Zenon DEF Crash
  <1> QED
    BY <1>2, <1>4, <1>5, <1>6, <1>8, <1>9, Zenon DEF Next

-----------------------------------------------------------------------------
(* The theorems. *)

(* The inductive invariant of the relay. *)
CustodyInv ==
    /\ RegistryInv
    /\ Core
    /\ AckInv
    /\ RestTyped
    /\ LossInv
    /\ DeviceOK(queue, reg, lapsed)

(* The inductive invariant holds initially.                                *)
LEMMA CustodyInitInv ==
    Init => CustodyInv
  <1> SUFFICES ASSUME Init PROVE CustodyInv
    BY Zenon
  <1>1. RegistryInv
    BY RegistryInitInv, Zenon DEF Init
  <1>2. Core
    BY Zenon DEF Init, Core, QueueInv, QueueTyped, Issued, Unique, Matches, Bounded
  <1>3. AckInv /\ RestTyped /\ LossInv /\ DeviceOK(queue, reg, lapsed)
    BY Zenon DEF Init, AckInv, RestTyped, LossInv, NoSilentLoss, DeviceOK
  <1> QED
    BY <1>1, <1>2, <1>3, Zenon DEF CustodyInv

(* The inductive invariant is preserved by every step of the relay.        *)
LEMMA CustodyNextInv ==
    CustodyInv /\ [Next]_vars => CustodyInv'
  <1> SUFFICES ASSUME CustodyInv, [Next]_vars PROVE CustodyInv'
    BY Zenon
  <1>1. CASE Next
    BY <1>1, RegistryStep, RegistryNextInv, CoreStep, AckStep, RestStep, LossStep,
       DeviceStep, Zenon DEF CustodyInv
  <1>2. CASE UNCHANGED vars
    <2>1. RegistryInv'
      BY <1>2, Zenon DEF CustodyInv, RegistryInv, RegistryTypeOK, RegistrationWellFormed, vars
    <2>2. Core' /\ AckInv' /\ RestTyped' /\ DeviceOK(queue, reg, lapsed)'
      BY <1>2, Zenon DEF CustodyInv, Core, AckInv, RestTyped, vars
    <2>3. LossInv'
      BY <1>2, Zenon DEF CustodyInv, LossInv, NoSilentLoss, Held, vars
    <2> QED
      BY <2>1, <2>2, <2>3, Zenon DEF CustodyInv
  <1> QED
    BY <1>1, <1>2, Zenon

(* The inductive invariant holds for ever.                                 *)
LEMMA SpecCustodyInv ==
    Spec => []CustodyInv
  BY CustodyInitInv, CustodyNextInv, PTL DEF Spec

(* Every variable of the relay keeps its type. *)
THEOREM CustodyTypesKept ==
    Spec => []TypeOK
  <1>1. CustodyInv => TypeOK
    BY Zenon DEF CustodyInv, RegistryInv, Core, QueueInv, QueueTyped, Issued, RestTyped, TypeOK
  <1> QED
    BY <1>1, SpecCustodyInv, PTL

(* A message is in custody at most once per destination. *)
THEOREM CustodyUnique ==
    Spec => []UniqueCustody
  <1>1. CustodyInv => UniqueCustody
    BY Zenon DEF CustodyInv, Core, QueueInv, Unique, UniqueCustody
  <1> QED
    BY <1>1, SpecCustodyInv, PTL

(* The queue and the table of outbound requests agree, through failures,   *)
(* late responses, purges and crashes.                                     *)
THEOREM DispatchesMatch ==
    Spec => []InflightMatchesQueue
  <1>1. CustodyInv => InflightMatchesQueue
    BY Zenon DEF CustodyInv, Core, QueueInv, Matches, InflightMatchesQueue
  <1> QED
    BY <1>1, SpecCustodyInv, PTL

(* No record is sent more often than MAX_DELIVERY_ATTEMPTS. *)
THEOREM AttemptsStayBounded ==
    Spec => []AttemptsBounded
  <1>1. CustodyInv => AttemptsBounded
    BY Zenon DEF CustodyInv, Core, QueueInv, Bounded, AttemptsBounded
  <1> QED
    BY <1>1, SpecCustodyInv, PTL

(* What a sender was promised is held, has arrived, or was purged on the   *)
(* record: no interleaving of requests, dispatches, markers, registrations *)
(* and crashes loses a message silently.                                   *)
THEOREM NothingLostSilently ==
    Spec => []NoSilentLoss
  <1>1. CustodyInv => NoSilentLoss
    BY Zenon DEF CustodyInv, LossInv
  <1> QED
    BY <1>1, SpecCustodyInv, PTL

(* Records name the device the registry would deliver to, except for       *)
(* identities whose queue a collapse or a crash left behind.               *)
THEOREM DevicesMatch ==
    Spec => []DeviceMatchesRegistry
  <1>1. CustodyInv => DeviceMatchesRegistry
    BY Zenon DEF CustodyInv, DeviceOK, Deliverable, DeviceMatchesRegistry
  <1> QED
    BY <1>1, SpecCustodyInv, PTL

(* The step at which a delivery is first learned of leaves no record and   *)
(* no dispatch of the message (apply_delivery_convergence_marker).         *)
LEMMA ConvergenceStep ==
    ASSUME Next, NEW pair \in seen' \ seen
    PROVE  Held(pair)' = {} /\ DispatchesFor(pair)' = {}
  <1>1. CASE RelayRequest
    <2>1. ASSUME NEW s, NEW d, NEW m, NEW h, NEW dv,
                 \/ SuppressDuplicate(s, d, m, h, dv)
                 \/ AcceptExisting(s, d, m, h, dv)
          PROVE  UNCHANGED seen
      BY <2>1, Zenon DEF SuppressDuplicate, AcceptExisting, memoryVars
    <2>2. ASSUME NEW s, NEW d, NEW m, NEW h, NEW dv, NEW P,
                 \/ AcceptNew(s, d, m, h, dv, P)
                 \/ RefuseForPressure(s, d, m, h, dv, P)
          PROVE  UNCHANGED seen
      BY <2>2, Zenon DEF AcceptNew, RefuseForPressure, memoryVars
    <2> QED
      BY <1>1, <2>1, <2>2 DEF RelayRequest
  <1>2. CASE Connections
    BY <1>2, Zenon DEF Connections, ConnectionEstablished, ConnectionClosed, CustodyPullTick,
       DispatchesFail
  <1>3. ASSUME NEW x, NEW D, NEW S, ApplyMarker(x, D, S)
        PROVE  Held(pair)' = {} /\ DispatchesFor(pair)' = {}
    <2>1. pair = x
      BY <1>3, Zenon DEF ApplyMarker
    <2> QED
      BY <1>3, <2>1, Zenon DEF ApplyMarker, Held, DispatchesFor, RemoveMessages
  <1>4. CASE Responses
    BY <1>3, <1>4, Zenon DEF Responses, RecipientAck, RecipientRejected, OutboundFailure,
       ConvergenceMarker, DispatchesFail
  <1>5. CASE Environment
    BY <1>5, Zenon DEF Environment, RecipientReceives, RecipientRefuses, OtherRelayDelivers,
       ForgetRecent, ClockTick, memoryVars
  <1>6. CASE Registrations \/ Crash
    BY <1>6, Zenon DEF Registrations, RegisterIdentity, CrashInRegister, DeregisterIdentity,
       CrashInDeregister, ReadRegistration, Crash, Restart, memoryVars
  <1> QED
    BY <1>1, <1>2, <1>4, <1>5, <1>6, Zenon DEF Next

(* When a delivery is first learned of, by acknowledgement or by marker,   *)
(* no record and no dispatch of the message stays behind                   *)
(* (apply_delivery_convergence_marker).                                    *)
THEOREM ConvergesCompletely ==
    Spec => ConvergenceComplete
  <1>1. [Next]_vars =>
            [\A pair \in seen' \ seen : Held(pair)' = {} /\ DispatchesFor(pair)' = {}]_vars
    BY ConvergenceStep, Zenon
  <1> QED
    BY <1>1, PTL DEF Spec, ConvergenceComplete

-----------------------------------------------------------------------------
(* The refinement of the custody service. *)

(* Whatever is in custody or under way was accepted. *)
SentPromised(q, wr, pr) ==
    /\ \A c \in DOMAIN q : PairOf(q[c]) \in pr
    /\ \A p \in wr : PairOf(p) \in pr

(* What a step may do to the status of each message. *)
LEMMA StatusValue ==
    ASSUME NEW x \in Pairs
    PROVE  /\ CustodyStatus[x] = IF x \in arrived THEN "delivered"
                                ELSE IF Held(x) # {} THEN "held"
                                ELSE IF x \in purged THEN "dropped" ELSE "unknown"
           /\ CustodyStatus'[x] = IF x \in arrived' THEN "delivered"
                                 ELSE IF Held(x)' # {} THEN "held"
                                 ELSE IF x \in purged' THEN "dropped" ELSE "unknown"
  BY Zenon DEF CustodyStatus

(* A step that changes neither what is held of a message nor its history   *)
(* keeps the message's status in the service.                              *)
LEMMA StatusKept ==
    ASSUME UNCHANGED <<arrived, purged>>,
           \A x \in Pairs : x \notin arrived => (Held(x)' = {} <=> Held(x) = {})
    PROVE  UNCHANGED CustodyStatus
  <1>1. \A x \in Pairs : CustodyStatus'[x] = CustodyStatus[x]
    BY StatusValue, Zenon
  <1>2. /\ CustodyStatus = [x \in Pairs |-> CustodyStatus[x]]
        /\ CustodyStatus' = [x \in Pairs |-> CustodyStatus'[x]]
    BY Zenon DEF CustodyStatus
  <1> QED
    BY <1>1, <1>2, Zenon

(* Removing the records S and recording their purge drops what they held. *)
LEMMA StatusDropped ==
    ASSUME Core, NEW S \in SUBSET DOMAIN queue, UNCHANGED arrived,
           purged' = purged \cup {PairOf(queue[c]) : c \in S},
           \A x \in Pairs :
               Held(x)' = {} <=> {c \in DOMAIN queue \ S : PairOf(queue[c]) = x} = {}
    PROVE  \E D \in SUBSET Pairs : Service!Drop(D)
  <1> DEFINE D == {x \in Pairs : x \notin arrived /\ \E c \in S : PairOf(queue[c]) = x}
  <1>1. D \subseteq Service!HeldPairs
    BY StatusValue, Zenon DEF Service!HeldPairs, Held, Service!Pairs, Pairs
  <1>2. \A x \in Pairs : (\E c \in S : PairOf(queue[c]) = x) => Held(x)' = {}
    BY DEF Core, QueueInv, Unique
  <1>3. \A x \in Pairs : ~(\E c \in S : PairOf(queue[c]) = x) =>
                            (Held(x)' = {} <=> Held(x) = {})
    BY Zenon DEF Held
  <1>4. \A x \in Pairs :
            CustodyStatus'[x] = IF x \in D THEN "dropped" ELSE CustodyStatus[x]
    <2> TAKE x \in Pairs
    <2>1. CASE x \in arrived
      BY <2>1, StatusValue, Zenon
    <2>2. CASE x \notin arrived /\ \E c \in S : PairOf(queue[c]) = x
      BY <1>2, <2>2, StatusValue, Zenon
    <2>3. CASE x \notin arrived /\ ~\E c \in S : PairOf(queue[c]) = x
      BY <1>3, <2>3, StatusValue, Zenon
    <2> QED
      BY <2>1, <2>2, <2>3, Zenon
  <1>5. CustodyStatus' = [x \in Pairs |-> CustodyStatus'[x]]
    BY Zenon DEF CustodyStatus
  <1>6. Service!Drop(D)
    <2> HIDE DEF D
    <2> QED
      BY <1>1, <1>4, <1>5, Zenon DEF Service!Drop, Service!With, Service!Pairs, Pairs
  <1> QED
    BY <1>6, Zenon

(* What a pull sends was promised to a sender before.                      *)
LEMMA PullSends ==
    ASSUME NEW q, NEW D, NEW pr, QueueTyped(q), SentPromised(q, wire, pr),
           DispatchPending(q, D)
    PROVE  SentPromised(queue', wire', pr)
  <1>1. PICK R \in SUBSET UNION {Batch(q, d) : d \in D} :
            wire' = wire \cup DispatchesOf(q, R)
    BY Zenon DEF DispatchPending
  <1>2. R \subseteq DOMAIN q
    BY PulledArePending, Zenon
  <1>3. ASSUME NEW p \in DispatchesOf(q, R)
        PROVE  \E c \in R : PairOf(p) = PairOf(q[c])
    <2>1. PICK c \in R : p = [cid |-> c, attempt |-> q[c].attempts + 1,
                              dest |-> q[c].dest, mid |-> q[c].mid]
      BY <1>3, Zenon DEF DispatchesOf
    <2>2. p.dest = q[c].dest /\ p.mid = q[c].mid
      BY <2>1, Zenon
    <2> QED
      BY <2>2, Zenon DEF PairOf
  <1>4. \A p \in wire' : PairOf(p) \in pr
    BY <1>1, <1>2, <1>3, Zenon DEF SentPromised
  <1> QED
    BY <1>4, PullShape, Zenon DEF SentPromised

(* Everything sent or in flight was promised to some sender.               *)
LEMMA SentStep ==
    ASSUME RegistryInv, Core, SentPromised(queue, wire, promised), Next
    PROVE  SentPromised(queue, wire, promised)'
  <1>0. QueueTyped(queue)
    BY Zenon DEF Core, QueueInv
  <1>1. ASSUME \A c \in DOMAIN queue' : c \in DOMAIN queue /\ PairOf(queue'[c]) = PairOf(queue[c]),
               wire' \subseteq wire, promised \subseteq promised'
        PROVE  SentPromised(queue, wire, promised)'
    BY <1>1, Zenon DEF SentPromised
  <1>2. ASSUME NEW s \in Senders, NEW d \in Destinations, NEW m \in Messages,
               NEW h \in Identities \cup Keys \cup {NoIdentity},
               NEW dv \in Devices \cup {NoDevice}
        PROVE  /\ SuppressDuplicate(s, d, m, h, dv) => SentPromised(queue, wire, promised)'
               /\ AcceptExisting(s, d, m, h, dv) => SentPromised(queue, wire, promised)'
               /\ \A P : AcceptNew(s, d, m, h, dv, P) => SentPromised(queue, wire, promised)'
               /\ \A P : RefuseForPressure(s, d, m, h, dv, P)
                             => SentPromised(queue, wire, promised)'
    <2>1. SuppressDuplicate(s, d, m, h, dv) => SentPromised(queue, wire, promised)'
      BY <1>1, Zenon DEF SuppressDuplicate
    <2>2. ASSUME AcceptExisting(s, d, m, h, dv)
          PROVE  SentPromised(queue, wire, promised)'
      <3>1. SentPromised(queue', wire', promised)
        BY <1>0, <2>2, PullSends, Zenon DEF AcceptExisting
      <3> QED
        BY <2>2, <3>1, Zenon DEF AcceptExisting, SentPromised
    <2>3. ASSUME NEW P, AcceptNew(s, d, m, h, dv, P)
          PROVE  SentPromised(queue, wire, promised)'
      <3> DEFINE q1 == PutAccepted(RemoveMessages(queue, P), nextId, d, m,
                                   NormalizeLookupIdentity(h), ResolvedDevice(h, dv))
      <3>1. \A c \in DOMAIN q1 :
                \/ PairOf(q1[c]) = <<d, m>>
                \/ c \in DOMAIN queue /\ q1[c] = queue[c]
        BY Zenon DEF PutAccepted, RemoveMessages, PairOf
      <3>2. QueueTyped(q1) /\ DispatchPending(q1, {d} \cap connected)
            /\ promised' = promised \cup {<<d, m>>}
        BY <2>3, AcceptQueue, Zenon DEF AcceptNew, QueueInv
      <3> HIDE DEF q1
      <3>3. SentPromised(q1, wire, promised')
        BY <3>1, <3>2, Zenon DEF SentPromised
      <3>4. SentPromised(queue', wire', promised')
        BY <3>2, <3>3, PullSends, Zenon
      <3> QED
        BY <3>4, Zenon
    <2>4. ASSUME NEW P, RefuseForPressure(s, d, m, h, dv, P)
          PROVE  SentPromised(queue, wire, promised)'
      BY <1>1, <2>4, Zenon DEF RefuseForPressure, RemoveMessages
    <2> QED
      BY <2>1, <2>2, <2>3, <2>4, Zenon
  <1>3. ASSUME NEW D, DispatchPending(queue, D), UNCHANGED promised
        PROVE  SentPromised(queue, wire, promised)'
    <2>1. SentPromised(queue', wire', promised)
      BY <1>0, <1>3, PullSends, Zenon
    <2> QED
      BY <1>3, <2>1, Zenon
  <1>4. ASSUME NEW D, DispatchesFail(D), wire' \subseteq wire
        PROVE  SentPromised(queue, wire, promised)'
    <2>1. \A c \in DOMAIN queue' : c \in DOMAIN queue /\ PairOf(queue'[c]) = PairOf(queue[c])
      BY <1>0, <1>4, StateUpdates, Zenon DEF DispatchesFail, MarkDispatchFailed, QueueTyped
    <2> QED
      BY <1>1, <1>4, <2>1, Zenon DEF DispatchesFail, historyVars
  <1>5. ASSUME NEW S, queue' = RemoveMessages(queue, S), wire' \subseteq wire, UNCHANGED promised
        PROVE  SentPromised(queue, wire, promised)'
    BY <1>1, <1>5, Zenon DEF RemoveMessages
  <1>6. CASE Connections
    <2>1. ASSUME NEW d \in Destinations, ConnectionEstablished(d)
          PROVE  SentPromised(queue, wire, promised)'
      BY <1>3, <2>1, Zenon DEF ConnectionEstablished, historyVars
    <2>2. ASSUME NEW d \in Destinations, ConnectionClosed(d)
          PROVE  SentPromised(queue, wire, promised)'
      BY <1>4, <2>2, Zenon DEF ConnectionClosed
    <2>3. CASE CustodyPullTick
      BY <1>3, <2>3, Zenon DEF CustodyPullTick, historyVars
    <2> QED
      BY <1>6, <2>1, <2>2, <2>3, Zenon DEF Connections
  <1>7. CASE Responses
    <2>1. ASSUME NEW a \in acks, RecipientAck(a)
          PROVE  SentPromised(queue, wire, promised)'
      BY <1>5, <2>1, Zenon DEF RecipientAck, ApplyMarker, historyVars
    <2>2. ASSUME NEW a \in acks, RecipientRejected(a)
          PROVE  SentPromised(queue, wire, promised)'
      BY <1>4, <2>2, Zenon DEF RecipientRejected
    <2>3. ASSUME NEW p \in inflight, OutboundFailure(p)
          PROVE  SentPromised(queue, wire, promised)'
      BY <1>4, <2>3, Zenon DEF OutboundFailure
    <2>4. ASSUME NEW pair \in Pairs, ConvergenceMarker(pair)
          PROVE  SentPromised(queue, wire, promised)'
      BY <1>5, <2>4, Zenon DEF ConvergenceMarker, ApplyMarker, historyVars
    <2> QED
      BY <1>7, <2>1, <2>2, <2>3, <2>4, Zenon DEF Responses
  <1>8. CASE Environment
    BY <1>1, <1>8, Zenon DEF Environment, RecipientReceives, RecipientRefuses, OtherRelayDelivers,
       ForgetRecent, ClockTick, historyVars
  <1>9. CASE Registrations
    <2>0. Restart => wire' \subseteq wire /\ UNCHANGED promised
      BY Zenon DEF Restart
    <2>1. ASSUME NEW i \in Identities, NEW d \in Devices
          PROVE  /\ RegisterIdentity(i, d) => SentPromised(queue, wire, promised)'
                 /\ CrashInRegister(i, d) => SentPromised(queue, wire, promised)'
      BY <1>5, <2>0, Zenon DEF RegisterIdentity, CrashInRegister, PurgeRecords
    <2>2. ASSUME NEW t \in Devices \cup {NoDevice}, NEW S, HandOverOrPurge(t, S),
                 wire' \subseteq wire, UNCHANGED promised
          PROVE  SentPromised(queue, wire, promised)'
      <3>1. CASE t = NoDevice
        BY <1>5, <2>2, <3>1, Zenon DEF HandOverOrPurge, PurgeRecords
      <3>2. CASE t # NoDevice
        <4>1. \A c \in DOMAIN queue' :
                  c \in DOMAIN queue /\ PairOf(queue'[c]) = PairOf(queue[c])
          BY <1>0, <2>2, <3>2, DeviceUpdates
             DEF HandOverOrPurge, MigrateIdentityDevice, QueueTyped
        <4> QED
          BY <1>1, <2>2, <4>1, Zenon
      <3> QED
        BY <3>1, <3>2, Zenon
    <2>3. ASSUME NEW i \in Identities, NEW f \in Devices, NEW t \in Devices \cup {NoDevice}
          PROVE  /\ DeregisterIdentity(i, f, t) => SentPromised(queue, wire, promised)'
                 /\ CrashInDeregister(i, f, t) => SentPromised(queue, wire, promised)'
      BY <2>0, <2>2, Zenon DEF DeregisterIdentity, CrashInDeregister
    <2>4. ASSUME NEW i \in Identities, ReadRegistration(i)
          PROVE  SentPromised(queue, wire, promised)'
      BY <1>1, <2>4, Zenon DEF ReadRegistration
    <2> QED
      BY <1>9, <2>1, <2>3, <2>4, Zenon DEF Registrations
  <1>10. CASE Crash
    BY <1>1, <1>10, Zenon DEF Crash, Restart
  <1>11. CASE RelayRequest
    <2>1. PICK s \in Senders, d \in Destinations, m \in Messages,
               h \in Identities \cup Keys \cup {NoIdentity}, dv \in Devices \cup {NoDevice} :
            \/ SuppressDuplicate(s, d, m, h, dv)
            \/ AcceptExisting(s, d, m, h, dv)
            \/ \E P \in PressurePurges : AcceptNew(s, d, m, h, dv, P)
            \/ \E P \in PressurePurges : RefuseForPressure(s, d, m, h, dv, P)
      BY <1>11 DEF RelayRequest
    <2> QED
      BY <1>2, <2>1, Zenon
  <1> QED
    BY <1>6, <1>7, <1>8, <1>9, <1>10, <1>11, Zenon DEF Next

(* The arrival of an accepted message is a delivery, or changes nothing.   *)
LEMMA StatusDelivered ==
    ASSUME NoSilentLoss, NEW pair \in Pairs, pair \in promised,
           arrived' = arrived \cup {pair}, UNCHANGED <<queue, purged>>
    PROVE  Service!Deliver(pair) \/ UNCHANGED CustodyStatus
  <1>0. \A x \in Pairs : Held(x)' = Held(x)
    BY Zenon DEF Held
  <1>1. CASE pair \in arrived
    <2>1. arrived' = arrived
      BY <1>1, Zenon
    <2> QED
      BY <1>0, <2>1, StatusKept, Zenon
  <1>2. CASE pair \notin arrived
    <2>1. CustodyStatus[pair] \in {"held", "dropped"}
      BY <1>2, StatusValue, Zenon DEF NoSilentLoss
    <2>2. \A x \in Pairs :
              CustodyStatus'[x] = IF x \in {pair} THEN "delivered" ELSE CustodyStatus[x]
      BY <1>0, StatusValue, Zenon
    <2>3. CustodyStatus' = [x \in Pairs |-> CustodyStatus'[x]]
      BY Zenon DEF CustodyStatus
    <2> QED
      BY <2>1, <2>2, <2>3, Zenon DEF Service!Deliver, Service!With, Service!Pairs, Pairs
  <1> QED
    BY <1>1, <1>2, Zenon

(* Accepting a new message, with the purge that makes room for it. *)
LEMMA StatusTaken ==
    ASSUME Core, NEW pair \in Pairs, Held(pair) = {}, Held(pair)' # {},
           NEW S \in SUBSET DOMAIN queue, UNCHANGED arrived,
           purged' = purged \cup {PairOf(queue[c]) : c \in S},
           \A x \in Pairs \ {pair} :
               Held(x)' = {} <=> {c \in DOMAIN queue \ S : PairOf(queue[c]) = x} = {}
    PROVE  Service!Next
  <1> DEFINE D == {x \in Pairs : x \notin arrived /\ \E c \in S : PairOf(queue[c]) = x}
  <1>1. D \subseteq Service!HeldPairs
    BY StatusValue, Zenon DEF Service!HeldPairs, Held, Service!Pairs, Pairs
  <1>2. \A x \in Pairs \ {pair} : (\E c \in S : PairOf(queue[c]) = x) => Held(x)' = {}
    BY DEF Core, QueueInv, Unique
  <1>3. \A x \in Pairs \ {pair} : ~(\E c \in S : PairOf(queue[c]) = x) =>
                            (Held(x)' = {} <=> Held(x) = {})
    BY Zenon DEF Held
  <1>4. \A x \in Pairs \ {pair} :
            CustodyStatus'[x] = IF x \in D THEN "dropped" ELSE CustodyStatus[x]
    <2> TAKE x \in Pairs \ {pair}
    <2>1. CASE x \in arrived
      BY <2>1, StatusValue, Zenon
    <2>2. CASE x \notin arrived /\ \E c \in S : PairOf(queue[c]) = x
      BY <1>2, <2>2, StatusValue
    <2>3. CASE x \notin arrived /\ ~\E c \in S : PairOf(queue[c]) = x
      BY <1>3, <2>3, StatusValue
    <2> QED
      BY <2>1, <2>2, <2>3, Zenon
  <1>5. pair \notin D
    BY Zenon DEF Held
  <1>6. CustodyStatus' = [x \in Pairs |-> CustodyStatus'[x]]
    BY Zenon DEF CustodyStatus
  <1>7. D \in SUBSET Pairs
    BY Zenon
  <1> HIDE DEF D
  <1>8. CASE pair \in arrived
    <2>1. CustodyStatus'[pair] = CustodyStatus[pair]
      BY <1>8, StatusValue, Zenon
    <2>2. Service!Drop(D)
      BY <1>1, <1>4, <1>5, <1>6, <2>1 DEF Service!Drop, Service!With, Service!Pairs, Pairs
    <2> QED
      BY <1>7, <2>2, Zenon DEF Service!Next, Service!Pairs, Pairs
  <1>9. CASE pair \notin arrived
    <2>1. /\ CustodyStatus'[pair] = "held"
          /\ CustodyStatus[pair] \in {"unknown", "dropped"}
      BY <1>9, StatusValue, Zenon
    <2>2. Service!TakeCustody(pair, D)
      BY <1>1, <1>4, <1>6, <2>1, Zenon DEF Service!TakeCustody, Service!With, Service!Pairs, Pairs
    <2> QED
      BY <1>7, <2>2, Zenon DEF Service!Next, Service!Pairs, Pairs
  <1> QED
    BY <1>8, <1>9, Zenon

(* Every step of the relay is a step of the custody service or a stutter.  *)
LEMMA ServiceStep ==
    ASSUME CustodyInv, SentPromised(queue, wire, promised), Next
    PROVE  Service!Next \/ UNCHANGED CustodyStatus
  <1>0. QueueTyped(queue) /\ Core /\ RegistryInv
    BY Zenon DEF CustodyInv, Core, QueueInv
  <1>1. \A x \in Pairs : Held(x) = {c \in DOMAIN queue : PairOf(queue[c]) = x}
                       /\ Held(x)' = {c \in DOMAIN queue' : PairOf(queue'[c]) = x}
    BY Zenon DEF Held
  <1>2. ASSUME DOMAIN queue' = DOMAIN queue, UNCHANGED <<arrived, purged>>,
               \A c \in DOMAIN queue : PairOf(queue'[c]) = PairOf(queue[c])
        PROVE  UNCHANGED CustodyStatus
    <2>1. \A x \in Pairs : Held(x)' = {} <=> Held(x) = {}
      BY <1>1, <1>2, Zenon
    <2> QED
      BY <1>2, <2>1, StatusKept, Zenon
  <1>3. ASSUME NEW S \in SUBSET DOMAIN queue, queue' = RemoveMessages(queue, S),
               UNCHANGED arrived, purged' = purged \cup {PairOf(queue[c]) : c \in S}
        PROVE  Service!Next
    <2>1. \A x \in Pairs :
              Held(x)' = {} <=> {c \in DOMAIN queue \ S : PairOf(queue[c]) = x} = {}
      BY <1>1, <1>3, Zenon DEF RemoveMessages
    <2>2. \E D \in SUBSET Pairs : Service!Drop(D)
      BY <1>0, <1>3, <2>1, StatusDropped, Zenon
    <2> QED
      BY <2>2, Zenon DEF Service!Next, Service!Pairs, Pairs
  <1>4. ASSUME NEW D, DispatchPending(queue, D), UNCHANGED <<arrived, purged>>
        PROVE  UNCHANGED CustodyStatus
    BY <1>0, <1>2, <1>4, PullShape, Zenon
  <1>5. CASE RelayRequest
    <2>1. PICK s \in Senders, d \in Destinations, m \in Messages,
               h \in Identities \cup Keys \cup {NoIdentity}, dv \in Devices \cup {NoDevice} :
            \/ SuppressDuplicate(s, d, m, h, dv)
            \/ AcceptExisting(s, d, m, h, dv)
            \/ \E P \in PressurePurges : AcceptNew(s, d, m, h, dv, P)
            \/ \E P \in PressurePurges : RefuseForPressure(s, d, m, h, dv, P)
      BY <1>5 DEF RelayRequest
    <2>2. \A P \in PressurePurges : P \in SUBSET DOMAIN queue
      BY Zenon DEF PressurePurges, IdentityRelated, Oldest
    <2>3. CASE SuppressDuplicate(s, d, m, h, dv)
      BY <1>2, <2>3, Zenon DEF SuppressDuplicate
    <2>4. CASE AcceptExisting(s, d, m, h, dv)
      BY <1>4, <2>4, Zenon DEF AcceptExisting
    <2>5. ASSUME NEW P \in PressurePurges, AcceptNew(s, d, m, h, dv, P)
          PROVE  Service!Next
      <3> DEFINE q1 == PutAccepted(RemoveMessages(queue, P), nextId, d, m,
                                   NormalizeLookupIdentity(h), ResolvedDevice(h, dv))
      <3>1. /\ DOMAIN q1 = (DOMAIN queue \ P) \cup {nextId}
            /\ PairOf(q1[nextId]) = <<d, m>>
            /\ nextId \notin DOMAIN queue
            /\ \A c \in DOMAIN queue \ P : q1[c] = queue[c]
        <4>1. nextId \notin DOMAIN queue
          BY <1>0 DEF Core, QueueInv, Issued, QueueTyped
        <4> DEFINE q0 == RemoveMessages(queue, P)
        <4>2. DOMAIN q0 = DOMAIN queue \ P /\ \A c \in DOMAIN queue \ P : q0[c] = queue[c]
          BY Zenon DEF RemoveMessages
        <4>3. q1 = PutAccepted(q0, nextId, d, m, NormalizeLookupIdentity(h),
                               ResolvedDevice(h, dv))
          BY Zenon
        <4> HIDE DEF q0, q1
        <4>4. /\ DOMAIN q1 = DOMAIN q0 \cup {nextId}
              /\ \A c \in DOMAIN q0 : c # nextId => q1[c] = q0[c]
          BY <4>3, Zenon DEF PutAccepted
        <4>5. PairOf(q1[nextId]) = <<d, m>>
          BY <4>3, Zenon DEF PutAccepted, PairOf
        <4> QED
          BY <4>1, <4>2, <4>4, <4>5, Zenon
      <3>2. /\ QueueTyped(q1) /\ DispatchPending(q1, {d} \cap connected)
            /\ UNCHANGED arrived /\ purged' = purged \cup {PairOf(queue[c]) : c \in P}
            /\ Held(<<d, m>>) = {}
        BY <1>0, <2>5, AcceptQueue, Zenon DEF AcceptNew, WritableNew, QueueInv
      <3> HIDE DEF q1
      <3>3. /\ DOMAIN queue' = (DOMAIN queue \ P) \cup {nextId}
            /\ PairOf(queue'[nextId]) = <<d, m>>
            /\ \A c \in DOMAIN queue \ P : PairOf(queue'[c]) = PairOf(queue[c])
        <4>1. /\ DOMAIN queue' = DOMAIN q1
              /\ \A c \in DOMAIN q1 : PairOf(queue'[c]) = PairOf(q1[c])
          BY <3>2, PullShape, Zenon
        <4> QED
          BY <3>1, <4>1, Zenon
      <3>4. <<d, m>> \in Pairs
        BY Zenon DEF Pairs
      <3>5. Held(<<d, m>>)' # {}
        BY <1>1, <3>3, <3>4, Zenon
      <3>6. \A x \in Pairs \ {<<d, m>>} :
               Held(x)' = {} <=> {c \in DOMAIN queue \ P : PairOf(queue[c]) = x} = {}
        BY <1>1, <3>3, Zenon
      <3> QED
        BY <1>0, <2>2, <3>2, <3>4, <3>5, <3>6, StatusTaken, Zenon
    <2>6. ASSUME NEW P \in PressurePurges, RefuseForPressure(s, d, m, h, dv, P)
          PROVE  Service!Next
      BY <1>3, <2>2, <2>6, Zenon DEF RefuseForPressure
    <2> QED
      BY <2>1, <2>3, <2>4, <2>5, <2>6, Zenon
  <1>6. ASSUME NEW D, DispatchesFail(D)
        PROVE  UNCHANGED CustodyStatus
    <2>1. DOMAIN queue' = DOMAIN queue /\ UNCHANGED <<arrived, purged>>
      BY <1>6, Zenon DEF DispatchesFail, MarkDispatchFailed, historyVars
    <2>2. \A c \in DOMAIN queue : PairOf(queue'[c]) = PairOf(queue[c])
      BY <1>0, <1>6, StateUpdates, Zenon DEF DispatchesFail, MarkDispatchFailed, QueueTyped
    <2> QED
      BY <1>2, <2>1, <2>2, Zenon
  <1>7. CASE Connections
    BY <1>4, <1>6, <1>7, Zenon DEF Connections, ConnectionEstablished, ConnectionClosed,
       CustodyPullTick, historyVars
  <1>8. CASE Responses
    <2>1. ASSUME NEW S, queue' = RemoveMessages(queue, S), UNCHANGED <<arrived, purged>>,
                 \A c \in S \cap DOMAIN queue : PairOf(queue[c]) \in arrived
          PROVE  UNCHANGED CustodyStatus
      <3>1. \A x \in Pairs : x \notin arrived => (Held(x)' = {} <=> Held(x) = {})
        BY <1>1, <2>1 DEF RemoveMessages
      <3> QED
        BY <2>1, <3>1, StatusKept, Zenon
    <2>2. ASSUME NEW a \in acks, RecipientAck(a)
          PROVE  UNCHANGED CustodyStatus
      <3>1. a.req \in inflight /\ PairOf(a.req) \in arrived
        BY <2>2, Zenon DEF RecipientAck, CustodyInv, AckInv
      <3>2. a.req.cid \in DOMAIN queue => PairOf(queue[a.req.cid]) = PairOf(a.req)
        BY <1>0, <3>1, Zenon DEF Core, QueueInv, Matches
      <3>3. UNCHANGED <<arrived, purged>>
        BY <2>2, Zenon DEF RecipientAck, historyVars
      <3>4. \E S : /\ queue' = RemoveMessages(queue, S)
                  /\ S \subseteq {a.req.cid} \cup Held(PairOf(a.req))
        BY <2>2, Zenon DEF RecipientAck, ApplyMarker
      <3> QED
        BY <2>1, <3>1, <3>2, <3>3, <3>4, Zenon DEF Held
    <2>3. ASSUME NEW pair \in Pairs, ConvergenceMarker(pair)
          PROVE  UNCHANGED CustodyStatus
      BY <2>1, <2>3, Zenon DEF ConvergenceMarker, MarkerPublished, ApplyMarker, Held, historyVars
    <2> QED
      BY <1>6, <1>8, <2>2, <2>3, Zenon DEF Responses, RecipientRejected, OutboundFailure
  <1>9. CASE Environment
    <2>1. ASSUME NEW pair \in Pairs, pair \in promised, arrived' = arrived \cup {pair},
                 UNCHANGED <<queue, purged>>
          PROVE  Service!Next \/ UNCHANGED CustodyStatus
      <3>1. Service!Deliver(pair) \/ UNCHANGED CustodyStatus
        BY <2>1, StatusDelivered, Zenon DEF CustodyInv, LossInv
      <3> QED
        BY <3>1, Zenon DEF Service!Next, Service!Pairs, Pairs
    <2>2. ASSUME NEW p \in wire, RecipientReceives(p)
          PROVE  Service!Next \/ UNCHANGED CustodyStatus
      <3>1. PairOf(p) \in promised /\ PairOf(p) \in Pairs
        BY Zenon DEF SentPromised, CustodyInv, RestTyped
      <3> QED
        BY <2>1, <2>2, <3>1, Zenon DEF RecipientReceives
    <2>3. ASSUME NEW pair \in Pairs, OtherRelayDelivers(pair)
          PROVE  Service!Next \/ UNCHANGED CustodyStatus
      BY <2>1, <2>3, Zenon DEF OtherRelayDelivers
    <2>4. ASSUME UNCHANGED <<queue, arrived, purged>>
          PROVE  UNCHANGED CustodyStatus
      BY <1>2, <2>4, Zenon
    <2> QED
      BY <1>9, <2>2, <2>3, <2>4, Zenon DEF Environment, RecipientRefuses, ForgetRecent, ClockTick,
         historyVars
  <1>10. CASE Registrations
    <2>1. ASSUME NEW S \in SUBSET DOMAIN queue, PurgeRecords(S), UNCHANGED arrived
          PROVE  Service!Next
      BY <1>3, <2>1, Zenon DEF PurgeRecords
    <2>2. ASSUME NEW i \in Identities, NEW d \in Devices,
                 RegisterIdentity(i, d) \/ CrashInRegister(i, d)
          PROVE  Service!Next
      <3>1. RegisterPurge(i, d) \subseteq DOMAIN queue
        BY Zenon DEF RegisterPurge, DeviceMessages, IdentityMessages
      <3> QED
        BY <2>1, <2>2, <3>1, Zenon DEF RegisterIdentity, CrashInRegister, Restart
    <2>3. ASSUME NEW t \in Devices \cup {NoDevice}, NEW S \in SUBSET DOMAIN queue,
                 HandOverOrPurge(t, S), UNCHANGED arrived
          PROVE  Service!Next \/ UNCHANGED CustodyStatus
      <3>1. CASE t = NoDevice
        BY <2>1, <2>3, <3>1, Zenon DEF HandOverOrPurge
      <3>2. CASE t # NoDevice
        <4>1. DOMAIN queue' = DOMAIN queue /\ UNCHANGED purged
          BY <2>3, <3>2, Zenon DEF HandOverOrPurge, MigrateIdentityDevice
        <4>2. \A c \in DOMAIN queue : PairOf(queue'[c]) = PairOf(queue[c])
          BY <1>0, <2>3, <3>2, DeviceUpdates
             DEF HandOverOrPurge, MigrateIdentityDevice, QueueTyped
        <4> QED
          BY <1>2, <2>3, <4>1, <4>2, Zenon
      <3> QED
        BY <3>1, <3>2, Zenon
    <2>4. ASSUME NEW i \in Identities, NEW f \in Devices, NEW t \in Devices \cup {NoDevice},
                 DeregisterIdentity(i, f, t) \/ CrashInDeregister(i, f, t)
          PROVE  Service!Next \/ UNCHANGED CustodyStatus
      <3>1. DeregisterEffect(i, f, t) \subseteq DOMAIN queue
        BY Zenon DEF DeregisterEffect, DeviceMessages, IdentityMessages
      <3> QED
        BY <2>3, <2>4, <3>1, Zenon DEF DeregisterIdentity, CrashInDeregister, Restart
    <2>5. ASSUME NEW i \in Identities, ReadRegistration(i)
          PROVE  UNCHANGED CustodyStatus
      BY <1>2, <2>5, Zenon DEF ReadRegistration
    <2> QED
      BY <1>10, <2>2, <2>4, <2>5, Zenon DEF Registrations
  <1>11. CASE Crash
    BY <1>2, <1>11, Zenon DEF Crash, Restart
  <1> QED
    BY <1>5, <1>7, <1>8, <1>9, <1>10, <1>11, Zenon DEF Next

(* The relay, with its queue, its dispatches, its registry and its         *)
(* crashes, implements the custody service.                                *)
THEOREM RelayImplementsService ==
    Spec => ImplementsService
  <1>1. Init => SentPromised(queue, wire, promised)
    BY Zenon DEF Init, SentPromised
  <1>2. CustodyInv /\ SentPromised(queue, wire, promised) /\ [Next]_vars
            => SentPromised(queue, wire, promised)'
    BY SentStep, Zenon DEF CustodyInv, SentPromised, vars
  <1>3. Spec => []SentPromised(queue, wire, promised)
    BY <1>1, <1>2, SpecCustodyInv, PTL DEF Spec
  <1>4. Init => Service!Init
    BY Zenon DEF Init, Service!Init, CustodyStatus, Held, Service!Pairs, Pairs
  <1>5. CustodyInv /\ SentPromised(queue, wire, promised) /\ [Next]_vars
            => [Service!Next]_CustodyStatus
    <2>1. UNCHANGED vars => UNCHANGED CustodyStatus
      BY Zenon DEF vars, CustodyStatus, Held
    <2> QED
      BY <2>1, ServiceStep, Zenon
  <1> QED
    BY <1>3, <1>4, <1>5, SpecCustodyInv, PTL DEF Spec, ImplementsService, Service!Spec

-----------------------------------------------------------------------------
(* The limits of relay custody.  The acceptance check counts Accepted      *)
(* records only, so the bound on a destination's queue rests on the        *)
(* in-flight cap and on the agreement of queue and dispatches: a record    *)
(* that is neither Accepted nor orphaned has a request of its own in       *)
(* flight.                                                                 *)

(* The records for d that no crash orphaned: what the acceptance check and *)
(* the in-flight cap bound together.                                       *)
KeptFor(q, o, d) == {c \in DOMAIN q : q[c].dest = d} \ o

(* Dispatches in flight and the records of a destination are within the    *)
(* limits.                                                                 *)
LimitInv ==
    /\ IsFiniteSet(inflight)
    /\ Cardinality(inflight) <= RELAY_MAX_INFLIGHT_DISPATCHES
    /\ \A d \in Destinations :
          Cardinality(KeptFor(queue, orphans, d))
              <= MAX_PENDING_PER_DESTINATION + RELAY_MAX_INFLIGHT_DISPATCHES - 1

(* No record is added and none changes its destination. *)
Narrows(q, q2) ==
    /\ DOMAIN q2 \subseteq DOMAIN q
    /\ \A c \in DOMAIN q2 : q2[c].dest = q[c].dest

(* Ids are issued in order, so the queue is finite. *)
LEMMA QueueFinite ==
    ASSUME NEW q, NEW fl, NEW n, QueueTyped(q), Issued(q, fl, n)
    PROVE  IsFiniteSet(DOMAIN q)
  <1>1. DOMAIN q \in SUBSET Nat /\ n \in Nat /\ \A c \in DOMAIN q : c <= n
    BY DEF QueueTyped, Issued
  <1> HIDE DEF QueueTyped, Issued
  <1> QED
    BY <1>1, FS_BoundedSetOfNaturals, Zenon

(* The records for one destination are finitely many. *)
LEMMA KeptFinite ==
    ASSUME NEW q, NEW o, NEW d, IsFiniteSet(DOMAIN q)
    PROVE  /\ IsFiniteSet(KeptFor(q, o, d))
           /\ Cardinality(KeptFor(q, o, d)) \in Nat
  <1>1. KeptFor(q, o, d) \in SUBSET DOMAIN q
    BY Zenon DEF KeptFor
  <1> QED
    BY <1>1, FS_Subset, FS_CardinalityType, Zenon

(* Removing, marking and re-addressing records, and orphaning more of      *)
(* them, leaves every destination with no more than it had.                *)
LEMMA NarrowsKept ==
    ASSUME NEW q, NEW q2, NEW o, NEW o2, NEW d,
           IsFiniteSet(DOMAIN q), Narrows(q, q2), o \subseteq o2
    PROVE  /\ Cardinality(KeptFor(q2, o2, d)) <= Cardinality(KeptFor(q, o, d))
           /\ Cardinality(KeptFor(q2, o2, d)) \in Nat
           /\ Cardinality(KeptFor(q, o, d)) \in Nat
  <1>1. KeptFor(q2, o2, d) \in SUBSET KeptFor(q, o, d)
    BY Zenon DEF KeptFor, Narrows
  <1>2. IsFiniteSet(KeptFor(q, o, d))
    BY KeptFinite, Zenon
  <1>3. IsFiniteSet(KeptFor(q2, o2, d))
    BY <1>1, <1>2, FS_Subset, Zenon
  <1> QED
    BY <1>1, <1>2, <1>3, FS_Subset, FS_CardinalityType, Zenon

(* A pull sends no more requests than it has records.                      *)
LEMMA DispatchesCounted ==
    ASSUME NEW q, NEW R, IsFiniteSet(R)
    PROVE  /\ IsFiniteSet(DispatchesOf(q, R))
           /\ Cardinality(DispatchesOf(q, R)) <= Cardinality(R)
           /\ Cardinality(DispatchesOf(q, R)) \in Nat
           /\ Cardinality(R) \in Nat
  <1> DEFINE f == [c \in R |-> [cid |-> c, attempt |-> q[c].attempts + 1,
                                dest |-> q[c].dest, mid |-> q[c].mid]]
  <1>1. f \in Surjection(R, DispatchesOf(q, R))
    BY Zenon DEF Surjection, DispatchesOf
  <1> HIDE DEF f
  <1>2. /\ IsFiniteSet(DispatchesOf(q, R))
        /\ Cardinality(DispatchesOf(q, R)) <= Cardinality(R)
    BY <1>1, FS_Surjection, Zenon
  <1> QED
    BY <1>2, FS_CardinalityType, Zenon

(* A pull stays within the in-flight cap, whoever triggered it.            *)
LEMMA PullLimited ==
    ASSUME NEW q, NEW D, IsFiniteSet(DOMAIN q), IsFiniteSet(inflight),
           Cardinality(inflight) <= RELAY_MAX_INFLIGHT_DISPATCHES,
           DispatchPending(q, D)
    PROVE  /\ IsFiniteSet(inflight')
           /\ Cardinality(inflight') <= RELAY_MAX_INFLIGHT_DISPATCHES
  <1>1. PICK R \in SUBSET UNION {Batch(q, d) : d \in D} :
            /\ R # {} => Cardinality(R) <= RELAY_MAX_INFLIGHT_DISPATCHES - Cardinality(inflight)
            /\ inflight' = inflight \cup DispatchesOf(q, R)
    BY Zenon DEF DispatchPending, Pulled
  <1>2. R \in SUBSET DOMAIN q
    BY PulledArePending, Zenon
  <1>3. IsFiniteSet(R)
    BY <1>2, FS_Subset, Zenon
  <1>4. CASE R = {}
    <2>1. inflight' = inflight
      BY <1>1, <1>4, Zenon DEF DispatchesOf
    <2> QED
      BY <2>1, Zenon
  <1>5. CASE R # {}
    <2> DEFINE S == DispatchesOf(q, R)
    <2>1. IsFiniteSet(S) /\ Cardinality(S) <= Cardinality(R) /\ Cardinality(S) \in Nat
          /\ Cardinality(R) \in Nat
      BY <1>3, DispatchesCounted, Zenon
    <2> HIDE DEF S
    <2>2. /\ IsFiniteSet(inflight \cup S)
          /\ Cardinality(inflight \cup S)
                = Cardinality(inflight) + Cardinality(S) - Cardinality(inflight \cap S)
      BY <2>1, FS_Union, Zenon
    <2>3. IsFiniteSet(inflight \cap S)
      BY <2>1, FS_Intersection, Zenon
    <2>4. /\ Cardinality(inflight) \in Nat
          /\ Cardinality(inflight \cap S) \in Nat
      BY <2>3, FS_CardinalityType, Zenon
    <2>5. inflight' = inflight \cup S
      BY <1>1, Zenon DEF S
    <2>6. Cardinality(R) <= RELAY_MAX_INFLIGHT_DISPATCHES - Cardinality(inflight)
      BY <1>1, <1>5, Zenon
    <2>7. Cardinality(inflight \cup S) <= RELAY_MAX_INFLIGHT_DISPATCHES
      BY <2>1, <2>2, <2>4, <2>6, CustodyAssumption
    <2> QED
      BY <2>2, <2>5, <2>7, Zenon
  <1> QED
    BY <1>4, <1>5, Zenon

(* A pull adds no record and moves none to another destination. *)
LEMMA PullNarrows ==
    ASSUME NEW q, NEW D, QueueTyped(q), DispatchPending(q, D)
    PROVE  Narrows(q, queue')
  BY PullShape, Zenon DEF Narrows, PairOf

(* Records that are not orphans and not pending are in flight, one request *)
(* each: there are no more of them than requests.                          *)
LEMMA InflightCounts ==
    ASSUME NEW q, NEW fl, NEW o, NEW S,
           Matches(q, fl, o), IsFiniteSet(fl),
           S \subseteq DOMAIN q \ o, \A c \in S : q[c].state = "dispatching"
    PROVE  /\ IsFiniteSet(S)
           /\ Cardinality(S) <= Cardinality(fl)
  <1> DEFINE f == [c \in S |-> CHOOSE p \in fl : p.cid = c]
  <1>1. \A c \in S : f[c] \in fl /\ f[c].cid = c
    BY Zenon DEF Matches
  <1>2. f \in Injection(S, fl)
    BY <1>1 DEF Injection, IsInjective
  <1> HIDE DEF f
  <1> QED
    BY <1>2, FS_Injection, Zenon

(* When a message is accepted its destination has room: fewer than the     *)
(* quota are pending and fewer than the cap are in flight.                 *)
LEMMA RoomAtAcceptance ==
    ASSUME Core, LimitInv, NEW s, NEW d \in Destinations, NEW m, NEW h, NEW dv,
           WritableNew(s, d, m, h, dv)
    PROVE  Cardinality(KeptFor(queue, orphans, d)) + 1
               <= MAX_PENDING_PER_DESTINATION + RELAY_MAX_INFLIGHT_DISPATCHES - 1
  <1> DEFINE K == KeptFor(queue, orphans, d)
             A == PendingForDestination(queue, d)
             B == {c \in K : queue[c].state = "dispatching"}
  <1>1. IsFiniteSet(DOMAIN queue)
    BY QueueFinite, Zenon DEF Core, QueueInv
  <1>2. A \in SUBSET DOMAIN queue
    BY Zenon DEF PendingForDestination
  <1>3. IsFiniteSet(A) /\ Cardinality(A) \in Nat
    BY <1>1, <1>2, FS_Subset, FS_CardinalityType, Zenon
  <1>4. IsFiniteSet(B) /\ Cardinality(B) <= Cardinality(inflight)
    <2>1. B \subseteq DOMAIN queue \ orphans /\ \A c \in B : queue[c].state = "dispatching"
      BY Zenon DEF KeptFor
    <2>2. Matches(queue, inflight, orphans) /\ IsFiniteSet(inflight)
      BY Zenon DEF Core, QueueInv, LimitInv
    <2> HIDE DEF B
    <2> QED
      BY <2>1, <2>2, InflightCounts, Zenon
  <1>5. K \in SUBSET (A \cup B)
    BY Zenon DEF KeptFor, PendingForDestination, Core, QueueInv, QueueTyped, CustodyMessage
  <1>6. /\ Cardinality(inflight) < RELAY_MAX_INFLIGHT_DISPATCHES
        /\ Cardinality(A) < MAX_PENDING_PER_DESTINATION
    BY Zenon DEF WritableNew, Admitted
  <1>7. IsFiniteSet(inflight)
    BY Zenon DEF LimitInv
  <1> HIDE DEF K, A, B
  <1>8. /\ IsFiniteSet(A \cup B)
        /\ Cardinality(A \cup B) = Cardinality(A) + Cardinality(B) - Cardinality(A \cap B)
    BY <1>3, <1>4, FS_Union, Zenon
  <1>9. Cardinality(K) <= Cardinality(A \cup B) /\ IsFiniteSet(K)
    BY <1>5, <1>8, FS_Subset, Zenon
  <1>10. IsFiniteSet(A \cap B)
    BY <1>3, FS_Intersection, Zenon
  <1>11. /\ Cardinality(K) \in Nat /\ Cardinality(B) \in Nat
         /\ Cardinality(A \cap B) \in Nat /\ Cardinality(inflight) \in Nat
    BY <1>4, <1>7, <1>9, <1>10, FS_CardinalityType, Zenon
  <1>12. Cardinality(K) + 1 <= MAX_PENDING_PER_DESTINATION + RELAY_MAX_INFLIGHT_DISPATCHES - 1
    BY <1>3, <1>4, <1>6, <1>8, <1>9, <1>11, CustodyAssumption
  <1> QED
    BY <1>12, Zenon DEF K

(* Accepting a message, with the purge before and the pull after it, keeps *)
(* the limits.                                                             *)
LEMMA AcceptLimited ==
    ASSUME RegistryInv, Core, LimitInv,
           NEW s \in Senders, NEW d \in Destinations, NEW m \in Messages,
           NEW h \in Identities \cup Keys \cup {NoIdentity},
           NEW dv \in Devices \cup {NoDevice}, NEW P, AcceptNew(s, d, m, h, dv, P)
    PROVE  LimitInv'
  <1> DEFINE q0 == RemoveMessages(queue, P)
             q1 == PutAccepted(q0, nextId, d, m, NormalizeLookupIdentity(h),
                               ResolvedDevice(h, dv))
  <1>1. /\ WritableNew(s, d, m, h, dv)
        /\ DispatchPending(q1, {d} \cap connected)
        /\ orphans' = orphans
    BY Zenon DEF AcceptNew
  <1>2. QueueInv(q1, inflight, wire, nextId + 1, orphans)
    BY <1>1, AcceptQueue, Zenon
  <1>3. /\ DOMAIN q1 \subseteq DOMAIN queue \cup {nextId}
        /\ \A c \in DOMAIN q1 : q1[c].dest = IF c = nextId THEN d ELSE queue[c].dest
    BY Zenon DEF PutAccepted, RemoveMessages
  <1> HIDE DEF q0, q1
  <1>4. IsFiniteSet(DOMAIN q1) /\ QueueTyped(q1)
    BY <1>2, QueueFinite, Zenon DEF QueueInv
  <1>5. /\ IsFiniteSet(inflight')
        /\ Cardinality(inflight') <= RELAY_MAX_INFLIGHT_DISPATCHES
    BY <1>1, <1>4, PullLimited, Zenon DEF LimitInv
  <1>6. Narrows(q1, queue')
    BY <1>1, <1>4, PullNarrows, Zenon
  <1>7. IsFiniteSet(DOMAIN queue)
    BY QueueFinite, Zenon DEF Core, QueueInv
  <1>8. ASSUME NEW e \in Destinations
        PROVE  Cardinality(KeptFor(queue', orphans', e))
                   <= MAX_PENDING_PER_DESTINATION + RELAY_MAX_INFLIGHT_DISPATCHES - 1
    <2> DEFINE K == KeptFor(queue, orphans, e)
               K1 == KeptFor(q1, orphans, e)
    <2>1. /\ Cardinality(KeptFor(queue', orphans', e)) <= Cardinality(K1)
          /\ Cardinality(KeptFor(queue', orphans', e)) \in Nat
          /\ Cardinality(K1) \in Nat
      BY <1>1, <1>4, <1>6, NarrowsKept, Zenon
    <2>2. IsFiniteSet(K) /\ Cardinality(K) \in Nat
      BY <1>7, KeptFinite, Zenon
    <2>3. Cardinality(K) <= MAX_PENDING_PER_DESTINATION + RELAY_MAX_INFLIGHT_DISPATCHES - 1
      BY Zenon DEF LimitInv
    <2>4. CASE e = d
      <3>1. Cardinality(K) + 1 <= MAX_PENDING_PER_DESTINATION + RELAY_MAX_INFLIGHT_DISPATCHES - 1
        BY <1>1, <2>4, RoomAtAcceptance, Zenon
      <3>2. K1 \in SUBSET (K \cup {nextId})
        BY <1>3, Zenon DEF KeptFor
      <3> HIDE DEF K, K1
      <3>3. /\ IsFiniteSet(K \cup {nextId})
            /\ Cardinality(K \cup {nextId}) <= Cardinality(K) + 1
            /\ Cardinality(K \cup {nextId}) \in Nat
        BY <2>2, FS_AddElement
      <3>4. Cardinality(K1) <= Cardinality(K \cup {nextId})
        BY <3>2, <3>3, FS_Subset, Zenon
      <3> QED
        BY <2>1, <2>2, <3>1, <3>3, <3>4, CustodyAssumption
    <2>5. CASE e # d
      <3>1. K1 \in SUBSET K
        BY <1>3, <2>5, Zenon DEF KeptFor
      <3> HIDE DEF K, K1
      <3>2. Cardinality(K1) <= Cardinality(K)
        BY <2>2, <3>1, FS_Subset, Zenon
      <3> QED
        BY <2>1, <2>2, <2>3, <3>2, CustodyAssumption
    <2> QED
      BY <2>4, <2>5, Zenon
  <1> QED
    BY <1>5, <1>8, Zenon DEF LimitInv

(* Every step of the relay keeps the limits. *)
LEMMA LimitStep ==
    ASSUME RegistryInv, Core, AckInv, LimitInv, Next
    PROVE  LimitInv'
  <1>1. IsFiniteSet(DOMAIN queue)
    BY QueueFinite, Zenon DEF Core, QueueInv
  <1>2. ASSUME Narrows(queue, queue'), orphans \subseteq orphans'
        PROVE  \A d \in Destinations :
                  Cardinality(KeptFor(queue', orphans', d))
                      <= MAX_PENDING_PER_DESTINATION + RELAY_MAX_INFLIGHT_DISPATCHES - 1
    <2> TAKE d \in Destinations
    <2>1. /\ Cardinality(KeptFor(queue', orphans', d)) <= Cardinality(KeptFor(queue, orphans, d))
          /\ Cardinality(KeptFor(queue', orphans', d)) \in Nat
          /\ Cardinality(KeptFor(queue, orphans, d)) \in Nat
      BY <1>1, <1>2, NarrowsKept, Zenon
    <2> QED
      BY <2>1, CustodyAssumption DEF LimitInv
  <1>3. ASSUME inflight' \subseteq inflight
        PROVE  /\ IsFiniteSet(inflight')
               /\ Cardinality(inflight') <= RELAY_MAX_INFLIGHT_DISPATCHES
    <2>1. /\ IsFiniteSet(inflight')
          /\ Cardinality(inflight') <= Cardinality(inflight)
      BY <1>3, FS_Subset, Zenon DEF LimitInv
    <2>2. Cardinality(inflight') \in Nat /\ Cardinality(inflight) \in Nat
      BY <2>1, FS_CardinalityType, Zenon DEF LimitInv
    <2> QED
      BY <2>1, <2>2, CustodyAssumption DEF LimitInv
  <1>4. ASSUME Narrows(queue, queue'), orphans \subseteq orphans', inflight' \subseteq inflight
        PROVE  LimitInv'
    BY <1>2, <1>3, <1>4, Zenon DEF LimitInv
  <1>5. ASSUME NEW D, DispatchPending(queue, D), orphans' = orphans
        PROVE  LimitInv'
    <2>1. Narrows(queue, queue')
      BY <1>5, PullNarrows, Zenon DEF Core, QueueInv
    <2>2. /\ IsFiniteSet(inflight')
          /\ Cardinality(inflight') <= RELAY_MAX_INFLIGHT_DISPATCHES
      BY <1>1, <1>5, PullLimited, Zenon DEF LimitInv
    <2> QED
      BY <1>2, <1>5, <2>1, <2>2, Zenon DEF LimitInv
  <1>6. CASE RelayRequest
    <2>1. PICK s \in Senders, d \in Destinations, m \in Messages,
               h \in Identities \cup Keys \cup {NoIdentity}, dv \in Devices \cup {NoDevice} :
            \/ SuppressDuplicate(s, d, m, h, dv)
            \/ AcceptExisting(s, d, m, h, dv)
            \/ \E P \in PressurePurges : AcceptNew(s, d, m, h, dv, P)
            \/ \E P \in PressurePurges : RefuseForPressure(s, d, m, h, dv, P)
      BY <1>6 DEF RelayRequest
    <2>2. CASE SuppressDuplicate(s, d, m, h, dv)
      BY <1>4, <2>2, Zenon DEF SuppressDuplicate, memoryVars, Narrows
    <2>3. CASE AcceptExisting(s, d, m, h, dv)
      BY <1>5, <2>3, Zenon DEF AcceptExisting
    <2>4. ASSUME NEW P, AcceptNew(s, d, m, h, dv, P)
          PROVE  LimitInv'
      BY <1>1, <2>4, AcceptLimited, Zenon DEF AcceptNew
    <2>5. ASSUME NEW P, RefuseForPressure(s, d, m, h, dv, P)
          PROVE  LimitInv'
      BY <1>4, <2>5, Zenon DEF RefuseForPressure, memoryVars, Narrows, RemoveMessages
    <2> QED
      BY <2>1, <2>2, <2>3, <2>4, <2>5, Zenon
  <1>7. ASSUME NEW D, DispatchesFail(D)
        PROVE  LimitInv'
    <2>1. Narrows(queue, queue')
      BY <1>7, StateUpdates, Zenon DEF DispatchesFail, MarkDispatchFailed, Narrows, Core, QueueInv,
         QueueTyped, PairOf
    <2> QED
      BY <1>4, <1>7, <2>1, Zenon DEF DispatchesFail, historyVars
  <1>8. CASE Connections
    BY <1>5, <1>7, <1>8, Zenon DEF Connections, ConnectionEstablished, ConnectionClosed,
       CustodyPullTick, historyVars
  <1>9. CASE Responses
    BY <1>4, <1>7, <1>9, Zenon DEF Responses, RecipientAck, RecipientRejected, OutboundFailure,
       ConvergenceMarker, ApplyMarker, RemoveMessages, Narrows, historyVars
  <1>10. CASE Environment
    BY <1>4, <1>10, Zenon DEF Environment, RecipientReceives, RecipientRefuses,
       OtherRelayDelivers, ForgetRecent, ClockTick, Narrows, memoryVars, historyVars
  <1>11. CASE Registrations
    <2>1. Narrows(queue, queue')
      <3>1. ASSUME NEW t \in Devices, NEW S
            PROVE  Narrows(queue, MigrateIdentityDevice(queue, S, t))
        BY DeviceUpdates DEF MigrateIdentityDevice, Narrows, Core, QueueInv, QueueTyped, PairOf
      <3>2. ASSUME NEW S
            PROVE  Narrows(queue, RemoveMessages(queue, S))
        BY Zenon DEF RemoveMessages, Narrows
      <3>3. ASSUME NEW S, NEW t \in Devices \cup {NoDevice},
                   PurgeRecords(S) \/ HandOverOrPurge(t, S)
            PROVE  Narrows(queue, queue')
        BY <3>1, <3>2, <3>3, Zenon DEF PurgeRecords, HandOverOrPurge
      <3>4. ASSUME NEW i \in Identities, NEW d \in Devices,
                   RegisterIdentity(i, d) \/ CrashInRegister(i, d)
            PROVE  Narrows(queue, queue')
        <4>1. \E S : PurgeRecords(S)
          BY <3>4, Zenon DEF RegisterIdentity, CrashInRegister
        <4> QED
          BY <3>3, <4>1, Zenon
      <3>5. ASSUME NEW i \in Identities, NEW f \in Devices,
                   NEW t \in Devices \cup {NoDevice},
                   DeregisterIdentity(i, f, t) \/ CrashInDeregister(i, f, t)
            PROVE  Narrows(queue, queue')
        <4>1. \E S : HandOverOrPurge(t, S)
          BY <3>5, Zenon DEF DeregisterIdentity, CrashInDeregister
        <4> QED
          BY <3>3, <4>1, Zenon
      <3>6. ASSUME NEW i \in Identities, ReadRegistration(i)
            PROVE  Narrows(queue, queue')
        BY <3>6, Zenon DEF ReadRegistration, Narrows
      <3> QED
        BY <1>11, <3>4, <3>5, <3>6, Zenon DEF Registrations
    <2>2. orphans \subseteq orphans' /\ inflight' \subseteq inflight
      BY <1>11, Zenon DEF Registrations, RegisterIdentity, CrashInRegister, DeregisterIdentity,
         CrashInDeregister, ReadRegistration, Restart, memoryVars
    <2> QED
      BY <1>4, <2>1, <2>2, Zenon
  <1>12. CASE Crash
    BY <1>4, <1>12, Zenon DEF Crash, Restart, Narrows
  <1> QED
    BY <1>6, <1>8, <1>9, <1>10, <1>11, <1>12, Zenon DEF Next

(* The durable queue and the dispatches in memory agree and stay within    *)
(* their limits, for any limits and through any mixture of resends,        *)
(* failures, refusals, disconnects, purges, markers and crashes.           *)
THEOREM CustodyStaysConsistent ==
    Spec => []CustodyConsistent
  <1>1. Init => LimitInv
    <2> SUFFICES ASSUME Init PROVE LimitInv
      BY Zenon
    <2>1. inflight = {} /\ \A d : KeptFor(queue, orphans, d) = {}
      BY Zenon DEF Init, KeptFor
    <2> QED
      BY <2>1, FS_EmptySet, CustodyAssumption DEF LimitInv
  <1>2. CustodyInv /\ LimitInv /\ [Next]_vars => LimitInv'
    <2>1. CustodyInv /\ LimitInv /\ Next => LimitInv'
      BY LimitStep, Zenon DEF CustodyInv
    <2>2. LimitInv /\ UNCHANGED vars => LimitInv'
      BY Zenon DEF LimitInv, vars
    <2> QED
      BY <2>1, <2>2, Zenon
  <1>3. CustodyInv /\ LimitInv => CustodyConsistent
    <2> SUFFICES ASSUME CustodyInv, LimitInv PROVE InflightBounded /\ QueueBounded
      BY Zenon DEF CustodyConsistent, CustodyInv, Core, QueueInv, Unique, UniqueCustody, Matches,
         InflightMatchesQueue, Bounded, AttemptsBounded
    <2>1. IsFiniteSet(DOMAIN queue)
      BY QueueFinite, Zenon DEF CustodyInv, Core, QueueInv
    <2>2. ASSUME NEW d \in Destinations
          PROVE  Cardinality({c \in DOMAIN queue : queue[c].dest = d})
                    <= MAX_PENDING_PER_DESTINATION + RELAY_MAX_INFLIGHT_DISPATCHES - 1
                       + Cardinality(orphans \cap DOMAIN queue)
      <3> DEFINE A == {c \in DOMAIN queue : queue[c].dest = d}
                 K == KeptFor(queue, orphans, d)
                 O == orphans \cap DOMAIN queue
      <3>1. A \in SUBSET (K \cup O) /\ O \in SUBSET DOMAIN queue
        BY Zenon DEF KeptFor
      <3>2. IsFiniteSet(K) /\ Cardinality(K) \in Nat
        BY <2>1, KeptFinite, Zenon
      <3>3. Cardinality(K) <= MAX_PENDING_PER_DESTINATION + RELAY_MAX_INFLIGHT_DISPATCHES - 1
        BY Zenon DEF LimitInv
      <3> HIDE DEF A, K, O
      <3>4. IsFiniteSet(O) /\ Cardinality(O) \in Nat
        BY <2>1, <3>1, FS_Subset, FS_CardinalityType, Zenon
      <3>5. /\ IsFiniteSet(K \cup O)
            /\ Cardinality(K \cup O) = Cardinality(K) + Cardinality(O) - Cardinality(K \cap O)
        BY <3>2, <3>4, FS_Union, Zenon
      <3>6. IsFiniteSet(A) /\ Cardinality(A) <= Cardinality(K \cup O)
        BY <3>1, <3>5, FS_Subset, Zenon
      <3>7. IsFiniteSet(K \cap O)
        BY <3>2, FS_Intersection, Zenon
      <3>8. Cardinality(A) \in Nat /\ Cardinality(K \cap O) \in Nat
        BY <3>6, <3>7, FS_CardinalityType, Zenon
      <3>9. Cardinality(A) <= MAX_PENDING_PER_DESTINATION + RELAY_MAX_INFLIGHT_DISPATCHES - 1
                                 + Cardinality(O)
        BY <3>2, <3>3, <3>4, <3>5, <3>6, <3>8, CustodyAssumption
      <3> QED
        BY <3>9, Zenon DEF A, O
    <2> QED
      BY <2>2, Zenon DEF LimitInv, InflightBounded, QueueBounded
  <1>4. Spec => []LimitInv
    BY <1>1, <1>2, SpecCustodyInv, PTL DEF Spec
  <1> QED
    BY <1>3, <1>4, SpecCustodyInv, PTL
=============================================================================
