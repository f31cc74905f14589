--------------------------- MODULE Browser_proofs ---------------------------
(***************************************************************************)
(* Proofs about the node in a browser (WasmNode), for any peers, bootstrap *)
(* addresses, messages and bounds.                                         *)
(***************************************************************************)
EXTENDS WasmNode, FiniteSetTheorems, WellFoundedInduction, TLAPS

(* A set of numbers with a bound has a greatest one.                       *)
LEMMA GreatestNumber ==
    ASSUME NEW n \in Nat, NEW S \in SUBSET (1 .. n), S # {}
    PROVE  \E x \in S : \A y \in S : y <= x
<1> DEFINE D == {n - k : k \in S}
<1>1. D \in SUBSET Nat /\ D # {}
  <2>1. \A k \in S : n - k \in Nat
    OBVIOUS
  <2> QED
    BY <2>1, Zenon
<1>2. PICK d \in D : \A e \in D : <<e, d>> \notin OpToRel(<, Nat)
  BY <1>1, NatLessThanWellFounded, WFMin, Zenon
<1>3. \A e \in D : ~(e < d)
  BY <1>1, <1>2, Zenon DEF OpToRel
<1>4. PICK x \in S : d = n - x
  BY Zenon
<1>5. \A y \in S : ~(n - y < n - x)
  BY <1>3, <1>4, Zenon
<1> QED
  BY <1>5

(* Two to the n is the number of subsets of a set of n numbers, and one    *)
(* more number doubles it.                                                 *)
LEMMA TwoToThe ==
    ASSUME NEW n \in Nat
    PROVE  2^n \in Nat \ {0} /\ 2^(n + 1) = 2 * 2^n
<1> DEFINE S == SUBSET (1 .. n)
           T == {A \cup {n + 1} : A \in S}
           f == [A \in S |-> A \cup {n + 1}]
<1>1. \A k \in Nat : /\ IsFiniteSet(SUBSET (1 .. k)) /\ Cardinality(SUBSET (1 .. k)) = 2^k
                     /\ Cardinality(SUBSET (1 .. k)) \in Nat \ {0}
  <2> TAKE k \in Nat
  <2>1. IsFiniteSet(1 .. k) /\ Cardinality(1 .. k) = k
    BY FS_Interval
  <2>2. IsFiniteSet(SUBSET (1 .. k)) /\ Cardinality(SUBSET (1 .. k)) = 2^k
    BY <2>1, FS_SUBSET, Zenon
  <2> QED
    BY <2>2, FS_CardinalityType, FS_EmptySet
<1>2. \A A \in S : n + 1 \notin A
  OBVIOUS
<1>3. f \in Bijection(S, T)
  <2>1. f \in [S -> T] /\ \A t \in T : \E A \in S : f[A] = t
    BY Zenon
  <2>2. \A A, B \in S : f[A] = f[B] => A = B
    BY <1>2
  <2> QED
    BY <2>1, <2>2, Zenon DEF Bijection, Injection, Surjection, IsInjective
<1>4. IsFiniteSet(T) /\ Cardinality(T) = 2^n
  <2>1. ExistsBijection(S, T)
    BY <1>3, Zenon DEF ExistsBijection
  <2>2. IsFiniteSet(S) /\ Cardinality(S) = 2^n
    BY <1>1, Zenon
  <2> QED
    BY <2>1, <2>2, FS_Bijection, Zenon
<1>5. SUBSET (1 .. n + 1) = S \cup T
  <2>1. ASSUME NEW B \in SUBSET (1 .. n + 1)
        PROVE  B \in S \cup T
    <3>1. CASE n + 1 \in B
      <4>1. B \ {n + 1} \in S /\ B = (B \ {n + 1}) \cup {n + 1}
        BY <3>1
      <4> QED
        BY <4>1, Zenon
    <3>2. CASE n + 1 \notin B
      BY <3>2
    <3> QED
      BY <3>1, <3>2, Zenon
  <2>2. \A A \in S : A \in SUBSET (1 .. n + 1) /\ A \cup {n + 1} \in SUBSET (1 .. n + 1)
    OBVIOUS
  <2>3. ASSUME NEW B \in T PROVE B \in SUBSET (1 .. n + 1)
    <3>1. PICK A \in S : B = A \cup {n + 1}
      BY <2>3, Zenon
    <3> HIDE DEF S
    <3> QED
      BY <2>2, <3>1, Zenon
  <2> HIDE DEF T
  <2>4. \A B : B \in SUBSET (1 .. n + 1) <=> B \in S \cup T
    BY <2>1, <2>2, <2>3, Zenon
  <2> QED
    BY <2>4, Zenon
<1>6. S \cap T = {}
  BY <1>2, Zenon
<1>7. Cardinality(S \cup T) = 2^n + 2^n - 0
  <2>1. IsFiniteSet(S) /\ Cardinality(S) = 2^n
    BY <1>1, Zenon
  <2>2. Cardinality(S \cup T) = Cardinality(S) + Cardinality(T) - Cardinality(S \cap T)
    BY <1>4, <2>1, FS_Union, Zenon
  <2>3. Cardinality({}) = 0
    BY FS_EmptySet, Zenon
  <2> QED
    BY <1>4, <1>6, <2>1, <2>2, <2>3, Zenon
<1>8. Cardinality(S \cup T) = 2^(n + 1)
  <2>1. n + 1 \in Nat
    OBVIOUS
  <2> QED
    BY <1>1, <1>5, <2>1, Zenon
<1>9. 2^n \in Nat \ {0}
  BY <1>1, Zenon
<1> HIDE DEF S, T, f
<1> QED
  BY <1>7, <1>8, <1>9

-----------------------------------------------------------------------------
(* A request belongs to one swarm and has an id of its own; a call of the  *)
(* application is none of the requests the relay makes.                    *)
WebRequests == [id : 1 .. MaxWebCalls, swarm : Swarms, peer : WebPeers,
                kind : CallKinds \cup RelayedMessages]
RequestsOK ==
    /\ webInFlight \subseteq WebRequests
    /\ \A q, r \in webInFlight : q.id = r.id => q = r
    /\ \A r \in webInFlight : r.id \in callers => r.kind \notin RelayedMessages

(* A swarm that was not started has nothing in custody, and a loop that    *)
(* runs has its event loop beside it.                                      *)
WasmInv ==
    /\ swarmsMade \in 0 .. MaxSwarms /\ loops \subseteq 1 .. swarmsMade
    /\ loops \subseteq feeds /\ feeds \subseteq Swarms
    /\ webCustody \in [Swarms -> [RelayedMessages -> CustodyStates]]
    /\ \A s \in Swarms : s > swarmsMade =>
          \A m \in RelayedMessages : webCustody[s][m] = "absent"
    /\ events \in [Swarms -> Seq(WebMessages)]
    /\ \A r \in webInFlight : r.swarm <= swarmsMade
    /\ RequestsOK /\ RepliesPending /\ AcknowledgedKept

(* A browser whose runtime was not started has no requests.                *)
LEMMA WasmInitially == WasmInit => WasmInv
  BY WasmAssumption DEF WasmInit, WasmInv, RequestsOK, RepliesPending, AcknowledgedKept,
     Swarms, CustodyStates, Ids

(* The swarms that run were made.                                          *)
LEMMA LoopsAreSwarms ==
    ASSUME WasmInv, NEW s \in loops
    PROVE  s \in Swarms /\ s <= swarmsMade
  BY WasmAssumption DEF WasmInv, Swarms

(* A new id is larger than any that something refers to.                   *)
LEMMA NextIdFresh ==
    ASSUME RequestsOK, RepliesPending
    PROVE  NextId \in Nat \ {0} /\ \A i \in Ids : i < NextId
<1>1. callers \cup replies \cup Ids = Ids
  BY Zenon DEF RepliesPending
<1>2. Ids \in SUBSET (1 .. MaxWebCalls) /\ MaxWebCalls \in Nat
  BY WasmAssumption, Zenon DEF RequestsOK, WebRequests, Ids
<1>3. CASE Ids = {}
  BY <1>1, <1>3 DEF NextId
<1>4. CASE Ids # {}
  <2> DEFINE n == CHOOSE n \in Ids : \A k \in Ids : k <= n
  <2>1. n \in Ids /\ \A k \in Ids : k <= n
    BY <1>2, <1>4, GreatestNumber, Zenon
  <2>2. NextId = 1 + n
    BY <1>1, <1>4, Zenon DEF NextId
  <2> HIDE DEF n
  <2> QED
    BY <1>2, <2>1, <2>2
<1> QED
  BY <1>3, <1>4, Zenon


(* What is kept is kept when nothing of it is taken away.                  *)
LEMMA StillKept ==
    ASSUME AcknowledgedKept, UNCHANGED <<acknowledged, events, rxMessages, feeds, dropVars>>,
           \A s \in Swarms, m \in RelayedMessages :
              webCustody[s][m] # "absent" => webCustody'[s][m] # "absent"
    PROVE  AcknowledgedKept'
  BY Zenon DEF AcknowledgedKept, dropVars

(* A start makes a new swarm, and a swarm that was not started has nothing *)
(* in custody.                                                             *)
LEMMA StartRuntimeKeeps ==
    ASSUME WasmInv, StartRuntime
    PROVE  WasmInv'
<1> USE DEF StartRuntime
<1>1. swarmsMade' \in 0 .. MaxSwarms /\ loops' \subseteq 1 .. swarmsMade'
  BY WasmAssumption DEF WasmInv
<1>2. \A s \in Swarms : s > swarmsMade' =>
         \A m \in RelayedMessages : webCustody'[s][m] = "absent"
  BY WasmAssumption DEF WasmInv, Swarms
<1>3. RequestsOK'
  BY Zenon DEF WasmInv, RequestsOK
<1>4. RepliesPending'
  <2>1. ASSUME NEW m \in RelayedMessages
        PROVE  webCustody[swarmsMade + 1][m] # "dispatching"
    BY WasmAssumption DEF WasmInv, Swarms
  <2> QED
    BY <2>1 DEF WasmInv, RepliesPending, Ids
<1>5. AcknowledgedKept'
  BY Zenon DEF WasmInv, AcknowledgedKept, dropVars
<1>6. \A r \in webInFlight : r.swarm <= swarmsMade'
  BY DEF WasmInv, RequestsOK, WebRequests, Swarms
<1>7. loops' \subseteq feeds' /\ feeds' \subseteq Swarms
  BY WasmAssumption DEF WasmInv, Swarms
<1> QED
  BY <1>1, <1>2, <1>3, <1>4, <1>5, <1>6, <1>7, Zenon DEF WasmInv

(* A loop that ends takes its requests, their callers and their replies    *)
(* with it.                                                                *)
LEMMA LoopEndsKeeps ==
    ASSUME WasmInv, NEW s \in Swarms, LoopEnds(s)
    PROVE  WasmInv'
<1> USE DEF LoopEnds
<1>1. RequestsOK'
  BY Zenon DEF WasmInv, RequestsOK
<1>2. ASSUME NEW r \in webInFlight, r.swarm # s
      PROVE  r \in webInFlight' /\ r.id \notin CallsOn(s)
  BY <1>2, Zenon DEF WasmInv, RequestsOK, CallsOn
<1>3. RepliesPending'
  <2>1. callers' \subseteq replies'
    BY Zenon DEF WasmInv, RepliesPending
  <2>2. ASSUME NEW i \in replies'
        PROVE  i \in Ids'
    <3>1. PICK r \in webInFlight : r.id = i
      BY DEF WasmInv, RepliesPending, Ids
    <3>2. r.swarm # s
      BY <3>1, Zenon DEF CallsOn
    <3> QED
      BY <3>1, <3>2, Zenon DEF Ids
  <2>3. ASSUME NEW t \in loops', NEW m \in RelayedMessages, webCustody'[t][m] = "dispatching"
        PROVE  \E r \in webInFlight' : r.swarm = t /\ r.kind = m /\ r.id \in replies'
    <3>1. PICK r \in webInFlight : r.swarm = t /\ r.kind = m /\ r.id \in replies
      BY <2>3 DEF WasmInv, RepliesPending
    <3> QED
      BY <1>2, <3>1, Zenon
  <2> QED
    BY <2>1, <2>2, <2>3, Zenon DEF RepliesPending
<1>4. AcknowledgedKept'
  BY StillKept, Zenon DEF WasmInv
<1> QED
  BY <1>1, <1>3, <1>4, Zenon DEF WasmInv

(* A message that leaves the event channel goes to the application's queue,*)
(* is ignored by a node that does not participate, or refused by the core. *)
LEMMA FeedMessageKeeps ==
    ASSUME WasmInv, NEW s \in Swarms, FeedMessage(s)
    PROVE  WasmInv'
<1> USE DEF FeedMessage
<1>1. events' \in [Swarms -> Seq(WebMessages)]
  BY DEF WasmInv
<1>2. RequestsOK'
  BY Zenon DEF WasmInv, RequestsOK
<1>3. RepliesPending'
  BY DEF WasmInv, RepliesPending, Ids
<1>4. ASSUME NEW m \in acknowledged,
             NEW t \in Swarms, NEW i \in DOMAIN events[t], events[t][i] = m
      PROVE  \/ m \in rxMessages' \cup ignoredMail' \cup refusedMail'
             \/ \E j \in DOMAIN events'[t] : events'[t][j] = m
  <2>1. CASE t # s
    BY <1>4, <2>1, Zenon DEF WasmInv
  <2>2. CASE t = s /\ i = 1
    BY <1>4, <2>2
  <2>3. CASE t = s /\ i # 1
    <3>1. events[s] \in Seq(WebMessages) /\ events'[s] = Tail(events[s]) /\ i \in 1 .. Len(events[s])
      BY <1>4, <2>3 DEF WasmInv
    <3>2. i - 1 \in DOMAIN Tail(events[s]) /\ Tail(events[s])[i - 1] = events[s][i]
      BY <2>3, <3>1
    <3> QED
      BY <1>4, <2>3, <3>1, <3>2, Zenon
  <2> QED
    BY <2>1, <2>2, <2>3, Zenon
<1>5. /\ UNCHANGED <<feeds, acknowledged, webCustody>> /\ feeds \in SUBSET Swarms
      /\ rxMessages \cup ignoredMail \cup refusedMail
            \subseteq rxMessages' \cup ignoredMail' \cup refusedMail'
  BY Zenon DEF WasmInv, dropVars
<1>6. AcknowledgedKept'
  BY <1>4, <1>5 DEF WasmInv, AcknowledgedKept
<1> QED
  BY <1>1, <1>2, <1>3, <1>6, Zenon DEF WasmInv

(* An event loop ends only when its channel is empty.                      *)
LEMMA FeedEndsKeeps ==
    ASSUME WasmInv, NEW s \in Swarms, FeedEnds(s)
    PROVE  WasmInv'
<1> USE DEF FeedEnds
<1>1. RequestsOK'
  BY Zenon DEF WasmInv, RequestsOK
<1>2. RepliesPending'
  BY DEF WasmInv, RepliesPending, Ids
<1>3. \A i \in DOMAIN events[s] : FALSE
  OBVIOUS
<1>4. AcknowledgedKept'
  BY <1>3, Zenon DEF WasmInv, AcknowledgedKept, dropVars
<1> QED
  BY <1>1, <1>2, <1>4, Zenon DEF WasmInv

(* A message that is acknowledged is in the event channel first.           *)
LEMMA ReceiveRequestKeeps ==
    ASSUME WasmInv, NEW s \in Swarms, NEW m \in WebMessages, ReceiveRequest(s, m)
    PROVE  WasmInv'
<1> USE DEF ReceiveRequest
<1>1. events' \in [Swarms -> Seq(WebMessages)]
  BY DEF WasmInv
<1>2. RequestsOK'
  BY Zenon DEF WasmInv, RequestsOK
<1>3. RepliesPending'
  BY DEF WasmInv, RepliesPending, Ids
<1>4. events[s] \in Seq(WebMessages) /\ events'[s] = Append(events[s], m)
  BY Zenon DEF WasmInv
<1>5. \E i \in DOMAIN events'[s] : events'[s][i] = m
  BY <1>4
<1>6. ASSUME NEW t \in Swarms, NEW i \in DOMAIN events[t]
      PROVE  i \in DOMAIN events'[t] /\ events'[t][i] = events[t][i]
  <2>1. CASE t = s
    BY <1>4, <1>6, <2>1
  <2>2. CASE t # s
    BY <2>2, <1>6, Zenon DEF WasmInv
  <2> QED
    BY <2>1, <2>2, Zenon
<1>7. AcknowledgedKept'
  <2>1. s \in feeds /\ feeds \in SUBSET Swarms
    BY Zenon DEF WasmInv
  <2> QED
    BY <1>5, <1>6, <2>1 DEF WasmInv, AcknowledgedKept, dropVars
<1> QED
  BY <1>1, <1>2, <1>3, <1>7, Zenon DEF WasmInv


(* Requests that are sent with new ids are told apart, and their replies   *)
(* are awaited.                                                            *)
LEMMA RequestsSent ==
    ASSUME WasmInv, NEW sent \in SUBSET WebRequests,
           \A q, r \in sent : q.id = r.id => q = r, \A r \in sent : r.id >= NextId,
           webInFlight' = webInFlight \cup sent, replies' = replies \cup {r.id : r \in sent},
           \/ callers' = callers
           \/ /\ callers' = callers \cup {r.id : r \in sent}
              /\ \A r \in sent : r.kind \notin RelayedMessages
    PROVE  RequestsOK' /\ callers' \subseteq replies' /\ replies' \subseteq Ids'
<1>1. \A r \in sent : r.id \notin callers /\ \A q \in webInFlight : q.id # r.id
  <2>1. NextId \in Nat /\ \A i \in Ids : i \in Nat /\ i < NextId
    BY NextIdFresh DEF WasmInv, RequestsOK, WebRequests, Ids
  <2>2. callers \subseteq Ids /\ \A q \in webInFlight : q.id \in Ids
    BY Zenon DEF WasmInv, RepliesPending, Ids
  <2>3. \A r \in sent : r.id \in Nat /\ r.id >= NextId
    BY DEF WebRequests
  <2> QED
    BY <2>1, <2>2, <2>3
<1>2. webInFlight' \subseteq WebRequests
  BY Zenon DEF WasmInv, RequestsOK
<1>3. \A q, r \in webInFlight' : q.id = r.id => q = r
  BY <1>1, Zenon DEF WasmInv, RequestsOK
<1>4. ASSUME NEW r \in webInFlight', r.id \in callers'
      PROVE  r.kind \notin RelayedMessages
  <2>1. CASE r \in webInFlight
    <3>1. r.id \in callers
      <4>1. ASSUME NEW q \in sent PROVE q.id # r.id
        BY <1>1, <2>1, Zenon
      <4>2. r.id \in callers \cup {q.id : q \in sent}
        BY <1>4, Zenon
      <4> QED
        BY <4>1, <4>2, Zenon
    <3> QED
      BY <2>1, <3>1, Zenon DEF WasmInv, RequestsOK
  <2>2. CASE r \in sent
    BY <1>1, <1>4, <2>2, Zenon
  <2> QED
    BY <2>1, <2>2, Zenon
<1>5. callers' \subseteq replies' /\ replies' \subseteq Ids'
  BY DEF WasmInv, RepliesPending, Ids
<1> QED
  BY <1>2, <1>3, <1>4, <1>5, Zenon DEF RequestsOK

(* A call of the application waits for a request with an id of its own.    *)
LEMMA CallSwarmKeeps ==
    ASSUME WasmInv, NEW kind \in CallKinds, NEW p \in WebPeers, CallSwarm(kind, p)
    PROVE  WasmInv'
<1> DEFINE new == [id |-> NextId, swarm |-> webHandle, kind |-> kind, peer |-> p]
<1>1. NextId \in 1 .. MaxWebCalls
  BY NextIdFresh, WasmAssumption DEF WasmInv, CallSwarm
<1>2. webHandle \in Swarms /\ webHandle <= swarmsMade
  BY WasmAssumption DEF WasmInv, CallSwarm, Swarms
<1>3. new \in WebRequests /\ new.id = NextId /\ new.kind = kind /\ new.swarm = webHandle
  BY <1>1, <1>2, Zenon DEF WebRequests
<1>4. kind \notin RelayedMessages
  BY WasmAssumption, Zenon
<1>5. /\ webInFlight' = webInFlight \cup {new} /\ replies' = replies \cup {new.id}
      /\ callers' = callers \cup {new.id}
  BY Zenon DEF CallSwarm
<1> HIDE DEF new
<1>6. RequestsOK' /\ callers' \subseteq replies' /\ replies' \subseteq Ids'
  <2> DEFINE sent == {new}
  <2>1. sent \in SUBSET WebRequests /\ \A q, r \in sent : q.id = r.id => q = r
    BY <1>3, Zenon
  <2>2. {r.id : r \in sent} = {new.id} /\ \A r \in sent : r.id >= NextId
    BY <1>1, <1>3
  <2>3. \A r \in sent : r.kind \notin RelayedMessages
    BY <1>3, <1>4, Zenon
  <2>4. /\ webInFlight' = webInFlight \cup sent /\ replies' = replies \cup {r.id : r \in sent}
        /\ callers' = callers \cup {r.id : r \in sent}
    BY <1>5, <2>2, Zenon
  <2> HIDE DEF sent
  <2> QED
    BY <2>1, <2>2, <2>3, <2>4, RequestsSent, Zenon
<1>7. RepliesPending'
  BY <1>5, <1>6 DEF WasmInv, RepliesPending, CallSwarm
<1>8. AcknowledgedKept'
  BY StillKept, Zenon DEF WasmInv, CallSwarm
<1>9. \A r \in webInFlight' : r.swarm <= swarmsMade'
  BY <1>2, <1>3, <1>5, Zenon DEF WasmInv, CallSwarm
<1> QED
  BY <1>6, <1>7, <1>8, <1>9, Zenon DEF WasmInv, CallSwarm

(* A request that ends, with the reply it had: no other loses its own.     *)
LEMMA OutcomeKeeps ==
    ASSUME WasmInv, NEW r \in webInFlight, NEW ok \in BOOLEAN, Outcome(r, ok),
           UNCHANGED <<swarmsMade, loops, events, rxMessages, acknowledged, feeds, dropVars>>
    PROVE  WasmInv'
<1>1. r.swarm \in Swarms /\ r.swarm <= swarmsMade
  BY Zenon DEF WasmInv, RequestsOK, WebRequests
<1>2. /\ webCustody' \in [Swarms -> [RelayedMessages -> CustodyStates]]
      /\ \A s \in Swarms, m \in RelayedMessages :
            webCustody'[s][m] # webCustody[s][m] =>
               /\ s = r.swarm /\ m = r.kind /\ webCustody'[s][m] \in {"accepted", "delivered"}
      /\ r.id \in replies /\ r.kind \in RelayedMessages =>
            webCustody'[r.swarm][r.kind] \in {"accepted", "delivered"}
  BY <1>1, Zenon DEF WasmInv, Outcome, CustodyStates
<1>3. \A s \in Swarms : s > swarmsMade =>
         \A m \in RelayedMessages : webCustody'[s][m] = "absent"
  BY <1>1, <1>2 DEF WasmInv, Swarms
<1>4. RequestsOK'
  BY Zenon DEF WasmInv, RequestsOK, Outcome
<1>5. \A q \in webInFlight : q # r => q \in webInFlight' /\ (q.id \in replies => q.id \in replies')
  BY Zenon DEF WasmInv, RequestsOK, Outcome
<1>6. callers' \subseteq replies' /\ replies' \subseteq Ids'
  BY <1>5 DEF WasmInv, RepliesPending, Outcome, Ids
<1>7. ASSUME NEW s \in loops, NEW m \in RelayedMessages, webCustody'[s][m] = "dispatching"
      PROVE  \E q \in webInFlight' : q.swarm = s /\ q.kind = m /\ q.id \in replies'
  <2>0. s \in Swarms
    BY LoopsAreSwarms, Zenon
  <2>1. webCustody[s][m] = "dispatching"
    BY <1>2, <1>7, <2>0, Zenon
  <2>2. PICK q \in webInFlight : q.swarm = s /\ q.kind = m /\ q.id \in replies
    BY <2>1 DEF WasmInv, RepliesPending
  <2>3. q # r
    BY <1>2, <1>7, <2>2, Zenon
  <2> QED
    BY <1>5, <2>2, <2>3, Zenon
<1>8. AcknowledgedKept'
  BY <1>2, StillKept, Zenon DEF WasmInv
<1> QED
  BY <1>2, <1>3, <1>4, <1>6, <1>7, <1>8, Zenon DEF WasmInv, RepliesPending, Outcome

(* Custody messages are dispatched with ids of their own.                  *)
LEMMA CustodyDispatchedKeeps ==
    ASSUME WasmInv, NEW s \in loops, NEW p \in WebPeers, CustodyDispatched(s, p),
           UNCHANGED <<swarmsMade, loops, callers, events, rxMessages, acknowledged, feeds, dropVars>>
    PROVE  WasmInv'
<1> DEFINE due == {m \in RelayedMessages : webCustody[s][m] = "accepted"}
<1>1. PICK f \in [due -> NextId .. MaxWebCalls] :
         /\ \A m, n \in due : m # n => f[m] # f[n]
         /\ webInFlight' = webInFlight \cup
               {[id |-> f[m], swarm |-> s, kind |-> m, peer |-> p] : m \in due}
         /\ replies' = replies \cup {f[m] : m \in due}
  BY Zenon DEF CustodyDispatched
<1> DEFINE new(m) == [id |-> f[m], swarm |-> s, kind |-> m, peer |-> p]
           sent == {new(m) : m \in due}
<1>2. s \in Swarms /\ s <= swarmsMade
  BY LoopsAreSwarms, Zenon
<1>3. NextId \in Nat \ {0}
  BY NextIdFresh, Zenon DEF WasmInv
<1>4. ASSUME NEW m \in due
      PROVE  /\ new(m) \in WebRequests /\ new(m).id = f[m] /\ new(m).swarm = s /\ new(m).kind = m
             /\ f[m] >= NextId
  <2>1. f[m] \in 1 .. MaxWebCalls /\ f[m] >= NextId
    BY <1>1, <1>3, WasmAssumption
  <2> QED
    BY <1>2, <2>1, Zenon DEF WebRequests
<1> HIDE DEF new
<1>5. webInFlight' = webInFlight \cup sent /\ replies' = replies \cup {r.id : r \in sent}
  <2>1. \A m \in due : new(m).id = f[m]
    BY <1>4, Zenon
  <2>2. {r.id : r \in sent} = {new(m).id : m \in due}
    BY Zenon
  <2>3. {new(m).id : m \in due} = {f[m] : m \in due}
    BY <2>1, Zenon
  <2> QED
    BY <1>1, <2>2, <2>3, Zenon DEF new
<1>6. RequestsOK' /\ callers' \subseteq replies' /\ replies' \subseteq Ids'
  <2>1. sent \in SUBSET WebRequests /\ \A r \in sent : r.id >= NextId
    BY <1>4, ZenonT(40)
  <2>2. ASSUME NEW q \in sent, NEW r \in sent, q.id = r.id PROVE q = r
    <3>1. PICK m, n \in due : q = new(m) /\ r = new(n)
      BY Zenon
    <3>2. f[m] = f[n]
      BY <1>4, <2>2, <3>1, Zenon
    <3>3. m = n
      BY <1>1, <3>2, Zenon
    <3> QED
      BY <3>1, <3>3, Zenon
  <2> HIDE DEF sent
  <2> QED
    BY <1>5, <2>1, <2>2, RequestsSent, Zenon
<1>7. /\ webCustody' \in [Swarms -> [RelayedMessages -> CustodyStates]]
      /\ \A t \in Swarms, m \in RelayedMessages :
            webCustody'[t][m] # webCustody[t][m] =>
               t = s /\ m \in due /\ webCustody'[t][m] = "dispatching"
  BY <1>2 DEF WasmInv, CustodyDispatched, CustodyStates
<1>8. \A t \in Swarms : t > swarmsMade =>
         \A m \in RelayedMessages : webCustody'[t][m] = "absent"
  BY <1>2, <1>7 DEF WasmInv, Swarms
<1>9. ASSUME NEW t \in loops, NEW m \in RelayedMessages, webCustody'[t][m] = "dispatching"
      PROVE  \E q \in webInFlight' : q.swarm = t /\ q.kind = m /\ q.id \in replies'
  <2>1. t \in Swarms
    BY LoopsAreSwarms, Zenon
  <2>2. CASE webCustody[t][m] = "dispatching"
    BY <1>5, <2>2 DEF WasmInv, RepliesPending
  <2>3. CASE webCustody[t][m] # "dispatching"
    <3>1. t = s /\ m \in due
      BY <1>7, <1>9, <2>1, <2>3, Zenon
    <3>2. new(m) \in sent
      BY <3>1, Zenon
    <3> HIDE DEF sent
    <3>3. new(m) \in webInFlight' /\ new(m).id \in replies'
      BY <1>5, <3>2, Zenon
    <3> QED
      BY <1>4, <3>1, <3>3, Zenon
  <2> QED
    BY <2>2, <2>3, Zenon
<1>10. AcknowledgedKept'
  BY <1>7, StillKept, Zenon DEF WasmInv
<1>11. \A r \in webInFlight' : r.swarm <= swarmsMade
  BY <1>2, <1>4, <1>5 DEF WasmInv
<1> QED
  BY <1>6, <1>7, <1>8, <1>9, <1>10, <1>11, Zenon DEF WasmInv, RepliesPending


(* A closed connection takes the replies of the dispatches to its peer,    *)
(* whose messages are due again.                                           *)
LEMMA WebPeerClosesKeeps ==
    ASSUME WasmInv, NEW s \in Swarms, NEW p \in WebPeers, WebPeerCloses(s, p)
    PROVE  WasmInv'
<1> DEFINE stale == {r \in webInFlight : r.swarm = s /\ r.peer = p /\ r.kind \in RelayedMessages
                                           /\ r.id \in replies}
<1>1. /\ replies' = replies \ {r.id : r \in stale} /\ s \in loops
      /\ webCustody' = [webCustody EXCEPT ![s] = [m \in RelayedMessages |->
                           IF \E r \in stale : r.kind = m THEN "accepted" ELSE @[m]]]
      /\ UNCHANGED <<swarmsMade, loops, webInFlight, callers, events, rxMessages,
                     acknowledged, feeds, dropVars>>
  BY Zenon DEF WebPeerCloses
<1>2. stale \subseteq webInFlight /\ \A r \in stale : r.swarm = s /\ r.kind \in RelayedMessages
  BY Zenon
<1> HIDE DEF stale
<1>3. \A r \in webInFlight : r \notin stale /\ r.id \in replies => r.id \in replies'
  BY <1>1, <1>2, Zenon DEF WasmInv, RequestsOK
<1>4. s <= swarmsMade
  <2>1. s \in loops
    BY <1>1, Zenon
  <2> QED
    BY <2>1 DEF WasmInv
<1>5. /\ webCustody' \in [Swarms -> [RelayedMessages -> CustodyStates]]
      /\ \A t \in Swarms, m \in RelayedMessages :
            webCustody'[t][m] # webCustody[t][m] => t = s /\ webCustody'[t][m] = "accepted"
      /\ \A r \in stale : webCustody'[s][r.kind] = "accepted"
  <2> DEFINE c == [m \in RelayedMessages |->
                      IF \E r \in stale : r.kind = m THEN "accepted" ELSE webCustody[s][m]]
  <2>1. /\ c \in [RelayedMessages -> CustodyStates] /\ \A r \in stale : c[r.kind] = "accepted"
        /\ \A m \in RelayedMessages : c[m] # webCustody[s][m] => c[m] = "accepted"
    BY <1>2 DEF WasmInv, CustodyStates
  <2>2. webCustody' = [webCustody EXCEPT ![s] = c]
    BY <1>1, Zenon
  <2> HIDE DEF c
  <2> QED
    BY <2>1, <2>2, Zenon DEF WasmInv
<1>6. \A t \in Swarms : t > swarmsMade =>
         \A m \in RelayedMessages : webCustody'[t][m] = "absent"
  BY <1>4, <1>5 DEF WasmInv, Swarms
<1>7. RequestsOK'
  BY <1>1, Zenon DEF WasmInv, RequestsOK
<1>8. callers' \subseteq replies' /\ replies' \subseteq Ids'
  <2>1. \A i \in callers : \E r \in webInFlight : r.id = i /\ r.id \in replies
    BY DEF WasmInv, RepliesPending, Ids
  <2>2. \A r \in webInFlight : r.id \in callers => r \notin stale
    BY <1>2, Zenon DEF WasmInv, RequestsOK
  <2> QED
    BY <1>1, <1>3, <2>1, <2>2 DEF WasmInv, RepliesPending, Ids
<1>9. ASSUME NEW t \in loops, NEW m \in RelayedMessages, webCustody'[t][m] = "dispatching"
      PROVE  \E q \in webInFlight' : q.swarm = t /\ q.kind = m /\ q.id \in replies'
  <2>1. t \in Swarms
    BY LoopsAreSwarms, Zenon
  <2>2. webCustody[t][m] = "dispatching"
    BY <1>5, <1>9, <2>1, Zenon
  <2>3. PICK q \in webInFlight : q.swarm = t /\ q.kind = m /\ q.id \in replies
    BY <2>2 DEF WasmInv, RepliesPending
  <2>4. q \notin stale
    BY <1>2, <1>5, <1>9, <2>3, Zenon
  <2> QED
    BY <1>1, <1>3, <2>3, <2>4, Zenon
<1>10. AcknowledgedKept'
  BY <1>1, <1>5, StillKept, Zenon DEF WasmInv
<1> QED
  BY <1>1, <1>5, <1>6, <1>7, <1>8, <1>9, <1>10, Zenon DEF WasmInv, RepliesPending

(* A marker ends the dispatches of its message.                            *)
LEMMA MarkerGossipedKeeps ==
    ASSUME WasmInv, NEW s \in Swarms, NEW m \in RelayedMessages, MarkerGossiped(s, m)
    PROVE  WasmInv'
<1> DEFINE ended == {q \in webInFlight : q.swarm = s /\ q.kind = m}
<1>1. /\ replies' = replies \ {r.id : r \in ended} /\ s \in loops
      /\ webCustody' = [webCustody EXCEPT ![s][m] = "delivered"]
      /\ UNCHANGED <<swarmsMade, loops, webInFlight, callers, events, rxMessages,
                     acknowledged, feeds, dropVars>>
  BY Zenon DEF MarkerGossiped
<1>2. ended \subseteq webInFlight /\ \A r \in ended : r.swarm = s /\ r.kind = m
  BY Zenon
<1> HIDE DEF ended
<1>3. \A r \in webInFlight : r \notin ended /\ r.id \in replies => r.id \in replies'
  BY <1>1, <1>2, Zenon DEF WasmInv, RequestsOK
<1>4. s <= swarmsMade
  BY <1>1, LoopsAreSwarms, Zenon
<1>5. /\ webCustody' \in [Swarms -> [RelayedMessages -> CustodyStates]]
      /\ \A t \in Swarms, n \in RelayedMessages :
            webCustody'[t][n] # webCustody[t][n] => t = s /\ webCustody'[t][n] = "delivered"
      /\ webCustody'[s][m] = "delivered"
  BY <1>1, Zenon DEF WasmInv, CustodyStates
<1>6. \A t \in Swarms : t > swarmsMade =>
         \A n \in RelayedMessages : webCustody'[t][n] = "absent"
  BY <1>4, <1>5 DEF WasmInv, Swarms
<1>7. RequestsOK'
  BY <1>1, Zenon DEF WasmInv, RequestsOK
<1>8. callers' \subseteq replies' /\ replies' \subseteq Ids'
  <2>1. \A i \in callers : \E r \in webInFlight : r.id = i /\ r.id \in replies
    BY DEF WasmInv, RepliesPending, Ids
  <2>2. \A r \in webInFlight : r.id \in callers => r \notin ended
    BY <1>2, Zenon DEF WasmInv, RequestsOK
  <2> QED
    BY <1>1, <1>3, <2>1, <2>2 DEF WasmInv, RepliesPending, Ids
<1>9. ASSUME NEW t \in loops, NEW n \in RelayedMessages, webCustody'[t][n] = "dispatching"
      PROVE  \E q \in webInFlight' : q.swarm = t /\ q.kind = n /\ q.id \in replies'
  <2>1. t \in Swarms
    BY LoopsAreSwarms, Zenon
  <2>2. webCustody[t][n] = "dispatching"
    BY <1>5, <1>9, <2>1, Zenon
  <2>3. PICK q \in webInFlight : q.swarm = t /\ q.kind = n /\ q.id \in replies
    BY <2>2 DEF WasmInv, RepliesPending
  <2>4. q \notin ended
    BY <1>2, <1>5, <1>9, <2>3, Zenon
  <2> QED
    BY <1>1, <1>3, <2>3, <2>4, Zenon
<1>10. AcknowledgedKept'
  BY <1>1, <1>5, StillKept, Zenon DEF WasmInv
<1> QED
  BY <1>1, <1>5, <1>6, <1>7, <1>8, <1>9, <1>10, Zenon DEF WasmInv, RepliesPending


(* A relay request is answered once its message is in custody, and a       *)
(* request of its own dispatches it at once when the destination is there. *)
LEMMA RelayRequestedKeeps ==
    ASSUME WasmInv, NEW s \in Swarms, NEW m \in RelayedMessages, NEW p \in WebPeers,
           RelayRequested(s, m, p)
    PROVE  WasmInv'
<1> DEFINE new == [id |-> NextId, swarm |-> s, kind |-> m, peer |-> p]
<1>1. /\ acknowledged' = acknowledged \cup {m} /\ s \in loops
      /\ UNCHANGED <<swarmsMade, loops, callers, events, rxMessages, feeds, dropVars>>
      /\ \/ /\ webInFlight' = webInFlight \cup {new} /\ replies' = replies \cup {NextId}
            /\ webCustody' = [webCustody EXCEPT ![s][m] = "dispatching"]
            /\ NextId <= MaxWebCalls
         \/ /\ webCustody' = [webCustody EXCEPT ![s][m] = "accepted"]
            /\ UNCHANGED <<webInFlight, replies>>
  BY Zenon DEF RelayRequested
<1>2. s <= swarmsMade
  <2>1. s \in loops
    BY <1>1, Zenon
  <2> QED
    BY <2>1 DEF WasmInv
<1>3. /\ webCustody' \in [Swarms -> [RelayedMessages -> CustodyStates]]
      /\ \A t \in Swarms, n \in RelayedMessages :
            webCustody'[t][n] # webCustody[t][n] => t = s /\ n = m
      /\ webCustody'[s][m] \in {"accepted", "dispatching"}
  <2>1. ASSUME NEW c \in CustodyStates \ {"absent"}, webCustody' = [webCustody EXCEPT ![s][m] = c]
        PROVE  /\ webCustody' \in [Swarms -> [RelayedMessages -> CustodyStates]]
               /\ \A t \in Swarms, n \in RelayedMessages :
                     webCustody'[t][n] # webCustody[t][n] => t = s /\ n = m
               /\ webCustody'[s][m] = c
    BY <2>1, Zenon DEF WasmInv
  <2> QED
    BY <1>1, <2>1, Zenon DEF CustodyStates
<1>4. \A t \in Swarms : t > swarmsMade =>
         \A n \in RelayedMessages : webCustody'[t][n] = "absent"
  BY <1>2, <1>3 DEF WasmInv, Swarms
<1>5. AcknowledgedKept'
  <2>1. \A t \in Swarms, n \in RelayedMessages :
           webCustody[t][n] # "absent" => webCustody'[t][n] # "absent"
    BY <1>3, Zenon
  <2>2. webCustody'[s][m] # "absent"
    BY <1>3, Zenon
  <2>3. acknowledged' = acknowledged \cup {m} /\ UNCHANGED <<events, rxMessages, feeds, dropVars>>
    BY <1>1, Zenon
  <2> QED
    BY <2>1, <2>2, <2>3, Zenon DEF WasmInv, AcknowledgedKept, dropVars
<1>6. CASE UNCHANGED <<webInFlight, replies>>
  <2>1. webCustody' = [webCustody EXCEPT ![s][m] = "accepted"]
    <3>1. NextId \notin replies \/ NextId > MaxWebCalls
      <4>1. NextId \in Nat /\ \A i \in Ids : i < NextId /\ i \in Nat
        BY NextIdFresh DEF WasmInv, RequestsOK, WebRequests, Ids
      <4> QED
        BY <4>1 DEF WasmInv, RepliesPending
    <3>2. NextId \in Nat
      BY NextIdFresh, Zenon DEF WasmInv
    <3> QED
      BY <1>1, <1>6, <3>1, <3>2, WasmAssumption
  <2>2. RequestsOK'
    BY <1>1, <1>6, Zenon DEF WasmInv, RequestsOK
  <2>3. webCustody'[s][m] # "dispatching"
    BY <2>1, Zenon DEF WasmInv
  <2>4. ASSUME NEW t \in loops, NEW n \in RelayedMessages, webCustody'[t][n] = "dispatching"
        PROVE  webCustody[t][n] = "dispatching"
    <3>1. t \in Swarms
      BY LoopsAreSwarms, Zenon
    <3> QED
      BY <1>3, <2>3, <2>4, <3>1, Zenon
  <2>5. RepliesPending'
    <3>1. UNCHANGED <<loops, callers, webInFlight, replies>>
      BY <1>1, <1>6, Zenon
    <3> QED
      BY <2>4, <3>1 DEF WasmInv, RepliesPending, Ids
  <2> QED
    BY <1>1, <1>3, <1>4, <1>5, <1>6, <2>2, <2>5, Zenon DEF WasmInv
<1>7. CASE ~UNCHANGED <<webInFlight, replies>>
  <2>1. /\ webInFlight' = webInFlight \cup {new} /\ replies' = replies \cup {NextId}
        /\ NextId <= MaxWebCalls
    BY <1>1, <1>7, Zenon
  <2>2. NextId \in 1 .. MaxWebCalls
    BY <2>1, NextIdFresh, WasmAssumption DEF WasmInv
  <2>3. new \in WebRequests /\ new.id = NextId /\ new.kind = m /\ new.swarm = s
    BY <2>2, Zenon DEF WebRequests
  <2> HIDE DEF new
  <2>4. RequestsOK' /\ callers' \subseteq replies' /\ replies' \subseteq Ids'
    <3> DEFINE sent == {new}
    <3>1. sent \in SUBSET WebRequests /\ \A q, r \in sent : q.id = r.id => q = r
      BY <2>3, Zenon
    <3>2. {r.id : r \in sent} = {NextId} /\ \A r \in sent : r.id >= NextId
      BY <2>2, <2>3
    <3>3. webInFlight' = webInFlight \cup sent /\ replies' = replies \cup {r.id : r \in sent}
      BY <2>1, <3>2, Zenon
    <3>4. callers' = callers
      BY <1>1, Zenon
    <3> HIDE DEF sent
    <3> QED
      BY <3>1, <3>2, <3>3, <3>4, RequestsSent, Zenon
  <2>5. ASSUME NEW t \in loops, NEW n \in RelayedMessages, webCustody'[t][n] = "dispatching"
        PROVE  \E q \in webInFlight' : q.swarm = t /\ q.kind = n /\ q.id \in replies'
    <3>1. CASE t = s /\ n = m
      BY <2>1, <2>3, <3>1, Zenon
    <3>2. CASE ~(t = s /\ n = m)
      <4>1. t \in Swarms
        BY LoopsAreSwarms, Zenon
      <4>2. webCustody[t][n] = "dispatching"
        BY <1>3, <2>5, <3>2, <4>1, Zenon
      <4> QED
        BY <2>1, <4>2 DEF WasmInv, RepliesPending
    <3> QED
      BY <3>1, <3>2, Zenon
  <2>6. \A r \in webInFlight' : r.swarm <= swarmsMade
    BY <1>2, <2>1, <2>3, Zenon DEF WasmInv
  <2> QED
    BY <1>1, <1>3, <1>4, <1>5, <2>4, <2>5, <2>6, Zenon DEF WasmInv, RepliesPending
<1> QED
  BY <1>6, <1>7, Zenon

(* Every step of the browser's node keeps its calls and its messages.      *)
LEMMA WasmKept == WasmInv /\ [WasmNext]_wasmVars => WasmInv'
<1> SUFFICES ASSUME WasmInv, [WasmNext]_wasmVars
             PROVE  WasmInv'
  BY Zenon
<1>1. ASSUME UNCHANGED <<swarmsMade, loops, webInFlight, replies, callers, webCustody, events,
                         rxMessages, acknowledged, feeds, dropVars>>
      PROVE  WasmInv'
  BY <1>1 DEF WasmInv, RequestsOK, RepliesPending, AcknowledgedKept, Ids, dropVars
<1>2. CASE UNCHANGED wasmVars
  BY <1>1, <1>2, Zenon DEF wasmVars
<1>3. CASE StopRuntime \/ \E on \in BOOLEAN : UpdateWebSettings(on)
  BY <1>1, <1>3, Zenon DEF StopRuntime, UpdateWebSettings
<1>4. ASSUME NEW r \in webInFlight, OutboundFailure(r) \/ \E ok \in BOOLEAN : Respond(r, ok)
      PROVE  WasmInv'
  BY <1>4, OutcomeKeeps, Zenon DEF OutboundFailure, Respond
<1>5. ASSUME NEW s \in Swarms, NEW p \in WebPeers, WebPeerConnects(s, p) \/ PullCustody(s, p)
      PROVE  WasmInv'
  BY <1>5, CustodyDispatchedKeeps, Zenon DEF WebPeerConnects, PullCustody
<1> QED
  BY <1>2, <1>3, <1>4, <1>5, StartRuntimeKeeps, CallSwarmKeeps, LoopEndsKeeps, FeedMessageKeeps,
     FeedEndsKeeps,
     WebPeerClosesKeeps, ReceiveRequestKeeps, MarkerGossipedKeeps, RelayRequestedKeeps, Zenon
     DEF WasmNext

-----------------------------------------------------------------------------
(* The bootstrap connections.                                              *)

(* The pause after so many failures in a row.                              *)
Pause(k) == IF 2^k > BACKOFF_MAX THEN BACKOFF_MAX ELSE 2^k

(* An address that takes the blame for its own failures.                   *)
BlamesItself(i) == Blamed(i) = {i}

(* The backoff of such an address reaches past its last failure by the     *)
(* pause that its failures in a row call for.                              *)
BackoffOK(backoff, run, failed) ==
    /\ backoff \in [Boots -> [wait : Nat, next : Nat]]
    /\ \A i \in Boots : backoff[i].wait = 0 => backoff[i] = NoBackoff
    /\ \A i \in Boots : BlamesItself(i) /\ run[i] > 0 =>
          /\ backoff[i].wait >= Pause(run[i])
          /\ backoff[i].next >= failed[i] + Pause(run[i])

(* An address under dial was dialled after that pause.                     *)
DialsOK(dials, dialled, run, failed) ==
    /\ dials \subseteq Boots /\ dialled \in [Boots -> Nat]
    /\ \A i \in dials : BlamesItself(i) /\ run[i] > 0 => dialled[i] >= failed[i] + Pause(run[i])

(* Failures are counted and none lies in the future.                       *)
RunsOK(run, failed) ==
    /\ run \in [Boots -> Nat] /\ failed \in [Boots -> Nat]
    /\ \A i \in Boots : failed[i] <= browseNow

(* What every step keeps of the bootstrap connections.                     *)
BrowseInv ==
    /\ browseNow \in Nat /\ redialAt \in Nat
    /\ RunsOK(failRun, failedAt) /\ BackoffOK(bootBackoff, failRun, failedAt)
    /\ DialsOK(bootDials, dialledAt, failRun, failedAt)
    /\ bootConns \in [BootPeers -> Nat] /\ ledgersSent \in [BootPeers -> Nat]
    /\ metPeers \ shownPeers \subseteq partedFrom
    /\ \A p \in BootPeers : p \in metPeers \/ bootConns[p] = 0
    /\ \A p \in shownPeers : p \in BootPeers /\ bootConns[p] > 0
    /\ \A p \in BootPeers : ledgersSent[p] = 0 \/ (ledgersSent[p] = 1 /\ p \in webExchanged)

(* A pause is at least a minute, and one failure more at most doubles it.  *)
LEMMA PauseDoubles ==
    ASSUME NEW k \in Nat
    PROVE  /\ Pause(k) \in Nat \ {0} /\ Pause(k) <= BACKOFF_MAX
           /\ Pause(k + 1) \in Nat \ {0} /\ Pause(k + 1) <= 2 * Pause(k)
           /\ Pause(k + 1) <= BACKOFF_MAX
<1> DEFINE a == 2^k
           b == 2^(k + 1)
<1>1. a \in Nat \ {0} /\ b = 2 * a
  BY TwoToThe, Zenon
<1>2. /\ Pause(k) = (IF a > BACKOFF_MAX THEN BACKOFF_MAX ELSE a)
      /\ Pause(k + 1) = (IF b > BACKOFF_MAX THEN BACKOFF_MAX ELSE b)
  BY Zenon DEF Pause
<1> HIDE DEF a, b
<1> QED
  BY <1>1, <1>2, WasmAssumption

(* The first failure makes an address wait two seconds at most.            *)
LEMMA FirstPause == Pause(1) <= 2
<1>1. 2^0 = 1
  OBVIOUS
<1> QED
  BY <1>1, TwoToThe, WasmAssumption DEF Pause

(* A failure doubles the wait of an entry, or leaves it at the maximum.    *)
LEMMA FailureWaits ==
    ASSUME browseNow \in Nat, NEW e \in [wait : Nat, next : Nat], e.wait = 0 => e = NoBackoff
    PROVE  /\ OnFailure(e) \in [wait : Nat, next : Nat] /\ OnFailure(e).wait > 0
           /\ OnFailure(e).next = browseNow + OnFailure(e).wait
           /\ OnFailure(e).wait = BACKOFF_MAX \/ OnFailure(e).wait >= 2 * e.wait
           /\ OnFailure(e).wait = BACKOFF_MAX \/ OnFailure(e).wait >= 2
  BY WasmAssumption DEF OnFailure, NoBackoff

(* A failure of an address that is backing off keeps the pause it has.     *)
LEMMA FailureKeepsPause ==
    ASSUME browseNow \in Nat, NEW e \in [wait : Nat, next : Nat], e.wait = 0 => e = NoBackoff,
           NEW k \in Nat, NEW t \in Nat, t <= browseNow, e.wait >= Pause(k)
    PROVE  /\ OnFailure(e).wait >= Pause(k) /\ OnFailure(e).next >= t + Pause(k)
  <1>1. Pause(k) \in Nat \ {0} /\ Pause(k) <= BACKOFF_MAX
    BY PauseDoubles, Zenon
  <1>2. /\ OnFailure(e).wait \in Nat
        /\ OnFailure(e).next = browseNow + OnFailure(e).wait
        /\ OnFailure(e).wait = BACKOFF_MAX \/ OnFailure(e).wait >= 2 * e.wait
    BY FailureWaits, Zenon
  <1> QED
    BY <1>1, <1>2, WasmAssumption


(* The redial pass dials no address before its backoff has run out.        *)
LEMMA WarmKeeps ==
    ASSUME browseNow \in Nat, redialAt \in Nat, NEW conns, NEW backoff, NEW dials,
           NEW run, NEW failed, RunsOK(run, failed), BackoffOK(backoff, run, failed),
           DialsOK(dials, dialledAt, run, failed), KeepBootstrapWarm(conns, backoff, dials)
    PROVE  /\ redialAt' \in Nat /\ BackoffOK(bootBackoff', run, failed)
           /\ DialsOK(bootDials', dialledAt', run, failed)
<1>1. CASE browseNow - redialAt < 1
  BY <1>1, Zenon DEF KeepBootstrapWarm
<1>2. CASE ~(browseNow - redialAt < 1)
  <2> DEFINE due == {i \in NotSelf : /\ Eligible(backoff[i])
                                     /\ BootAddrs[i].peer \in BootPeers =>
                                           conns[BootAddrs[i].peer] = 0}
  <2>1. PICK rejected \in SUBSET NotSelf :
           /\ rejected \subseteq due
           /\ bootBackoff' = [i \in Boots |-> IF i \in rejected THEN OnFailure(backoff[i])
                                             ELSE backoff[i]]
           /\ bootDials' = dials \cup (due \ rejected)
           /\ dialledAt' = [i \in Boots |-> IF i \in due \ rejected THEN browseNow
                                           ELSE dialledAt[i]]
           /\ redialAt' = browseNow
    BY <1>2, Zenon DEF KeepBootstrapWarm
  <2>2. due \subseteq Boots /\ \A i \in due : browseNow >= backoff[i].next
    BY Zenon DEF NotSelf, Eligible
  <2> HIDE DEF due
  <2>3. ASSUME NEW i \in Boots
        PROVE  /\ OnFailure(backoff[i]) \in [wait : Nat, next : Nat]
               /\ OnFailure(backoff[i]).wait # 0
               /\ BlamesItself(i) /\ run[i] > 0 =>
                     /\ OnFailure(backoff[i]).wait >= Pause(run[i])
                     /\ OnFailure(backoff[i]).next >= failed[i] + Pause(run[i])
    <3>1. /\ backoff[i] \in [wait : Nat, next : Nat] /\ (backoff[i].wait = 0 => backoff[i] = NoBackoff)
          /\ run[i] \in Nat /\ failed[i] \in Nat /\ failed[i] <= browseNow
      BY Zenon DEF BackoffOK, RunsOK
    <3>2. OnFailure(backoff[i]) \in [wait : Nat, next : Nat] /\ OnFailure(backoff[i]).wait > 0
      BY <3>1, FailureWaits, Zenon
    <3>3. ASSUME BlamesItself(i), run[i] > 0
          PROVE  /\ OnFailure(backoff[i]).wait >= Pause(run[i])
                 /\ OnFailure(backoff[i]).next >= failed[i] + Pause(run[i])
      <4>1. backoff[i].wait >= Pause(run[i])
        BY <3>3, Zenon DEF BackoffOK
      <4> QED
        BY <3>1, <4>1, FailureKeepsPause, Zenon
    <3> QED
      BY <3>2, <3>3
  <2>4. BackoffOK(bootBackoff', run, failed)
    BY <2>1, <2>3, Zenon DEF BackoffOK
  <2>5. ASSUME NEW i \in bootDials', BlamesItself(i), run[i] > 0
        PROVE  dialledAt'[i] >= failed[i] + Pause(run[i])
    <3>1. i \in Boots
      BY <2>1, <2>2, Zenon DEF DialsOK
    <3>2. CASE i \in due \ rejected
      <4>1. browseNow >= backoff[i].next /\ backoff[i].next >= failed[i] + Pause(run[i])
        BY <2>2, <2>5, <3>1, <3>2, Zenon DEF BackoffOK
      <4>2. dialledAt'[i] = browseNow /\ backoff[i].next \in Nat
        BY <2>1, <3>1, <3>2, Zenon DEF BackoffOK
      <4>3. run[i] \in Nat /\ failed[i] \in Nat
        BY <3>1, Zenon DEF RunsOK
      <4>4. Pause(run[i]) \in Nat
        BY <4>3, PauseDoubles, Zenon
      <4> QED
        BY <4>1, <4>2, <4>3, <4>4
    <3>3. CASE i \notin due \ rejected
      BY <2>1, <2>5, <3>1, <3>3, Zenon DEF DialsOK
    <3> QED
      BY <3>2, <3>3, Zenon
  <2>6. bootDials' \subseteq Boots /\ dialledAt' \in [Boots -> Nat]
    BY <2>1, <2>2, Zenon DEF DialsOK
  <2> QED
    BY <2>1, <2>4, <2>5, <2>6, Zenon DEF DialsOK
<1> QED
  BY <1>1, <1>2, Zenon

(* No address has failed yet.                                              *)
LEMMA BrowseInitially == BrowseInit => BrowseInv
  BY DEF BrowseInit, BrowseInv, RunsOK, BackoffOK, DialsOK, NoBackoff, NotSelf

(* A connection starts the backoff over, and with it the count.            *)
LEMMA AnsweredKeeps ==
    ASSUME BrowseInv, NEW i \in Boots, BootDialAnswered(i)
    PROVE  BrowseInv'
<1> DEFINE p == BootAddrs[i].at
           hits == FirstBoot({j \in Boots : BootAddrs[j].peer = p})
           held == [bootConns EXCEPT ![p] = @ + 1]
           backoff == [j \in Boots |-> IF j \in hits THEN OnSuccess(bootBackoff[j])
                                       ELSE bootBackoff[j]]
<1>1. p \in BootPeers
  BY Zenon DEF BootPeers
<1>2. /\ bootConns' = held /\ metPeers' = metPeers \cup {p}
      /\ shownPeers' = IF p \in metPeers THEN shownPeers ELSE shownPeers \cup {p}
      /\ failRun' = [j \in Boots |-> IF p \in {BootAddrs[j].at, BootAddrs[j].peer} THEN 0
                                     ELSE failRun[j]]
      /\ UNCHANGED <<browseNow, webExchanged, ledgersSent, failedAt, partedFrom>>
  BY Zenon DEF BootDialAnswered
<1>3. KeepBootstrapWarm(held, backoff, bootDials \ {i})
  BY Zenon DEF BootDialAnswered
<1>4. \A j \in hits : BootAddrs[j].peer = p
  BY Zenon DEF FirstBoot
<1>5. RunsOK(failRun', failedAt)
  BY <1>2, Zenon DEF BrowseInv, RunsOK
<1> HIDE DEF hits
<1>6. BackoffOK(backoff, failRun', failedAt)
  <2>1. ASSUME NEW j \in Boots
        PROVE  /\ OnSuccess(bootBackoff[j]) \in [wait : Nat, next : Nat]
               /\ OnSuccess(bootBackoff[j]).wait = 0 => OnSuccess(bootBackoff[j]) = NoBackoff
    BY DEF BrowseInv, BackoffOK, OnSuccess, NoBackoff
  <2>2. \A j \in hits \cap Boots : failRun'[j] = 0
    BY <1>2, <1>4, Zenon
  <2>3. \A j \in Boots : failRun'[j] > 0 => failRun'[j] = failRun[j] /\ backoff[j] = bootBackoff[j]
    BY <1>2, <2>2
  <2>4. /\ backoff \in [Boots -> [wait : Nat, next : Nat]]
        /\ \A j \in Boots : backoff[j].wait = 0 => backoff[j] = NoBackoff
    BY <2>1, Zenon DEF BrowseInv, BackoffOK
  <2> HIDE DEF backoff
  <2> QED
    BY <2>3, <2>4, Zenon DEF BrowseInv, BackoffOK
<1>7. DialsOK(bootDials \ {i}, dialledAt, failRun', failedAt)
  <2>1. \A j \in Boots : failRun'[j] > 0 => failRun'[j] = failRun[j]
    BY <1>2
  <2> QED
    BY <2>1, Zenon DEF BrowseInv, DialsOK
<1> HIDE DEF backoff
<1>8. /\ redialAt' \in Nat /\ BackoffOK(bootBackoff', failRun', failedAt)
      /\ DialsOK(bootDials', dialledAt', failRun', failedAt)
  BY <1>3, <1>5, <1>6, <1>7, WarmKeeps, Zenon DEF BrowseInv
<1>9. /\ bootConns' \in [BootPeers -> Nat] /\ bootConns'[p] > 0
      /\ \A q \in BootPeers : bootConns'[q] >= bootConns[q] /\ (q # p => bootConns'[q] = bootConns[q])
  BY <1>1, <1>2 DEF BrowseInv
<1>10. /\ metPeers' \ shownPeers' \subseteq partedFrom'
       /\ \A q \in BootPeers : q \in metPeers' \/ bootConns'[q] = 0
       /\ \A q \in shownPeers' : q \in BootPeers /\ bootConns'[q] > 0
  <2>1. \A q \in BootPeers : bootConns[q] \in Nat /\ bootConns'[q] \in Nat
    BY <1>9, Zenon DEF BrowseInv
  <2> HIDE DEF p, held
  <2> QED
    BY <1>1, <1>2, <1>9, <2>1, Zenon DEF BrowseInv
<1> QED
  BY <1>2, <1>5, <1>8, <1>9, <1>10, Zenon DEF BrowseInv, RunsOK, BackoffOK, DialsOK


(* A failed dial is counted, and backs its address off.                    *)
LEMMA FailsKeeps ==
    ASSUME BrowseInv, NEW i \in Boots, BootDialFails(i)
    PROVE  BrowseInv'
<1> DEFINE backoff == [j \in Boots |-> IF j \in Blamed(i) THEN OnFailure(bootBackoff[j])
                                       ELSE bootBackoff[j]]
<1>1. /\ failRun' = [failRun EXCEPT ![i] = @ + 1] /\ failedAt' = [failedAt EXCEPT ![i] = browseNow]
      /\ UNCHANGED <<bootConns, browseNow, metPeers, shownPeers, webExchanged, ledgersSent,
                     partedFrom>>
  BY Zenon DEF BootDialFails
<1>2. KeepBootstrapWarm(bootConns, backoff, bootDials \ {i})
  BY Zenon DEF BootDialFails
<1>3. /\ failRun'[i] = failRun[i] + 1 /\ failedAt'[i] = browseNow
      /\ \A j \in Boots \ {i} : failRun'[j] = failRun[j] /\ failedAt'[j] = failedAt[j]
  BY <1>1, Zenon DEF BrowseInv, RunsOK
<1>4. RunsOK(failRun', failedAt')
  BY <1>1 DEF BrowseInv, RunsOK
<1>5. ASSUME NEW j \in Boots
      PROVE  /\ backoff[j] \in [wait : Nat, next : Nat]
             /\ backoff[j].wait = 0 => backoff[j] = NoBackoff
             /\ BlamesItself(j) /\ failRun'[j] > 0 =>
                   /\ backoff[j].wait >= Pause(failRun'[j])
                   /\ backoff[j].next >= failedAt'[j] + Pause(failRun'[j])
  <2> DEFINE e == bootBackoff[j]
  <2>1. /\ e \in [wait : Nat, next : Nat] /\ (e.wait = 0 => e = NoBackoff) /\ browseNow \in Nat
        /\ failRun[j] \in Nat /\ failedAt[j] \in Nat /\ failedAt[j] <= browseNow
        /\ BlamesItself(j) /\ failRun[j] > 0 =>
              e.wait >= Pause(failRun[j]) /\ e.next >= failedAt[j] + Pause(failRun[j])
    BY Zenon DEF BrowseInv, BackoffOK, RunsOK
  <2>2. backoff[j] = IF j \in Blamed(i) THEN OnFailure(e) ELSE e
    BY Zenon
  <2> HIDE DEF e, backoff
  <2>3. /\ OnFailure(e) \in [wait : Nat, next : Nat] /\ OnFailure(e).wait > 0
        /\ OnFailure(e).next = browseNow + OnFailure(e).wait
        /\ OnFailure(e).wait = BACKOFF_MAX \/ OnFailure(e).wait >= 2 * e.wait
        /\ OnFailure(e).wait = BACKOFF_MAX \/ OnFailure(e).wait >= 2
    BY <2>1, FailureWaits, Zenon
  <2>4. CASE j # i
    <3>1. failRun'[j] = failRun[j] /\ failedAt'[j] = failedAt[j]
      BY <1>3, <2>4, Zenon
    <3>2. ASSUME BlamesItself(j), failRun[j] > 0
          PROVE  OnFailure(e).wait >= Pause(failRun[j]) /\
                 OnFailure(e).next >= failedAt[j] + Pause(failRun[j])
      BY <2>1, <3>2, FailureKeepsPause, Zenon
    <3> QED
      BY <2>1, <2>2, <2>3, <3>1, <3>2
  <2>5. CASE j = i
    <3>1. ASSUME BlamesItself(i)
          PROVE  /\ backoff[i].wait >= Pause(failRun'[i])
                 /\ backoff[i].next >= failedAt'[i] + Pause(failRun'[i])
      <4>1. backoff[i] = OnFailure(e)
        BY <2>2, <2>5, <3>1, Zenon DEF BlamesItself
      <4>2. /\ Pause(failRun[i]) \in Nat /\ Pause(failRun[i] + 1) \in Nat
            /\ Pause(failRun[i] + 1) <= 2 * Pause(failRun[i])
            /\ Pause(failRun[i] + 1) <= BACKOFF_MAX
        BY <2>1, <2>5, PauseDoubles, Zenon
      <4>3. OnFailure(e).wait >= Pause(failRun[i] + 1)
        <5>1. CASE failRun[i] = 0
          BY <2>3, <4>2, <5>1, FirstPause, WasmAssumption
        <5>2. CASE failRun[i] > 0
          <6>1. e.wait >= Pause(failRun[i]) /\ e.wait \in Nat /\ OnFailure(e).wait \in Nat
            BY <2>1, <2>3, <2>5, <3>1, <5>2, Zenon
          <6> QED
            BY <2>3, <4>2, <6>1, WasmAssumption
        <5> QED
          BY <2>1, <2>5, <5>1, <5>2
      <4> QED
        BY <1>3, <2>1, <2>3, <4>1, <4>2, <4>3
    <3> QED
      BY <2>1, <2>2, <2>3, <2>5, <3>1
  <2> QED
    BY <2>4, <2>5, Zenon
<1>6. BackoffOK(backoff, failRun', failedAt')
  <2>1. backoff = [j \in Boots |-> backoff[j]]
    BY Zenon
  <2> HIDE DEF backoff
  <2> QED
    BY <1>5, <2>1, Zenon DEF BackoffOK
<1>7. DialsOK(bootDials \ {i}, dialledAt, failRun', failedAt')
  BY <1>3, Zenon DEF BrowseInv, DialsOK
<1> HIDE DEF backoff
<1>8. /\ redialAt' \in Nat /\ BackoffOK(bootBackoff', failRun', failedAt')
      /\ DialsOK(bootDials', dialledAt', failRun', failedAt')
  BY <1>2, <1>4, <1>6, <1>7, WarmKeeps, Zenon DEF BrowseInv
<1> QED
  BY <1>1, <1>4, <1>8, Zenon DEF BrowseInv, RunsOK, BackoffOK, DialsOK

(* The redial pass that ends the other events.                             *)
LEMMA WarmAfter ==
    ASSUME BrowseInv, NEW conns, NEW backoff, BackoffOK(backoff, failRun, failedAt),
           KeepBootstrapWarm(conns, backoff, bootDials), UNCHANGED <<failRun, failedAt, browseNow>>
    PROVE  /\ browseNow' \in Nat /\ redialAt' \in Nat /\ RunsOK(failRun, failedAt)'
           /\ BackoffOK(bootBackoff, failRun, failedAt)'
           /\ DialsOK(bootDials, dialledAt, failRun, failedAt)'
<1>1. /\ redialAt' \in Nat /\ BackoffOK(bootBackoff', failRun, failedAt)
      /\ DialsOK(bootDials', dialledAt', failRun, failedAt)
  BY WarmKeeps, Zenon DEF BrowseInv
<1> QED
  BY <1>1, Zenon DEF BrowseInv, RunsOK, BackoffOK, DialsOK

(* A connection that closes gives the addresses of its peer an entry, and  *)
(* counts no failure.                                                      *)
LEMMA ClosedKeeps ==
    ASSUME BrowseInv, NEW p \in BootPeers, BootConnectionClosed(p)
    PROVE  BrowseInv'
<1> DEFINE left == [bootConns EXCEPT ![p] = @ - 1]
           backoff == [j \in Boots |-> IF BootAddrs[j].peer = p /\ bootBackoff[j] = NoBackoff
                                       THEN NewEntry ELSE bootBackoff[j]]
<1>1. /\ bootConns[p] > 0 /\ bootConns' = left /\ webExchanged' = webExchanged \ {p}
      /\ shownPeers' = shownPeers \ {p} /\ partedFrom' = partedFrom \cup {p}
      /\ ledgersSent' = [ledgersSent EXCEPT ![p] = 0]
      /\ UNCHANGED <<browseNow, metPeers, failRun, failedAt>>
  BY Zenon DEF BootConnectionClosed
<1>2. KeepBootstrapWarm(left, backoff, bootDials)
  BY Zenon DEF BootConnectionClosed
<1>3. BackoffOK(backoff, failRun, failedAt)
  <2>1. NewEntry \in [wait : Nat, next : Nat] /\ NewEntry.wait # 0
    BY DEF BrowseInv, NewEntry
  <2>2. ASSUME NEW j \in Boots, BlamesItself(j), failRun[j] > 0
        PROVE  bootBackoff[j] # NoBackoff
    <3>1. Pause(failRun[j]) \in Nat \ {0}
      BY PauseDoubles, Zenon DEF BrowseInv, RunsOK
    <3> QED
      BY <2>2, <3>1 DEF BrowseInv, BackoffOK, NoBackoff
  <2> QED
    BY <2>1, <2>2, Zenon DEF BrowseInv, BackoffOK
<1> HIDE DEF backoff
<1>4. /\ browseNow' \in Nat /\ redialAt' \in Nat /\ RunsOK(failRun, failedAt)'
      /\ BackoffOK(bootBackoff, failRun, failedAt)'
      /\ DialsOK(bootDials, dialledAt, failRun, failedAt)'
  BY <1>1, <1>2, <1>3, WarmAfter, Zenon
<1>5. /\ bootConns' \in [BootPeers -> Nat] /\ \A q \in BootPeers \ {p} : bootConns'[q] = bootConns[q]
      /\ ledgersSent' \in [BootPeers -> Nat] /\ ledgersSent'[p] = 0
      /\ \A q \in BootPeers \ {p} : ledgersSent'[q] = ledgersSent[q]
  BY <1>1 DEF BrowseInv
<1>6. /\ metPeers' \ shownPeers' \subseteq partedFrom'
      /\ \A q \in BootPeers : q \in metPeers' \/ bootConns'[q] = 0
      /\ \A q \in shownPeers' : q \in BootPeers /\ bootConns'[q] > 0
      /\ \A q \in BootPeers : ledgersSent'[q] = 0 \/ (ledgersSent'[q] = 1 /\ q \in webExchanged')
  BY <1>1, <1>5 DEF BrowseInv
<1> QED
  BY <1>4, <1>5, <1>6, Zenon DEF BrowseInv

(* A ledger is sent to a peer that was not sent one since it was lost.     *)
LEMMA ShareKeeps ==
    ASSUME BrowseInv, NEW p \in BootPeers, WebShareLedger(p) \/ LedgerRequested(p)
    PROVE  BrowseInv'
<1>1. /\ KeepBootstrapWarm(bootConns, bootBackoff, bootDials)
      /\ UNCHANGED <<bootConns, browseNow, metPeers, shownPeers, failRun, failedAt, partedFrom>>
      /\ webExchanged' = webExchanged \cup {p}
      /\ \/ ledgersSent' = ledgersSent
         \/ p \notin webExchanged /\ ledgersSent' = [ledgersSent EXCEPT ![p] = @ + 1]
  BY Zenon DEF WebShareLedger, LedgerRequested
<1>2. BackoffOK(bootBackoff, failRun, failedAt)
  BY Zenon DEF BrowseInv
<1>3. /\ browseNow' \in Nat /\ redialAt' \in Nat /\ RunsOK(failRun, failedAt)'
      /\ BackoffOK(bootBackoff, failRun, failedAt)'
      /\ DialsOK(bootDials, dialledAt, failRun, failedAt)'
  BY <1>1, <1>2, WarmAfter, Zenon
<1>4. /\ ledgersSent' \in [BootPeers -> Nat]
      /\ \A q \in BootPeers : ledgersSent'[q] = 0 \/ (ledgersSent'[q] = 1 /\ q \in webExchanged')
  BY <1>1 DEF BrowseInv
<1> QED
  BY <1>1, <1>3, <1>4, Zenon DEF BrowseInv

(* Every event of the loop keeps the bootstrap connections in order.       *)
LEMMA BrowseKept == BrowseInv /\ [BrowseNext]_browseVars => BrowseInv'
<1> SUFFICES ASSUME BrowseInv, [BrowseNext]_browseVars
             PROVE  BrowseInv'
  BY Zenon
<1>1. CASE UNCHANGED browseVars
  BY <1>1, Zenon DEF browseVars, BrowseInv, RunsOK, BackoffOK, DialsOK
<1>2. CASE MinutePasses
  BY <1>2 DEF MinutePasses, BrowseInv, RunsOK, BackoffOK, DialsOK
<1> QED
  BY <1>1, <1>2, AnsweredKeeps, FailsKeeps, ClosedKeeps, ShareKeeps, Zenon DEF BrowseNext

(* The invariant says what the property asks.                              *)
LEMMA BrowseInvImplies ==
    ASSUME BrowseInv
    PROVE  ShownPeersConnected /\ RedialsBackOff /\ LedgerSentOnce
<1>1. ShownPeersConnected /\ LedgerSentOnce
  BY DEF BrowseInv, ShownPeersConnected, LedgerSentOnce
<1>2. ASSUME NEW i \in bootDials, failRun[i] > 0, Blamed(i) = {i}
      PROVE  dialledAt[i] - failedAt[i] >= Pause(failRun[i])
  <2>1. dialledAt[i] >= failedAt[i] + Pause(failRun[i])
    BY <1>2, Zenon DEF BrowseInv, DialsOK, BlamesItself
  <2>2. dialledAt[i] \in Nat /\ failedAt[i] \in Nat /\ failRun[i] \in Nat
    BY Zenon DEF BrowseInv, DialsOK, RunsOK
  <2>3. Pause(failRun[i]) \in Nat
    BY <2>2, PauseDoubles, Zenon
  <2> QED
    BY <2>1, <2>2, <2>3
<1>3. RedialsBackOff
  BY <1>2, Zenon DEF RedialsBackOff, Pause
<1> QED
  BY <1>1, <1>3, Zenon

(* The node in a browser, through starts, stops, overflows of its channels,*)
(* relayed messages, closed connections and failed dials: a waiting caller *)
(* has a request whose outcome answers it, an acknowledged message is kept,*)
(* the peers it shows are connected, an address that failed k times in a   *)
(* row is not redialled before 2^k seconds (or the longest backoff) have   *)
(* passed, and a peer is sent the ledger once between two losses           *)
(* (wasm/src/lib.rs and the loop of the browser in transport/swarm.rs).    *)
THEOREM BrowserStaysSound == WasmSpec /\ BrowseSpec => []WasmSound
<1>1. WasmInv /\ BrowseInv => WasmSound
  BY BrowseInvImplies, Zenon DEF WasmInv, WasmSound
<1> QED
  BY <1>1, WasmInitially, WasmKept, BrowseInitially, BrowseKept, PTL DEF WasmSpec, BrowseSpec
=============================================================================
