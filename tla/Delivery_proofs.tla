-------------------------- MODULE Delivery_proofs ---------------------------
(***************************************************************************)
(* Proofs about messages under way and the links they take, for any peers, *)
(* messages and limits: the sends of SwarmDelivery, through retries,       *)
(* relays, delivery markers and shared identifiers, with their pace; the   *)
(* circuit breaker of the relays, for any thresholds and any callers fewer *)
(* than the probes; and the paths of Wi-Fi Aware and Wi-Fi Direct          *)
(* (WifiAware).                                                            *)
(***************************************************************************)
EXTENDS SwarmDelivery, CircuitBreaker, WifiAware, FiniteSetTheorems, SequenceTheorems, TLAPS

-----------------------------------------------------------------------------
(* The sends.  Every request of an identifier, and every envelope a relay  *)
(* holds under it, is of the call that is pending under it, unless that    *)
(* call shared its identifier.                                             *)

(* What a pending record holds.                                            *)
PendingRecords == [call : Calls, index : Int, notified : BOOLEAN, dispatches : Int]

(* The types of the sends.                                                 *)
SendTypes ==
    /\ call \in [Calls -> {"idle", "queued", "waiting", "ok", "error"}]
    /\ millis \in MsgIds
    /\ pendingMsg \in [MsgIds -> PendingRecords \cup {Unsent}]
    /\ \A r \in inFlight : r.call \in Calls /\ r.id \in MsgIds

(* A message is pending under the identifier.                              *)
Pending(id) == pendingMsg[id] # Unsent

(* A request under way belongs to the call pending under its identifier,   *)
(* unless that call shared the identifier.                                 *)
RequestsOfPending ==
    \A r \in inFlight : Pending(r.id) =>
        pendingMsg[r.id].call = r.call \/ pendingMsg[r.id].call \in collided

(* So does an envelope that a relay holds, which was accepted besides.     *)
CustodyOfPending ==
    \A id \in MsgIds, d \in Calls : <<id, d>> \in relayed =>
        /\ d \in accepted
        /\ Pending(id) => pendingMsg[id].call = d \/ pendingMsg[id].call \in collided

(* What every step of the sends keeps.                                     *)
SendInv ==
    SendTypes /\ RequestsOfPending /\ CustodyOfPending /\ OkMeansAccepted /\ PendingIsRetried

(* A pending record is not the empty sequence.                             *)
LEMMA RecordIsPending ==
    ASSUME NEW p \in PendingRecords
    PROVE  p # Unsent
  BY DEF PendingRecords, Unsent

(* A pending record is of some call.                                       *)
LEMMA PendingHasCall ==
    ASSUME SendTypes, NEW id \in MsgIds, Pending(id)
    PROVE  pendingMsg[id] \in PendingRecords /\ pendingMsg[id].call \in Calls
  BY Zenon DEF SendTypes, Pending, PendingRecords

(* The states of a call.                                                   *)
CallStates == {"idle", "queued", "waiting", "ok", "error"}

(* A request made for the message pending under its identifier.            *)
ForPending(r) == r.id \in MsgIds /\ r.call \in Calls /\ pendingMsg[r.id].call = r.call

(* What a step other than the dispatch of a new message does: it adds no   *)
(* pending message and moves none to another call; a new request is of the *)
(* pending call, a new envelope in custody is that of a request, and a     *)
(* call that succeeds was accepted or shared its identifier.               *)
Settles ==
    /\ UNCHANGED <<kindOf, collided>>
    /\ millis' \in MsgIds /\ call' \in [Calls -> CallStates]
    /\ pendingMsg' \in [MsgIds -> PendingRecords \cup {Unsent}]
    /\ \A id \in MsgIds : pendingMsg'[id] # Unsent =>
          Pending(id) /\ pendingMsg'[id].call = pendingMsg[id].call /\ id \in attempts'
    /\ \A r \in inFlight' : r \in inFlight \/ ForPending(r)
    /\ accepted \subseteq accepted'
    /\ \A id \in MsgIds, d \in Calls : <<id, d>> \in relayed' =>
          <<id, d>> \in relayed \/ (d \in accepted' /\ \E r \in inFlight : r.id = id /\ r.call = d)
    /\ \A c \in Calls : kindOf[c] = "send" /\ call'[c] = "ok" =>
          call[c] = "ok" \/ c \in accepted' \cup collided

(* A step that only settles what is under way keeps the invariant.         *)
LEMMA SettlingKeeps ==
    ASSUME SendInv, Settles
    PROVE  SendInv'
  <1>1. SendTypes'
    BY Zenon DEF SendInv, SendTypes, Settles, CallStates, ForPending
  <1>2. RequestsOfPending'
    BY Zenon DEF SendInv, SendTypes, RequestsOfPending, Settles, Pending, ForPending
  <1>3. CustodyOfPending'
    BY DEF SendInv, RequestsOfPending, CustodyOfPending, Settles, Pending
  <1>4. OkMeansAccepted'
    BY Zenon DEF SendInv, OkMeansAccepted, Settles
  <1>5. PendingIsRetried'
    BY Zenon DEF PendingIsRetried, Settles, Pending
  <1> QED
    BY <1>1, <1>2, <1>3, <1>4, <1>5, Zenon DEF SendInv

(* A step that leaves messages, requests and custody alone.                *)
LEMMA QuietSettles ==
    ASSUME SendInv,
           UNCHANGED <<kindOf, pendingMsg, attempts, inFlight, relayed, accepted, collided>>,
           millis' \in MsgIds, call' \in [Calls -> CallStates],
           \A c \in Calls : kindOf[c] = "send" /\ call'[c] = "ok" => call[c] = "ok"
    PROVE  SendInv'
  <1>1. pendingMsg' \in [MsgIds -> PendingRecords \cup {Unsent}]
    BY Zenon DEF SendInv, SendTypes
  <1>2. ASSUME NEW id \in MsgIds, pendingMsg'[id] # Unsent
        PROVE  Pending(id) /\ pendingMsg'[id].call = pendingMsg[id].call /\ id \in attempts'
    BY <1>2, Zenon DEF SendInv, PendingIsRetried, Pending
  <1>3. Settles
    BY <1>1, <1>2, Zenon DEF Settles
  <1> QED
    BY <1>3, SettlingKeeps, Zenon

(* A reply changes nothing but the call of a caller that waits for it.     *)
LEMMA ReplyChanges ==
    ASSUME NEW calls \in [Calls -> CallStates], NEW c \in Calls, NEW result \in {"ok", "error"}
    PROVE  /\ Replied(calls, c, result) \in [Calls -> CallStates]
           /\ \A d \in Calls : Replied(calls, c, result)[d] # calls[d] =>
                                  d = c /\ Replied(calls, c, result)[d] = result
  BY Zenon DEF Replied, CallStates

(* The calls and the answers that concern no message.                      *)
LEMMA OtherCalls ==
    ASSUME SendInv, NEW c \in Calls,
           \/ SendMessageCall(c) \/ RegistrationCall(c) \/ ReflectionCall(c)
           \/ QueryCall(c) \/ EndpointCall(c) \/ RankingCall(c) \/ PostCall(c)
           \/ ShutdownCall(c)
           \/ RegisterWithPeer(c) \/ RequestReflection(c)
           \/ AnswerQuery(c) \/ AnswerEndpoint(c) \/ AnswerRanking(c) \/ TakePost(c)
           \/ RegistrationResponse(c, "ok") \/ RegistrationFailure(c)
           \/ ReflectionResponse(c)
    PROVE  SendInv'
  <1> USE DEF CallStates
  <1>1. call \in [Calls -> CallStates] /\ millis \in MsgIds
    BY Zenon DEF SendInv, SendTypes
  <1>2. CASE Call(c)
    BY <1>1, <1>2, QuietSettles, Zenon DEF Call
  <1>3. CASE PostCall(c)
    BY <1>1, <1>3, QuietSettles, Zenon DEF PostCall, multiPathVars
  <1>4. CASE kindOf[c] \in {"register", "reflect"} /\ AwaitReply(c)
    BY <1>1, <1>4, QuietSettles, Zenon DEF AwaitReply
  <1>5. CASE kindOf[c] \in {"query", "endpoint", "ranking"}
             /\ \E result \in {"ok", "error"} : AnswerNow(c, result)
    BY <1>1, <1>5, QuietSettles, Zenon DEF AnswerNow
  <1>6. CASE TakePost(c)
    BY <1>1, <1>6, QuietSettles, Zenon DEF TakePost, multiPathVars
  <1>7. CASE \/ RegistrationResponse(c, "ok") \/ RegistrationResponse(c, "error")
             \/ ReflectionResponse(c)
    <2>1. PICK result \in {"ok", "error"} : call' = Replied(call, c, result)
      BY <1>7, Zenon DEF RegistrationResponse, ReflectionResponse
    <2>2. kindOf[c] \in {"register", "reflect"}
      BY <1>7, Zenon DEF RegistrationResponse, ReflectionResponse
    <2>3. UNCHANGED <<kindOf, millis, pendingMsg, attempts, inFlight, relayed, accepted, collided>>
      BY <1>7, Zenon DEF RegistrationResponse, ReflectionResponse
    <2> QED
      BY <1>1, <2>1, <2>2, <2>3, ReplyChanges, QuietSettles
  <1>8. CASE \/ SendMessageCall(c) \/ RegistrationCall(c) \/ ReflectionCall(c)
             \/ QueryCall(c) \/ EndpointCall(c) \/ RankingCall(c) \/ ShutdownCall(c)
    BY <1>2, <1>8, Zenon DEF SendMessageCall, RegistrationCall, ReflectionCall, QueryCall, EndpointCall,
                      RankingCall, ShutdownCall
  <1>9. CASE RegisterWithPeer(c) \/ RequestReflection(c)
    BY <1>4, <1>9, Zenon DEF RegisterWithPeer, RequestReflection, Take
  <1>10. CASE AnswerQuery(c) \/ AnswerEndpoint(c) \/ AnswerRanking(c)
    BY <1>5, <1>10, Zenon DEF AnswerQuery, AnswerEndpoint, AnswerRanking, Take
  <1> QED
    BY <1>3, <1>6, <1>7, <1>8, <1>9, <1>10, Zenon DEF RegistrationFailure

(* Whose envelope a relay holds after it took a request.                   *)
LEMMA TakenOrHeld ==
    ASSUME NEW r \in inFlight, r.id \in MsgIds, r.call \in Calls, TakenByRelay(r)
    PROVE  /\ accepted \subseteq accepted'
           /\ \A id \in MsgIds, d \in Calls : <<id, d>> \in relayed' =>
                 <<id, d>> \in relayed \/ (d \in accepted' /\ id = r.id /\ d = r.call)
           /\ (\E d \in Calls : <<r.id, d>> \in relayed) \/ r.call \in accepted'
  BY DEF TakenByRelay

(* The answer that closes a message: its caller is told, and what is said  *)
(* of an acceptance holds.                                                 *)
LEMMA CloseSettles ==
    ASSUME SendInv, NEW id \in MsgIds, Pending(id), NEW result \in {"ok", "error"},
           UNCHANGED <<kindOf, collided, millis>>, inFlight' \subseteq inFlight,
           Close(id), attempts \ {id} \subseteq attempts', accepted \subseteq accepted',
           \A i \in MsgIds, d \in Calls : <<i, d>> \in relayed' =>
              <<i, d>> \in relayed \/ (d \in accepted' /\ \E r \in inFlight : r.id = i /\ r.call = d),
           call' = Replied(call, pendingMsg[id].call, result),
           result = "ok" => pendingMsg[id].call \in accepted' \cup collided
    PROVE  SendInv'
  <1>1. pendingMsg[id].call \in Calls /\ call \in [Calls -> CallStates] /\ millis \in MsgIds
    BY PendingHasCall, Zenon DEF SendInv, SendTypes, CallStates
  <1>2. /\ call' \in [Calls -> CallStates]
        /\ \A c \in Calls : call'[c] # call[c] => c = pendingMsg[id].call /\ call'[c] = result
    BY <1>1, ReplyChanges
  <1>3. pendingMsg' \in [MsgIds -> PendingRecords \cup {Unsent}]
    BY Zenon DEF SendInv, SendTypes, Close
  <1>4. ASSUME NEW i \in MsgIds, pendingMsg'[i] # Unsent
        PROVE  Pending(i) /\ pendingMsg'[i].call = pendingMsg[i].call /\ i \in attempts'
    <2>1. i # id /\ pendingMsg'[i] = pendingMsg[i]
      BY <1>4, Zenon DEF SendInv, SendTypes, Close
    <2> QED
      BY <1>4, <2>1, Zenon DEF SendInv, PendingIsRetried, Pending
  <1>5. ASSUME NEW c \in Calls, kindOf[c] = "send", call'[c] = "ok"
        PROVE  call[c] = "ok" \/ c \in accepted' \cup collided
    BY <1>2, <1>5, Zenon
  <1>6. Settles
    BY <1>1, <1>2, <1>3, <1>4, <1>5, Zenon DEF Settles
  <1> QED
    BY <1>6, SettlingKeeps, Zenon

(* An answer that closes nothing.                                          *)
LEMMA NoCloseSettles ==
    ASSUME SendInv, UNCHANGED <<kindOf, collided, millis, pendingMsg, attempts, call>>,
           inFlight' \subseteq inFlight, accepted \subseteq accepted',
           \A i \in MsgIds, d \in Calls : <<i, d>> \in relayed' =>
              <<i, d>> \in relayed \/ (d \in accepted' /\ \E r \in inFlight : r.id = i /\ r.call = d)
    PROVE  SendInv'
  <1>1. call' \in [Calls -> CallStates] /\ millis' \in MsgIds
    BY Zenon DEF SendInv, SendTypes, CallStates
  <1>2. pendingMsg' \in [MsgIds -> PendingRecords \cup {Unsent}]
    BY Zenon DEF SendInv, SendTypes
  <1>3. ASSUME NEW i \in MsgIds, pendingMsg'[i] # Unsent
        PROVE  Pending(i) /\ pendingMsg'[i].call = pendingMsg[i].call /\ i \in attempts'
    BY <1>3, Zenon DEF SendInv, PendingIsRetried, Pending
  <1>4. Settles
    BY <1>1, <1>2, <1>3, Zenon DEF Settles
  <1> QED
    BY <1>4, SettlingKeeps, Zenon

(* A recorded failure leaves the attempts as they are.                     *)
LEMMA FailureKeepsAttempts ==
    ASSUME NEW id, NEW via, RecordFailure(id, via) \/ UNCHANGED multiPathVars
    PROVE  UNCHANGED attempts
  <1>1. CASE RecordFailure(id, via)
    BY <1>1, SMTT(30) DEF RecordFailure
  <1>2. CASE UNCHANGED multiPathVars
    BY <1>2, Zenon DEF multiPathVars
  <1> QED
    BY <1>1, <1>2, Zenon

(* Every answer to a request.                                              *)
LEMMA AnswersKeep ==
    ASSUME SendInv, NEW r \in inFlight, Resolve(r)
    PROVE  SendInv'
  <1>1. r.id \in MsgIds /\ r.call \in Calls
    BY Zenon DEF SendInv, SendTypes
  <1>2. Tracked(r) => Pending(r.id)
    BY Zenon DEF Tracked, Pending
  <1>3. Tracked(r) => pendingMsg[r.id].call = r.call \/ pendingMsg[r.id].call \in collided
    BY <1>2, Zenon DEF SendInv, RequestsOfPending
  <1>4. ASSUME NEW yes \in BOOLEAN, DirectResponse(r, yes)
        PROVE  SendInv'
    <2>1. /\ UNCHANGED <<kindOf, collided, millis, relayed>> /\ inFlight' \subseteq inFlight
          /\ accepted' = IF yes THEN accepted \cup {r.call} ELSE accepted
      BY <1>4, Zenon DEF DirectResponse, Drop
    <2>2. CASE Tracked(r) /\ yes
      <3>1. /\ Close(r.id) /\ attempts' = attempts \ {r.id}
            /\ call' = Replied(call, pendingMsg[r.id].call, "ok")
        BY <1>4, <2>2, Zenon DEF DirectResponse, RecordSuccess
      <3>2. pendingMsg[r.id].call \in accepted' \cup collided
        BY <1>3, <2>1, <2>2, Zenon
      <3> QED
        BY <1>1, <1>2, <2>1, <2>2, <3>1, <3>2, CloseSettles, Zenon
    <2>3. CASE ~(Tracked(r) /\ yes)
      <3>1. UNCHANGED <<attempts, pendingMsg, call>>
        BY <1>4, <2>3, Zenon DEF DirectResponse, multiPathVars
      <3> QED
        BY <2>1, <3>1, NoCloseSettles, Zenon
    <2> QED
      BY <2>2, <2>3, Zenon
  <1>5. CASE DirectFailure(r)
    BY <1>5, NoCloseSettles, Zenon DEF DirectFailure, Drop
  <1>6. CASE RelayAccepts(r)
    <2>1. UNCHANGED <<kindOf, collided, millis>> /\ inFlight' \subseteq inFlight /\ TakenByRelay(r)
      BY <1>6, Zenon DEF RelayAccepts, Drop
    <2>2. /\ accepted \subseteq accepted'
          /\ \A i \in MsgIds, d \in Calls : <<i, d>> \in relayed' =>
                <<i, d>> \in relayed \/ (d \in accepted' /\ \E q \in inFlight : q.id = i /\ q.call = d)
          /\ (\E d \in Calls : <<r.id, d>> \in relayed) \/ r.call \in accepted'
      BY <1>1, <2>1, TakenOrHeld, Zenon
    <2>3. CASE Tracked(r)
      <3>1. /\ Close(r.id) /\ attempts' = attempts \ {r.id}
            /\ call' = Replied(call, pendingMsg[r.id].call, "ok")
        BY <1>6, <2>3, Zenon DEF RelayAccepts, RecordSuccess
      <3>2. pendingMsg[r.id].call \in accepted' \cup collided
        BY <1>1, <1>2, <1>3, <2>2, <2>3, Zenon DEF SendInv, CustodyOfPending
      <3> QED
        BY <1>1, <1>2, <2>1, <2>2, <2>3, <3>1, <3>2, CloseSettles, Zenon
    <2>4. CASE ~Tracked(r)
      <3>1. UNCHANGED <<attempts, pendingMsg, call>>
        BY <1>6, <2>4, Zenon DEF RelayAccepts, multiPathVars
      <3> QED
        BY <2>1, <2>2, <3>1, NoCloseSettles, Zenon
    <2> QED
      BY <2>3, <2>4, Zenon
  <1>7. ASSUME NEW error, RelayRefuses(r, error)
        PROVE  SendInv'
    <2>1. UNCHANGED <<kindOf, collided, millis, relayed, accepted, attempts>>
               /\ inFlight' \subseteq inFlight
      <3>1. UNCHANGED attempts
        BY <1>7, FailureKeepsAttempts, Zenon DEF RelayRefuses
      <3> QED
        BY <1>7, <3>1, Zenon DEF RelayRefuses, Drop
    <2>2. CASE Tracked(r) /\ Terminal(error)
      <3>1. Close(r.id) /\ call' = Replied(call, pendingMsg[r.id].call, "error")
        BY <1>7, <2>2, Zenon DEF RelayRefuses
      <3> QED
        BY <1>1, <1>2, <2>1, <2>2, <3>1, CloseSettles, Zenon
    <2>3. CASE ~(Tracked(r) /\ Terminal(error))
      <3>1. UNCHANGED <<pendingMsg, call>>
        BY <1>7, <2>3, Zenon DEF RelayRefuses
      <3> QED
        BY <2>1, <3>1, NoCloseSettles, Zenon
    <2> QED
      BY <2>2, <2>3, Zenon
  <1>8. CASE RelayFailure(r)
    <2>1. /\ UNCHANGED <<kindOf, collided, millis, pendingMsg, attempts, call>>
          /\ inFlight' \subseteq inFlight
          /\ TakenByRelay(r) \/ UNCHANGED <<relayed, accepted>>
      <3>1. UNCHANGED attempts
        BY <1>8, FailureKeepsAttempts, Zenon DEF RelayFailure
      <3> QED
        BY <1>8, <3>1, Zenon DEF RelayFailure, Drop
    <2>2. /\ accepted \subseteq accepted'
          /\ \A i \in MsgIds, d \in Calls : <<i, d>> \in relayed' =>
                <<i, d>> \in relayed \/ (d \in accepted' /\ \E q \in inFlight : q.id = i /\ q.call = d)
      BY <1>1, <2>1, TakenOrHeld, Zenon
    <2> QED
      BY <2>1, <2>2, NoCloseSettles, Zenon
  <1> QED
    BY <1>4, <1>5, <1>6, <1>7, <1>8, Zenon DEF Resolve

(* The delivery marker of a message in custody.                            *)
LEMMA MarkerKeeps ==
    ASSUME SendInv, NEW id \in MsgIds, DeliveryMarker(id)
    PROVE  SendInv'
  <1>1. /\ UNCHANGED <<kindOf, collided, millis, relayed, accepted>> /\ inFlight' \subseteq inFlight
        /\ attempts' = attempts \ {id} /\ Close(id)
        /\ call' = IF pendingMsg[id] = Unsent THEN call ELSE Replied(call, pendingMsg[id].call, "ok")
    BY Zenon DEF DeliveryMarker, PurgeRequests, ConvergeDelivery
  <1>2. PICK d \in Calls : <<id, d>> \in relayed
    BY Zenon DEF DeliveryMarker
  <1>3. CASE Pending(id)
    <2>1. pendingMsg[id].call \in accepted' \cup collided
      BY <1>1, <1>2, <1>3, Zenon DEF SendInv, CustodyOfPending
    <2>2. call' = Replied(call, pendingMsg[id].call, "ok")
      BY <1>1, <1>3, Zenon DEF Pending
    <2> QED
      BY <1>1, <1>3, <2>1, <2>2, CloseSettles, Zenon
  <1>4. CASE ~Pending(id)
    <2>1. call' = call
      BY <1>1, <1>4, Zenon DEF Pending
    <2>2. call' \in [Calls -> CallStates] /\ millis' \in MsgIds
      BY <1>1, <2>1, Zenon DEF SendInv, SendTypes, CallStates
    <2>3. pendingMsg' \in [MsgIds -> PendingRecords \cup {Unsent}]
      BY <1>1, Zenon DEF SendInv, SendTypes, Close
    <2>4. ASSUME NEW i \in MsgIds, pendingMsg'[i] # Unsent
          PROVE  Pending(i) /\ pendingMsg'[i].call = pendingMsg[i].call /\ i \in attempts'
      <3>1. i # id /\ pendingMsg'[i] = pendingMsg[i]
        BY <1>1, <2>4, Zenon DEF SendInv, SendTypes, Close
      <3> QED
        BY <1>1, <2>4, <3>1, Zenon DEF SendInv, PendingIsRetried, Pending
    <2>5. Settles
      BY <1>1, <2>1, <2>2, <2>3, <2>4, Zenon DEF Settles
    <2> QED
      BY <2>5, SettlingKeeps, Zenon
  <1> QED
    BY <1>3, <1>4, Zenon

(* The retry tick: what moves to its next route stays with its call.       *)
LEMMA AdvancedRecord ==
    ASSUME NEW p \in PendingRecords, NEW routes
    PROVE  AdvanceRoute(p, routes) \in PendingRecords /\ AdvanceRoute(p, routes).call = p.call
  <1> DEFINE next == p.index + 1
             wrap == next >= Len(routes)
             i == IF wrap THEN 0 ELSE next
             b == p.notified \/ wrap
             n == p.dispatches + 1
  <1>1. i \in Int /\ b \in BOOLEAN /\ n \in Int
    BY DEF PendingRecords
  <1>2. AdvanceRoute(p, routes) = [p EXCEPT !.index = i, !.notified = b, !.dispatches = n]
    BY Zenon DEF AdvanceRoute
  <1> HIDE DEF i, b, n
  <1> QED
    BY <1>1, <1>2, Zenon DEF PendingRecords

(* The retry tick keeps the invariant, whichever messages are due.         *)
LEMMA TickKeeps ==
    ASSUME SendInv, NEW due \in SUBSET MsgIds, RetryTick(due)
    PROVE  SendInv'
  <1> DEFINE Next(routes) == [id \in MsgIds |-> IF id \in due THEN AdvanceRoute(pendingMsg[id], routes)
                                                             ELSE pendingMsg[id]]
  <1>1. PICK routes \in RankedRoutes :
              /\ pendingMsg' = Next(routes)
              /\ inFlight' = inFlight \cup
                    {Dispatched(Next(routes)[id].call, id, routes[Next(routes)[id].index + 1],
                                Next(routes)[id].dispatches) : id \in due}
              /\ call' = [c \in Calls |->
                            IF \E id \in due : Next(routes)[id].call = c /\ Next(routes)[id].notified
                               THEN Replied(call, c, "error")[c] ELSE call[c]]
    BY Zenon DEF RetryTick
  <1>2. UNCHANGED <<kindOf, collided, millis, attempts, relayed, accepted>>
             /\ \A id \in due : Pending(id)
    BY Zenon DEF RetryTick, Due, Pending
  <1>3. ASSUME NEW id \in MsgIds
        PROVE  /\ pendingMsg'[id] \in PendingRecords \cup {Unsent}
               /\ id \in due => pendingMsg'[id].call = pendingMsg[id].call /\ pendingMsg[id].call \in Calls
               /\ id \notin due => pendingMsg'[id] = pendingMsg[id]
    <2>1. pendingMsg'[id] = IF id \in due THEN AdvanceRoute(pendingMsg[id], routes) ELSE pendingMsg[id]
      BY <1>1, Zenon
    <2>2. CASE id \in due
      <3>1. pendingMsg[id] \in PendingRecords /\ pendingMsg[id].call \in Calls
        BY <1>2, <2>2, PendingHasCall, Zenon DEF SendInv
      <3> QED
        BY <2>1, <2>2, <3>1, AdvancedRecord, Zenon
    <2>3. CASE id \notin due
      BY <2>1, <2>3, Zenon DEF SendInv, SendTypes
    <2> QED
      BY <2>2, <2>3, Zenon
  <1>4. pendingMsg' \in [MsgIds -> PendingRecords \cup {Unsent}]
    BY <1>1, <1>3, Zenon
  <1>5. ASSUME NEW id \in MsgIds, pendingMsg'[id] # Unsent
        PROVE  Pending(id) /\ pendingMsg'[id].call = pendingMsg[id].call /\ id \in attempts'
    <2>1. Pending(id) /\ pendingMsg'[id].call = pendingMsg[id].call
      BY <1>2, <1>3, <1>5, Zenon DEF Pending
    <2> QED
      BY <1>2, <2>1, Zenon DEF SendInv, PendingIsRetried, Pending
  <1>6. ASSUME NEW r \in inFlight', r \notin inFlight
        PROVE  ForPending(r)
    <2>1. PICK id \in due : r = Dispatched(pendingMsg'[id].call, id, routes[pendingMsg'[id].index + 1],
                                           pendingMsg'[id].dispatches)
      BY <1>1, <1>6, Zenon
    <2>2. r.call = pendingMsg'[id].call /\ r.id = id
      BY <2>1, Zenon DEF Dispatched
    <2> QED
      BY <1>3, <2>2, Zenon DEF ForPending
  <1>7. /\ call' \in [Calls -> CallStates]
        /\ \A c \in Calls : call'[c] = "ok" => call[c] = "ok"
    <2>1. call \in [Calls -> CallStates]
      BY Zenon DEF SendInv, SendTypes, CallStates
    <2>2. ASSUME NEW c \in Calls
          PROVE  Replied(call, c, "error")[c] \in CallStates /\ (Replied(call, c, "error")[c] = "ok" => call[c] = "ok")
      BY <2>1, ReplyChanges
    <2>3. ASSUME NEW c \in Calls
          PROVE  call'[c] = call[c] \/ call'[c] = Replied(call, c, "error")[c]
      BY <1>1, Zenon
    <2>4. DOMAIN call' = Calls /\ call' = [c \in Calls |-> call'[c]]
      BY <1>1, Zenon
    <2> QED
      BY <2>1, <2>2, <2>3, <2>4, Zenon
  <1>8. millis' \in MsgIds
    BY <1>2, Zenon DEF SendInv, SendTypes
  <1>9. Settles
    BY <1>2, <1>4, <1>5, <1>6, <1>7, <1>8, Zenon DEF Settles
  <1> QED
    BY <1>9, SettlingKeeps, Zenon

(* A shutdown answers its own call and fails every other that waits.       *)
LEMMA ShutdownKeeps ==
    ASSUME SendInv, NEW c \in Calls, Shutdown(c)
    PROVE  SendInv'
  <1>1. /\ UNCHANGED <<kindOf, millis, relayed, accepted, collided>> /\ inFlight' = {}
        /\ pendingMsg' = [i \in MsgIds |-> Unsent] /\ kindOf[c] = "shutdown"
        /\ call' = [d \in Calls |-> IF d = c THEN "ok"
                                ELSE IF call[d] \in {"queued", "waiting"} THEN "error" ELSE call[d]]
    BY Zenon DEF Shutdown, Take
  <1>2. call' \in [Calls -> CallStates] /\ millis' \in MsgIds
    BY <1>1, Zenon DEF SendInv, SendTypes, CallStates
  <1>3. Settles
    BY <1>1, <1>2, Zenon DEF Settles
  <1> QED
    BY <1>3, SettlingKeeps, Zenon

(* A new message.  Whatever is under way or in custody under its           *)
(* identifier makes it one that shared it.                                 *)
LEMMA SendKeeps ==
    ASSUME SendInv, NEW c \in Calls, SendMessage(c)
    PROVE  SendInv'
  <1>1. /\ UNCHANGED <<kindOf, millis, relayed, accepted>> /\ attempts' = attempts \cup {millis}
    BY Zenon DEF SendMessage, StartDelivery
  <1>2. call \in [Calls -> CallStates] /\ millis \in MsgIds
    BY Zenon DEF SendInv, SendTypes, CallStates
  <1>3. CASE call' = [call EXCEPT ![c] = "error"] /\ UNCHANGED <<pendingMsg, inFlight, collided>>
    <2>1. pendingMsg' \in [MsgIds -> PendingRecords \cup {Unsent}]
      BY <1>3, Zenon DEF SendInv, SendTypes
    <2>2. ASSUME NEW i \in MsgIds, pendingMsg'[i] # Unsent
          PROVE  Pending(i) /\ pendingMsg'[i].call = pendingMsg[i].call /\ i \in attempts'
      BY <1>1, <1>3, <2>2, Zenon DEF SendInv, PendingIsRetried, Pending
    <2>3. call' \in [Calls -> CallStates] /\ \A d \in Calls : call'[d] = "ok" => call[d] = "ok"
      BY <1>2, <1>3, Zenon DEF CallStates
    <2>4. Settles
      BY <1>1, <1>2, <1>3, <2>1, <2>2, <2>3, Zenon DEF Settles
    <2> QED
      BY <2>4, SettlingKeeps, Zenon
  <1>4. ASSUME NEW via, SendOn(c, via)
        PROVE  SendInv'
    <2> DEFINE id == millis
               older == pendingMsg[id]
               new == [call |-> c, index |-> 0, notified |-> FALSE, dispatches |-> 1]
    <2>1. /\ pendingMsg' = [pendingMsg EXCEPT ![id] = new]
          /\ inFlight' = inFlight \cup {Dispatched(c, id, via, 1)}
          /\ call' = [(IF older = Unsent THEN call ELSE Replied(call, older.call, "error"))
                         EXCEPT ![c] = "waiting"]
          /\ collided \subseteq collided'
          /\ (\E r \in inFlight : r.id = id /\ r.call \in Calls) => c \in collided'
          /\ (\E d \in Calls : <<id, d>> \in relayed) => c \in collided'
      BY <1>4, Zenon DEF SendOn
    <2>2. new \in PendingRecords /\ new.call = c
      BY DEF PendingRecords
    <2> HIDE DEF new
    <2>3. pendingMsg' \in [MsgIds -> PendingRecords \cup {Unsent}] /\ pendingMsg'[id] = new
      BY <1>2, <2>1, <2>2, Zenon DEF SendInv, SendTypes
    <2>4. \A i \in MsgIds \ {id} : pendingMsg'[i] = pendingMsg[i]
      BY <2>1, Zenon DEF SendInv, SendTypes
    <2>5. call' \in [Calls -> CallStates] /\ \A d \in Calls : call'[d] = "ok" => call[d] = "ok"
      <3> DEFINE told == IF older = Unsent THEN call ELSE Replied(call, older.call, "error")
      <3>1. older # Unsent => older.call \in Calls
        BY <1>2, PendingHasCall, Zenon DEF Pending, SendInv
      <3>2. told \in [Calls -> CallStates] /\ \A d \in Calls : told[d] = "ok" => call[d] = "ok"
        BY <1>2, <3>1, ReplyChanges, Zenon
      <3>3. call' = [told EXCEPT ![c] = "waiting"]
        BY <2>1, Zenon
      <3> HIDE DEF told
      <3> QED
        BY <3>2, <3>3, Zenon DEF CallStates
    <2>6. ASSUME NEW r \in inFlight'
          PROVE  r \in inFlight \/ (r.call = c /\ r.id = id)
      BY <2>1, <2>6 DEF Dispatched
    <2>7. SendTypes'
      <3>1. \A r \in inFlight' : r.call \in Calls /\ r.id \in MsgIds
        BY <1>2, <2>6, Zenon DEF SendInv, SendTypes
      <3> QED
        BY <1>1, <1>2, <2>3, <2>5, <3>1, Zenon DEF SendTypes, CallStates
    <2>8. RequestsOfPending'
      <3> SUFFICES ASSUME NEW r \in inFlight', pendingMsg'[r.id] # Unsent
                   PROVE  pendingMsg'[r.id].call = r.call \/ pendingMsg'[r.id].call \in collided'
        BY Zenon DEF RequestsOfPending, Pending
      <3>1. CASE r \in inFlight /\ r.id # id
        <4>1. r.id \in MsgIds /\ pendingMsg'[r.id] = pendingMsg[r.id]
          BY <2>4, <3>1, Zenon DEF SendInv, SendTypes
        <4> QED
          BY <2>1, <3>1, <4>1, Zenon DEF SendInv, RequestsOfPending, Pending
      <3>2. CASE r \in inFlight /\ r.id = id
        <4>1. r.call \in Calls
          BY <3>2, Zenon DEF SendInv, SendTypes
        <4> QED
          BY <2>1, <2>2, <2>3, <3>2, <4>1, Zenon
      <3>3. CASE r.call = c /\ r.id = id
        BY <2>2, <2>3, <3>3, Zenon
      <3> QED
        BY <2>6, <3>1, <3>2, <3>3, Zenon
    <2>9. CustodyOfPending'
      <3> SUFFICES ASSUME NEW i \in MsgIds, NEW d \in Calls, <<i, d>> \in relayed
                   PROVE  /\ d \in accepted
                          /\ pendingMsg'[i] # Unsent =>
                                pendingMsg'[i].call = d \/ pendingMsg'[i].call \in collided'
        BY <1>1, Zenon DEF CustodyOfPending, Pending
      <3>1. CASE i = id
        BY <2>1, <2>2, <2>3, <3>1, Zenon DEF SendInv, CustodyOfPending
      <3>2. CASE i # id
        BY <2>1, <2>4, <3>2, Zenon DEF SendInv, CustodyOfPending, Pending
      <3> QED
        BY <3>1, <3>2, Zenon
    <2>10. OkMeansAccepted'
      BY <1>1, <2>1, <2>5, Zenon DEF SendInv, OkMeansAccepted
    <2>11. PendingIsRetried'
      BY <1>1, <2>4, Zenon DEF SendInv, PendingIsRetried
    <2> QED
      BY <2>7, <2>8, <2>9, <2>10, <2>11, Zenon DEF SendInv
  <1> QED
    BY <1>3, <1>4, Zenon DEF SendMessage

(* Every step of the swarm task keeps the invariant.                       *)
LEMMA SendStep ==
    ASSUME SendInv, DeliveryNext
    PROVE  SendInv'
  <1>1. ASSUME NEW r \in DeliveryRelays, AddRelay(r)
        PROVE  SendInv'
    BY <1>1, QuietSettles, Zenon DEF AddRelay, SendInv, SendTypes, CallStates
  <1>2. CASE NextMillisecond
    <2>1. millis' \in MsgIds
      BY <1>2, DeliveryAssumption DEF NextMillisecond, SendInv, SendTypes, MsgIds
    <2> QED
      BY <1>2, <2>1, QuietSettles, Zenon DEF NextMillisecond, SendInv, SendTypes, CallStates
  <1> QED
    BY <1>1, <1>2, OtherCalls, AnswersKeep, MarkerKeeps, TickKeeps, ShutdownKeeps, SendKeeps, Zenon
       DEF DeliveryNext, Serve

-----------------------------------------------------------------------------
(* The pace.  What the wall clock shows since the last dispatch is at most *)
(* the real time and how far the clock was set forward in between.         *)

(* What every step of the pace keeps.                                      *)
PaceInv ==
    /\ pacing \in [start : Int, failures : Nat, passes : Nat, index : Nat]
    /\ wallClock \in Int /\ realTime \in Int /\ sentAt \in Int /\ leapt \in Nat
    /\ paceGap \in [passed : Int, leapt : Nat, due : Int]
    /\ realTime >= sentAt
    /\ realTime - sentAt + leapt >= wallClock - pacing.start
    /\ RetriesPaced

(* A power of two is the number of subsets of a finite set.                *)
LEMMA PowerOfTwo ==
    ASSUME NEW n \in Nat
    PROVE  2^n \in Nat \ {0}
  <1>1. IsFiniteSet(1 .. n) /\ Cardinality(1 .. n) = n
    BY FS_Interval
  <1>2. IsFiniteSet(SUBSET (1 .. n)) /\ Cardinality(SUBSET (1 .. n)) = 2^n
    BY <1>1, FS_SUBSET, Zenon
  <1>3. Cardinality(SUBSET (1 .. n)) \in Nat /\ Cardinality(SUBSET (1 .. n)) # 0
    BY <1>2, FS_CardinalityType, FS_EmptySet, Zenon
  <1> QED
    BY <1>2, <1>3, Zenon

(* The delays are whole numbers of milliseconds.                           *)
LEMMA DelaysAreNumbers ==
    ASSUME NEW n \in Nat
    PROVE  RetryDelay(n) \in Int /\ PassDelay(n) \in Int
  <1>1. RetryDelay(n) \in Int
    <2> DEFINE a == 3^n
               b == 2^n
    <2>1. a \in Int /\ b \in Nat \ {0}
      BY PowerOfTwo
    <2> HIDE DEF a, b
    <2>2. (100 * a) \div b \in Int
      BY <2>1
    <2> QED
      BY <2>2 DEF RetryDelay, AtMost, MAX_DELAY, a, b
  <1>2. PassDelay(n) \in Int
    <2>1. CASE n = 0
      BY <2>1 DEF PassDelay
    <2>2. CASE n # 0
      <3> DEFINE b == 2^(n - 1)
      <3>1. b \in Int
        BY <2>2, PowerOfTwo
      <3> HIDE DEF b
      <3>2. 1000 * b \in Int
        BY <3>1
      <3> QED
        BY <2>2, <3>2 DEF PassDelay, AtMost, MAX_DELAY, b
    <2> QED
      BY <2>1, <2>2, Zenon
  <1> QED
    BY <1>1, <1>2, Zenon

(* Every tick and every correction of the clock keeps the pace.            *)
LEMMA PaceStep ==
    ASSUME PaceInv, PaceNext
    PROVE  PaceInv'
  <1>1. ASSUME NEW count \in 0 .. 3, PaceTick(count)
        PROVE  PaceInv'
    <2>1. realTime' = realTime + 500 /\ wallClock' = wallClock + 500
      BY <1>1, Zenon DEF PaceTick, RETRY_TICK
    <2>2. CASE count = 0 \/ PaceElapsed < RetryWait
      <3>1. UNCHANGED <<pacing, leapt, paceGap, sentAt>>
        BY <1>1, <2>2, Zenon DEF PaceTick
      <3> QED
        BY <2>1, <3>1 DEF PaceInv, RetriesPaced
    <2>3. CASE ~(count = 0 \/ PaceElapsed < RetryWait)
      <3>1. /\ pacing' = Redispatched(count) /\ sentAt' = realTime /\ leapt' = 0
            /\ paceGap' = [passed |-> realTime - sentAt, leapt |-> leapt, due |-> RetryWait]
        BY <1>1, <2>3, Zenon DEF PaceTick
      <3>2. RetryWait \in Int
        BY DelaysAreNumbers, Zenon DEF RetryWait, AtLeast, PaceInv
      <3>3. PaceElapsed \in Int /\ PaceElapsed <= realTime - sentAt + leapt
        BY DEF PaceElapsed, AtLeast, PaceInv
      <3>4. realTime - sentAt \in Int /\ leapt \in Nat /\ realTime - sentAt + leapt >= RetryWait
        BY <2>3, <3>2, <3>3 DEF PaceInv
      <3>5. paceGap' \in [passed : Int, leapt : Nat, due : Int] /\ RetriesPaced'
        BY <3>1, <3>2, <3>4, Zenon DEF RetriesPaced
      <3>6. pacing' \in [start : Int, failures : Nat, passes : Nat, index : Nat]
                 /\ pacing'.start = wallClock
        <4> DEFINE cursor == AdvanceRouteCursor(pacing.index, count)
                   passes == IF cursor.wrapped THEN pacing.passes + 1 ELSE pacing.passes
        <4>1. cursor.next \in Nat /\ passes \in Nat
          BY DEF PaceInv, AdvanceRouteCursor
        <4>2. pacing' = [pacing EXCEPT !.index = cursor.next, !.start = wallClock, !.passes = passes]
          BY <3>1, Zenon DEF Redispatched
        <4> HIDE DEF cursor, passes
        <4> QED
          BY <4>1, <4>2, Zenon DEF PaceInv
      <3> QED
        BY <2>1, <3>1, <3>5, <3>6 DEF PaceInv
    <2> QED
      BY <2>2, <2>3, Zenon
  <1>2. CASE PaceFailure
    BY <1>2 DEF PaceFailure, PaceInv, RetriesPaced
  <1>3. CASE ClockSetBack
    BY <1>3 DEF ClockSetBack, RETRY_TICK, PaceInv, RetriesPaced
  <1>4. CASE ClockSetForward
    BY <1>4 DEF ClockSetForward, RETRY_TICK, PaceInv, RetriesPaced
  <1> QED
    BY <1>1, <1>2, <1>3, <1>4, Zenon DEF PaceNext

(* For any calls, relays and bounds: a send reported as made was taken by  *)
(* its target or by a relay, unless it shared its identifier; a pending    *)
(* message keeps the attempt the retry tick looks for; and it is sent      *)
(* again only after its backoff, as the wall clock counts it.              *)
THEOREM SendsStaySound ==
    DeliverySpec /\ PaceSpec => []SendsSound
  <1>1. DeliveryInit => SendInv
    <2> SUFFICES ASSUME DeliveryInit PROVE SendInv
      BY Zenon
    <2>1. SendTypes
      BY DeliveryAssumption DEF DeliveryInit, SendTypes, MsgIds
    <2>2. inFlight = {} /\ relayed = {} /\ \A id \in MsgIds : pendingMsg[id] = Unsent
      BY Zenon DEF DeliveryInit
    <2>3. \A c \in Calls : call[c] = "idle"
      BY Zenon DEF DeliveryInit
    <2> QED
      BY <2>1, <2>2, <2>3, Zenon DEF SendInv, RequestsOfPending, CustodyOfPending, OkMeansAccepted,
         PendingIsRetried
  <1>2. SendInv /\ [DeliveryNext]_deliveryVars => SendInv'
    <2>1. SendInv /\ UNCHANGED deliveryVars => SendInv'
      <3> SUFFICES ASSUME SendInv, UNCHANGED deliveryVars PROVE SendInv'
        BY Zenon
      <3>1. UNCHANGED <<kindOf, pendingMsg, attempts, inFlight, relayed, accepted, collided, millis, call>>
        BY Zenon DEF deliveryVars
      <3>2. millis' \in MsgIds /\ call' \in [Calls -> CallStates]
        BY <3>1, Zenon DEF SendInv, SendTypes, CallStates
      <3> QED
        BY <3>1, <3>2, QuietSettles, Zenon
    <2> QED
      BY <2>1, SendStep, Zenon
  <1>3. PaceInit => PaceInv
    <2> SUFFICES ASSUME PaceInit PROVE PaceInv
      BY Zenon
    <2> QED
      BY SMTT(30) DEF PaceInit, PaceInv, NewAttempt, RETRY_TICK, RetriesPaced
  <1>4. PaceInv /\ [PaceNext]_paceVars => PaceInv'
    <2>1. PaceInv /\ UNCHANGED paceVars => PaceInv'
      BY Zenon DEF PaceInv, paceVars, RetriesPaced
    <2> QED
      BY <2>1, PaceStep, Zenon
  <1>5. SendInv /\ PaceInv => SendsSound
    BY Zenon DEF SendInv, PaceInv, SendsSound
  <1> QED
    BY <1>1, <1>2, <1>3, <1>4, <1>5, PTL DEF DeliverySpec, PaceSpec

-----------------------------------------------------------------------------
-----------------------------------------------------------------------------
(* The circuit breaker.  A probe is counted when a caller that saw the     *)
(* timeout gets to the write lock; each such caller counts once, so probes *)
(* and callers still on their way to the lock number no more than the      *)
(* callers together.  A caller sets out only while the circuit is open,    *)
(* when no probe is counted.                                               *)

(* The callers between the two locks of the breaker.                       *)
OnTheirWay == {c \in BreakerCallers : breakerCaller[c] = "transition"}

(* Probes and the callers that may add one are at most the callers.        *)
BreakerInv ==
    /\ CircuitTypeOK
    /\ circuit.state # "HalfOpen" => circuit.probes = 0
    /\ circuit.probes + Cardinality(OnTheirWay) <= Cardinality(BreakerCallers)

(* Every operation on an entry gives an entry. *)
LEMMA EntryOperations ==
    ASSUME NEW e \in BreakerEntries
    PROVE  /\ NewBreaker \in BreakerEntries /\ HalfOpened(e) \in BreakerEntries
           /\ Succeeded(e) \in BreakerEntries /\ Failed(e) \in BreakerEntries
           /\ NewBreaker.probes = 0 /\ NewBreaker.state = "Closed"
           /\ HalfOpened(e).probes = e.probes + 1 /\ HalfOpened(e).state = "HalfOpen"
           /\ Succeeded(e).probes \in {0, e.probes} /\ Failed(e).probes \in {0, e.probes}
           /\ Succeeded(e).state # "HalfOpen" => Succeeded(e).probes = 0 \/ e.state # "HalfOpen"
           /\ Failed(e).state # "HalfOpen" => Failed(e).probes = 0 \/ e.state # "HalfOpen"
  <1> USE BreakerAssumption
  <1>1. /\ NewBreaker \in BreakerEntries /\ NewBreaker.probes = 0 /\ NewBreaker.state = "Closed"
    BY DEF BreakerEntries, NewBreaker
  <1>2. /\ HalfOpened(e) \in BreakerEntries
        /\ HalfOpened(e).probes = e.probes + 1 /\ HalfOpened(e).state = "HalfOpen"
    <2> DEFINE n == e.probes + 1
    <2>1. HalfOpened(e) = [state |-> "HalfOpen", failures |-> e.failures, successes |-> 0,
                           probes |-> n, expired |-> FALSE]
      <3>1. HalfOpened(e) = [e EXCEPT !.state = "HalfOpen", !.probes = n,
                                      !.successes = 0, !.expired = FALSE]
        BY Zenon DEF HalfOpened
      <3> HIDE DEF n
      <3> QED
        BY <3>1, Zenon DEF BreakerEntries
    <2>2. e.failures \in 0 .. FailureThreshold /\ e.probes + 1 \in Nat
      BY DEF BreakerEntries
    <2> QED
      BY <2>1, <2>2 DEF BreakerEntries
  <1>3. /\ Succeeded(e) \in BreakerEntries
        /\ Succeeded(e).probes \in {0, e.probes}
        /\ Succeeded(e).state # "HalfOpen" => Succeeded(e).probes = 0 \/ e.state # "HalfOpen"
    <2>1. CASE e.state = "Closed"
      BY <2>1 DEF BreakerEntries, Succeeded
    <2>2. CASE e.state = "HalfOpen"
      BY <1>1, <2>2 DEF BreakerEntries, Succeeded
    <2>3. CASE e.state = "Open"
      BY <2>3, Zenon DEF BreakerEntries, Succeeded
    <2> QED
      BY <2>1, <2>2, <2>3, Zenon DEF BreakerEntries
  <1>4. /\ Failed(e) \in BreakerEntries
        /\ Failed(e).probes \in {0, e.probes}
        /\ Failed(e).state # "HalfOpen" => Failed(e).probes = 0 \/ e.state # "HalfOpen"
    <2> DEFINE f == IF e.failures < FailureThreshold THEN e.failures + 1 ELSE e.failures
    <2>1. f \in 0 .. FailureThreshold
      BY DEF BreakerEntries
    <2> HIDE DEF f
    <2>2. CASE e.state = "Closed"
      <3>1. Failed(e) = IF f >= FailureThreshold
               THEN [e EXCEPT !.state = "Open", !.failures = f, !.successes = 0, !.expired = FALSE]
               ELSE [e EXCEPT !.failures = f]
        BY <2>2, Zenon DEF Failed, f
      <3>2. CASE f >= FailureThreshold
        <4>1. Failed(e) = [state |-> "Open", failures |-> f, successes |-> 0,
                           probes |-> e.probes, expired |-> FALSE]
          BY <3>1, <3>2, Zenon DEF BreakerEntries
        <4>2. e.probes \in Nat
          BY Zenon DEF BreakerEntries
        <4> QED
          BY <2>1, <2>2, <4>1, <4>2 DEF BreakerEntries
      <3>3. CASE ~(f >= FailureThreshold)
        BY <2>1, <2>2, <3>1, <3>3, Zenon DEF BreakerEntries
      <3> QED
        BY <3>2, <3>3, Zenon
    <2>3. CASE e.state = "HalfOpen"
      <3>1. Failed(e) = [e EXCEPT !.state = "Open", !.failures = f, !.successes = 0,
                                  !.probes = 0, !.expired = FALSE]
        BY <2>3, Zenon DEF Failed, f
      <3>2. Failed(e) = [state |-> "Open", failures |-> f, successes |-> 0,
                         probes |-> 0, expired |-> FALSE]
        BY <3>1, Zenon DEF BreakerEntries
      <3> QED
        BY <2>1, <3>2 DEF BreakerEntries
    <2>4. CASE e.state = "Open"
      <3>1. Failed(e) = [e EXCEPT !.failures = f, !.expired = FALSE]
        BY <2>4, Zenon DEF Failed, f
      <3> QED
        BY <2>1, <2>4, <3>1, Zenon DEF BreakerEntries
    <2> QED
      BY <2>2, <2>3, <2>4, Zenon DEF BreakerEntries
  <1> QED
    BY <1>1, <1>2, <1>3, <1>4, Zenon

(* The callers on their way are finitely many, at most all of them. *)
LEMMA OnTheirWayCounted ==
    ASSUME NEW S \in SUBSET BreakerCallers
    PROVE  /\ IsFiniteSet(S) /\ Cardinality(S) \in Nat
           /\ Cardinality(S) <= Cardinality(BreakerCallers)
           /\ Cardinality(BreakerCallers) \in Nat
  BY CallersAssumption, FS_Subset, FS_CardinalityType, Zenon

(* Every step of the breaker preserves its invariant.                      *)
LEMMA BreakerStep ==
    ASSUME BreakerInv, CircuitNext
    PROVE  BreakerInv'
  <1> USE DEF BreakerInv
  <1> DEFINE T == OnTheirWay
             N == Cardinality(BreakerCallers)
  <1>1. circuit \in BreakerEntries /\ circuit.probes \in Nat
    BY Zenon DEF CircuitTypeOK, BreakerEntries
  <1>2. /\ IsFiniteSet(T) /\ Cardinality(T) \in Nat /\ Cardinality(T) <= N /\ N \in Nat
        /\ Cardinality(T') \in Nat /\ Cardinality(T') <= N
    BY OnTheirWayCounted, Zenon DEF OnTheirWay
  <1>3. ASSUME NEW c \in BreakerCallers, AllowRequest(c)
        PROVE  BreakerInv'
    <2>1. CircuitTypeOK'
      BY <1>3, Zenon DEF AllowRequest, CircuitTypeOK
    <2>2. CASE ProbeDue(circuit)
      <3>1. circuit'.probes = 0 /\ circuit' = circuit
        BY <1>3, <2>2, Zenon DEF AllowRequest, ProbeDue
      <3> QED
        BY <1>2, <2>1, <3>1
    <2>3. CASE ~ProbeDue(circuit)
      <3>1. T' = T /\ circuit' = circuit
        BY <1>3, <2>3, Zenon DEF AllowRequest, OnTheirWay, CircuitTypeOK
      <3> QED
        BY <2>1, <3>1, Zenon
    <2> QED
      BY <2>2, <2>3, Zenon
  <1>4. ASSUME NEW c \in BreakerCallers, TransitionToHalfOpen(c)
        PROVE  BreakerInv'
    <2>1. CircuitTypeOK' /\ circuit'.probes = circuit.probes + 1 /\ circuit'.state = "HalfOpen"
      BY <1>1, <1>4, EntryOperations, Zenon DEF TransitionToHalfOpen, CircuitTypeOK
    <2>2. T' = T \ {c} /\ c \in T
      BY <1>4, Zenon DEF TransitionToHalfOpen, OnTheirWay, CircuitTypeOK
    <2>3. Cardinality(T') = Cardinality(T) - 1
      BY <1>2, <2>2, FS_RemoveElement, Zenon
    <2> QED
      BY <1>1, <1>2, <2>1, <2>3
  <1>5. ASSUME NEW c \in BreakerCallers, RecordSuccessOf(c) \/ RecordFailureOf(c)
        PROVE  BreakerInv'
    <2>1. T' = T
      BY <1>5, Zenon DEF RecordSuccessOf, RecordFailureOf, OnTheirWay, CircuitTypeOK
    <2>2. circuit' \in {Succeeded(circuit), Failed(circuit)}
      BY <1>5, Zenon DEF RecordSuccessOf, RecordFailureOf
    <2>3. /\ circuit' \in BreakerEntries
          /\ circuit'.probes \in {0, circuit.probes}
          /\ circuit'.state # "HalfOpen" => circuit'.probes = 0 \/ circuit.state # "HalfOpen"
      BY <1>1, <2>2, EntryOperations, Zenon
    <2>4. CircuitTypeOK'
      BY <1>5, <2>3, Zenon DEF RecordSuccessOf, RecordFailureOf, CircuitTypeOK
    <2> QED
      BY <1>1, <1>2, <2>1, <2>3, <2>4
  <1>6. CASE OpenTimeout
    <2>1. T' = T
      BY <1>6, Zenon DEF OpenTimeout, OnTheirWay
    <2>2. CircuitTypeOK' /\ circuit'.state = circuit.state /\ circuit'.probes = circuit.probes
      BY <1>1, <1>6, Zenon DEF OpenTimeout, CircuitTypeOK, BreakerEntries
    <2> QED
      BY <2>1, <2>2, Zenon
  <1>7. CASE ResetBreaker
    <2>1. CircuitTypeOK' /\ circuit'.state = "Closed" /\ circuit'.probes = 0
      BY <1>1, <1>7, EntryOperations, Zenon DEF ResetBreaker, CircuitTypeOK
    <2> QED
      BY <1>2, <2>1
  <1> QED
    BY <1>3, <1>4, <1>5, <1>6, <1>7, Zenon DEF CircuitNext

(* With fewer callers than probes the breaker never wedges: whatever the   *)
(* order of late transitions, results and resets, a half-open circuit has  *)
(* a probe left.                                                           *)
THEOREM BreakerNeverWedges ==
    CircuitSpec => []BreakerNotWedged
  <1>1. CircuitInit => BreakerInv
    <2> SUFFICES ASSUME CircuitInit PROVE BreakerInv
      BY Zenon
    <2>1. OnTheirWay = {}
      BY Zenon DEF CircuitInit, OnTheirWay
    <2>2. Cardinality({}) = 0 /\ Cardinality(BreakerCallers) \in Nat
      BY FS_EmptySet, CallersAssumption, FS_CardinalityType, Zenon
    <2>3. CircuitTypeOK /\ circuit.probes = 0
      BY BreakerAssumption DEF CircuitInit, CircuitTypeOK, BreakerEntries, NewBreaker
    <2> QED
      BY <2>1, <2>2, <2>3 DEF BreakerInv
  <1>2. BreakerInv /\ [CircuitNext]_circuitVars => BreakerInv'
    <2>1. BreakerInv /\ UNCHANGED circuitVars => BreakerInv'
      BY Zenon DEF BreakerInv, circuitVars, CircuitTypeOK, OnTheirWay
    <2> QED
      BY <2>1, BreakerStep, Zenon
  <1>3. BreakerInv => BreakerNotWedged
    <2> SUFFICES ASSUME BreakerInv, circuit.state = "HalfOpen"
                 PROVE  circuit.probes < MaxHalfOpenProbes
      BY Zenon DEF BreakerInv, BreakerNotWedged, LetThrough, CircuitTypeOK, BreakerEntries
    <2>1. Cardinality(OnTheirWay) \in Nat /\ Cardinality(BreakerCallers) \in Nat
      BY OnTheirWayCounted, Zenon DEF OnTheirWay
    <2>2. circuit.probes \in Nat
      BY Zenon DEF BreakerInv, CircuitTypeOK, BreakerEntries
    <2> QED
      BY <2>1, <2>2, BreakerAssumption, CallersAssumption DEF BreakerInv
  <1> QED
    BY <1>1, <1>2, <1>3, PTL DEF CircuitSpec

-----------------------------------------------------------------------------
(* Wi-Fi Aware.                                                            *)

(* The steps of a request for a data path.                                 *)
PathSteps == {"idle", "checked", "waiting", "confirmed", "expired", "dropped"}

(* The types of the Wi-Fi Aware bridge.                                    *)
PathTypes ==
    /\ pathSender \in [AwarePeers -> PathRequests \cup {NoRequest}]
    /\ pathStep \in [PathRequests -> PathSteps]
    /\ pathPeer \in [PathRequests -> AwarePeers]

(* During a shutdown a path that is open is one it will close, or one      *)
(* opened since.                                                           *)
ShutdownProgress ==
    IF shuttingDown THEN dataPaths \subseteq closing \cup openedSince ELSE closing = {}

(* What every step of the Wi-Fi Aware bridge keeps.                        *)
AwareInv == PathTypes /\ SendersMatchWaiters /\ ShutdownProgress

(* The sender of a peer is dropped: types and the steps of others stay.    *)
LEMMA WithoutSenderSteps ==
    ASSUME PathTypes, NEW p \in AwarePeers
    PROVE  /\ WithoutSender(p, pathStep) \in [PathRequests -> PathSteps]
           /\ \A r \in PathRequests :
                 WithoutSender(p, pathStep)[r] =
                     IF pathSender[p] = r /\ pathStep[r] = "waiting" THEN "dropped" ELSE pathStep[r]
  BY Zenon DEF WithoutSender, PathTypes, PathSteps

(* The types and the senders, step by step.                                *)
LEMMA SendersStep ==
    ASSUME PathTypes, SendersMatchWaiters, AwareNext
    PROVE  PathTypes' /\ SendersMatchWaiters'
  <1> USE PathsAssumption
  <1>1. ASSUME UNCHANGED pathVars
        PROVE  PathTypes' /\ SendersMatchWaiters'
    BY <1>1, Zenon DEF pathVars, PathTypes, SendersMatchWaiters
  <1>2. ASSUME NEW p \in AwarePeers, NEW r \in PathRequests, CheckPath(r, p)
        PROVE  PathTypes' /\ SendersMatchWaiters'
    BY <1>2 DEF CheckPath, GoTo, PathTypes, PathSteps, SendersMatchWaiters
  <1>3. ASSUME NEW r \in PathRequests, NEW taken \in BOOLEAN, RequestPath(r, taken)
        PROVE  PathTypes' /\ SendersMatchWaiters'
    <2> DEFINE p == pathPeer[r]
    <2>1. p \in AwarePeers
      BY Zenon DEF PathTypes
    <2>2. /\ pathSender' = [pathSender EXCEPT ![p] = IF taken THEN r ELSE NoRequest]
          /\ pathStep' = [WithoutSender(p, pathStep) EXCEPT ![r] = IF taken THEN "waiting" ELSE "idle"]
          /\ pathStep[r] = "checked" /\ pathPeer' = pathPeer
      BY <1>3, Zenon DEF RequestPath
    <2>3. PathTypes'
      BY <2>1, <2>2, WithoutSenderSteps, Zenon DEF PathTypes, PathSteps
    <2>4. ASSUME NEW s \in PathRequests
          PROVE  pathStep'[s] = IF s = r THEN (IF taken THEN "waiting" ELSE "idle")
                                ELSE IF pathSender[p] = s /\ pathStep[s] = "waiting" THEN "dropped"
                                ELSE pathStep[s]
      BY <2>1, <2>2, WithoutSenderSteps, Zenon
    <2>5. ASSUME NEW q \in AwarePeers
          PROVE  pathSender'[q] = IF q = p THEN (IF taken THEN r ELSE NoRequest) ELSE pathSender[q]
      BY <2>1, <2>2, Zenon DEF PathTypes
    <2> HIDE DEF p
    <2>6. ASSUME NEW s \in PathRequests, pathStep'[s] = "waiting"
          PROVE  pathSender'[pathPeer'[s]] = s
      <3>1. pathPeer[s] \in AwarePeers
        BY Zenon DEF PathTypes
      <3>2. CASE s = r
        BY <2>2, <2>4, <2>5, <2>6, <3>1, <3>2 DEF p
      <3>3. CASE s # r
        BY <2>2, <2>4, <2>5, <2>6, <3>1, <3>3 DEF SendersMatchWaiters
      <3> QED
        BY <3>2, <3>3, Zenon
    <2>7. ASSUME NEW q \in AwarePeers, pathSender'[q] # NoRequest
          PROVE  pathStep'[pathSender'[q]] \in {"waiting", "expired"} /\ pathPeer'[pathSender'[q]] = q
      <3>1. CASE q = p
        BY <2>2, <2>4, <2>5, <2>7, <3>1, Zenon DEF p
      <3>2. CASE q # p
        <4>1. pathSender'[q] = pathSender[q] /\ pathSender[q] \in PathRequests
          BY <2>5, <2>7, <3>2, Zenon DEF PathTypes
        <4>2. pathStep[pathSender[q]] \in {"waiting", "expired"} /\ pathPeer[pathSender[q]] = q
          BY <2>7, <4>1, Zenon DEF SendersMatchWaiters
        <4>3. pathSender[q] # r /\ pathSender[p] # pathSender[q]
          BY <2>1, <2>2, <2>7, <3>2, <4>1, <4>2, Zenon DEF SendersMatchWaiters, p
        <4> QED
          BY <2>2, <2>4, <4>1, <4>2, <4>3, Zenon
      <3> QED
        BY <3>1, <3>2, Zenon
    <2> QED
      BY <2>3, <2>6, <2>7, Zenon DEF SendersMatchWaiters
  <1>4. ASSUME NEW p \in AwarePeers, ConfirmPath(p)
        PROVE  PathTypes' /\ SendersMatchWaiters'
    <2>1. PathTypes'
      BY <1>4, Zenon DEF ConfirmPath, PathTypes, PathSteps
    <2>2. ASSUME NEW s \in PathRequests, pathStep'[s] = "waiting"
          PROVE  pathSender'[pathPeer'[s]] = s
      BY <1>4, <2>2, Zenon DEF ConfirmPath, PathTypes, SendersMatchWaiters
    <2>3. ASSUME NEW q \in AwarePeers, pathSender'[q] # NoRequest
          PROVE  pathStep'[pathSender'[q]] \in {"waiting", "expired"} /\ pathPeer'[pathSender'[q]] = q
      BY <1>4, <2>3 DEF ConfirmPath, PathTypes, SendersMatchWaiters
    <2> QED
      BY <2>1, <2>2, <2>3, Zenon DEF SendersMatchWaiters
  <1>5. ASSUME NEW r \in PathRequests, ExpirePath(r)
        PROVE  PathTypes' /\ SendersMatchWaiters'
    BY <1>5 DEF ExpirePath, GoTo, PathTypes, PathSteps, SendersMatchWaiters
  <1>6. ASSUME NEW r \in PathRequests, GiveUpPath(r)
        PROVE  PathTypes' /\ SendersMatchWaiters'
    <2> DEFINE p == pathPeer[r]
    <2>1. p \in AwarePeers
      BY Zenon DEF PathTypes
    <2>2. /\ pathSender' = [pathSender EXCEPT ![p] = NoRequest]
          /\ pathStep' = [WithoutSender(p, pathStep) EXCEPT ![r] = "idle"]
          /\ pathStep[r] = "expired" /\ pathPeer' = pathPeer
      BY <1>6, Zenon DEF GiveUpPath
    <2>3. PathTypes'
      BY <2>1, <2>2, WithoutSenderSteps, Zenon DEF PathTypes, PathSteps
    <2>4. ASSUME NEW s \in PathRequests
          PROVE  pathStep'[s] = IF s = r THEN "idle"
                                ELSE IF pathSender[p] = s /\ pathStep[s] = "waiting" THEN "dropped"
                                ELSE pathStep[s]
      BY <2>1, <2>2, WithoutSenderSteps, Zenon
    <2>5. ASSUME NEW q \in AwarePeers
          PROVE  pathSender'[q] = IF q = p THEN NoRequest ELSE pathSender[q]
      BY <2>1, <2>2, Zenon DEF PathTypes
    <2> HIDE DEF p
    <2>6. ASSUME NEW s \in PathRequests, pathStep'[s] = "waiting"
          PROVE  pathSender'[pathPeer'[s]] = s
      <3>1. pathPeer[s] \in AwarePeers /\ s # r
        BY <2>4, <2>6, Zenon DEF PathTypes
      <3> QED
        BY <2>2, <2>4, <2>5, <2>6, <3>1 DEF SendersMatchWaiters
    <2>7. ASSUME NEW q \in AwarePeers, pathSender'[q] # NoRequest
          PROVE  pathStep'[pathSender'[q]] \in {"waiting", "expired"} /\ pathPeer'[pathSender'[q]] = q
      <3>1. q # p /\ pathSender'[q] = pathSender[q] /\ pathSender[q] \in PathRequests
        BY <2>5, <2>7, Zenon DEF PathTypes
      <3>2. pathStep[pathSender[q]] \in {"waiting", "expired"} /\ pathPeer[pathSender[q]] = q
        BY <2>7, <3>1, Zenon DEF SendersMatchWaiters
      <3>3. pathSender[q] # r /\ pathSender[p] # pathSender[q]
        BY <2>1, <2>7, <3>1, <3>2, Zenon DEF SendersMatchWaiters, p
      <3> QED
        BY <2>2, <2>4, <3>1, <3>2, <3>3, Zenon
    <2> QED
      BY <2>3, <2>6, <2>7, Zenon DEF SendersMatchWaiters
  <1>7. ASSUME NEW r \in PathRequests, FailPath(r) \/ OpenPath(r)
        PROVE  PathTypes' /\ SendersMatchWaiters'
    BY <1>7 DEF FailPath, OpenPath, GoTo, PathTypes, PathSteps, SendersMatchWaiters
  <1>8. CASE \/ \E available \in BOOLEAN : Initialize(available)
             \/ PublishService \/ Subscribe \/ BeginShutdown \/ EndShutdown
             \/ \E p \in AwarePeers : RefusePath(p) \/ ClosePath(p)
    BY <1>1, <1>8, Zenon DEF Initialize, PublishService, Subscribe, BeginShutdown, EndShutdown,
                      RefusePath, ClosePath
  <1> QED
    BY <1>2, <1>3, <1>4, <1>5, <1>6, <1>7, <1>8, Zenon DEF AwareNext

(* A shutdown copies the paths it has to close, and what it has not copied *)
(* was opened since.                                                       *)
LEMMA ShutdownStep ==
    ASSUME ShutdownProgress, AwareNext
    PROVE  ShutdownProgress' /\ ShutdownClosesPaths
  <1> USE DEF ShutdownProgress, ShutdownClosesPaths
  <1>1. ASSUME UNCHANGED <<dataPaths, openedSince, closing, shuttingDown>>
        PROVE  ShutdownProgress' /\ ShutdownClosesPaths
    BY <1>1, Zenon
  <1>2. ASSUME NEW r \in PathRequests, OpenPath(r)
        PROVE  ShutdownProgress' /\ ShutdownClosesPaths
    BY <1>2, Zenon DEF OpenPath, shutVars
  <1>3. CASE BeginShutdown
    BY <1>3, Zenon DEF BeginShutdown
  <1>4. ASSUME NEW p \in AwarePeers, ClosePath(p)
        PROVE  ShutdownProgress' /\ ShutdownClosesPaths
    BY <1>4, Zenon DEF ClosePath
  <1>5. CASE EndShutdown
    BY <1>5, Zenon DEF EndShutdown, tableVars
  <1>6. CASE \/ \E available \in BOOLEAN : Initialize(available)
             \/ PublishService \/ Subscribe
             \/ \E p \in AwarePeers : RefusePath(p) \/ ConfirmPath(p)
             \/ \E p \in AwarePeers, r \in PathRequests : CheckPath(r, p)
             \/ \E r \in PathRequests :
                   \/ \E taken \in BOOLEAN : RequestPath(r, taken)
                   \/ ExpirePath(r) \/ GiveUpPath(r) \/ FailPath(r)
    BY <1>1, <1>6, Zenon DEF Initialize, PublishService, Subscribe, RefusePath, ConfirmPath,
       CheckPath,
                      RequestPath, ExpirePath, GiveUpPath, FailPath, tableVars, shutVars
  <1> QED
    BY <1>2, <1>3, <1>4, <1>5, <1>6, Zenon DEF AwareNext

-----------------------------------------------------------------------------
(* Wi-Fi Direct.  What a report still has to write alternates between the  *)
(* state and the information and ends with the information.  A client      *)
(* state seen during a removal was written by a report that crossed it.    *)

(* The call is removing the group.                                         *)
Removing(c) == directCall[c] \in {"removing", "removing for shutdown"}

(* The states that a report of a group writes.                             *)
GroupStates == {"GroupOwner", "GroupClient"}

(* What a report still has to write.                                       *)
Reports ==
    \/ reporting = <<>>
    \/ reporting = <<"info">>
    \/ \E s \in GroupStates : reporting \in {<<s, "info">>, <<"info", s, "info">>, <<s, "info", s, "info">>}

(* A client state is not under removal, unless a report crossed the        *)
(* removal.                                                                *)
ClientUndisturbed ==
    directState = "GroupClient" /\ ~pathsCrossed => \A c \in DirectCallers : ~Removing(c)

(* The transport knows what the bridge knows, and besides that only what   *)
(* the bridge has not been given yet.                                      *)
TablesOverlap ==
    current => bridgePeers \subseteq directPeers /\ directPeers \subseteq bridgePeers \cup sighting

(* The steps of a call to Wi-Fi Direct.                                    *)
CallSteps == {"none", "Discovering", "Connecting", "GroupOwner", "stopping",
              "removing", "removing for shutdown"}

(* What every step of Wi-Fi Direct keeps.                                  *)
DirectInv ==
    /\ groupInfo \in BOOLEAN /\ pathsCrossed \in BOOLEAN /\ wired \in BOOLEAN
    /\ directCall \in [DirectCallers -> CallSteps]
    /\ Reports /\ ClientUndisturbed /\ ClientKnowsGroup /\ TablesOverlap

(* One write of a report: the writes that remain, and what was written.    *)
LEMMA ReportTail ==
    ASSUME Reports, reporting # <<>>
    PROVE  /\ LET reporting_ == Tail(reporting) IN
              \/ reporting_ = <<>>
              \/ reporting_ = <<"info">>
              \/ \E s \in GroupStates : reporting_ \in {<<"info", s, "info">>, <<s, "info">>}
           /\ Head(reporting) = "info" <=> Len(reporting) \in {1, 3}
           /\ Head(reporting) # "info" <=> Len(Tail(reporting)) \in {1, 3}
           /\ Head(reporting) # "info" => Head(reporting) \in GroupStates
  <1> USE DEF GroupStates
  <1>1. CASE reporting = <<"info">>
    BY <1>1
  <1>2. ASSUME NEW s \in GroupStates, reporting = <<s, "info">>
        PROVE  Tail(reporting) = <<"info">> /\ Head(reporting) = s /\ Len(reporting) = 2
                   /\ Len(Tail(reporting)) = 1
    BY <1>2
  <1>3. ASSUME NEW s \in GroupStates, reporting = <<"info", s, "info">>
        PROVE  Tail(reporting) = <<s, "info">> /\ Head(reporting) = "info" /\ Len(reporting) = 3
                   /\ Len(Tail(reporting)) = 2
    BY <1>3
  <1>4. ASSUME NEW s \in GroupStates, reporting = <<s, "info", s, "info">>
        PROVE  Tail(reporting) = <<"info", s, "info">> /\ Head(reporting) = s
                   /\ Len(reporting) = 4 /\ Len(Tail(reporting)) = 3
    BY <1>4
  <1>5. CASE \E s \in GroupStates : reporting = <<s, "info">>
    BY <1>2, <1>5
  <1>6. CASE \E s \in GroupStates : reporting = <<"info", s, "info">>
    BY <1>3, <1>6
  <1>7. CASE \E s \in GroupStates : reporting = <<s, "info", s, "info">>
    BY <1>4, <1>7
  <1> QED
    BY <1>1, <1>5, <1>6, <1>7, Zenon DEF Reports

(* The writes of a report followed by those of the callback, or by none.   *)
LEMMA PairsJoined ==
    ASSUME NEW s, NEW i
    PROVE  /\ <<s, i>> \o <<s, i>> = <<s, i, s, i>>
           /\ <<s, i>> \o <<>> = <<s, i>>
  <1> DEFINE T == {s, i}
  <1>1. /\ <<s, i>> \in Seq(T) /\ <<s, i, s, i>> \in Seq(T)
        /\ Len(<<s, i>>) = 2 /\ Len(<<s, i, s, i>>) = 4
    OBVIOUS
  <1> HIDE DEF T
  <1>2. <<s, i>> \o <<s, i>> \in Seq(T) /\ Len(<<s, i>> \o <<s, i>>) = 4
    BY <1>1
  <1>3. \A k \in 1 .. 4 : (<<s, i>> \o <<s, i>>)[k] = <<s, i, s, i>>[k]
    BY <1>1
  <1>4. <<s, i>> \o <<s, i>> = <<s, i, s, i>>
    BY <1>1, <1>2, <1>3, SeqEqual, Zenon
  <1>5. <<s, i>> \o <<>> = <<s, i>>
    OBVIOUS
  <1> QED
    BY <1>4, <1>5, Zenon

(* Every step of Wi-Fi Direct preserves its invariant.                     *)
LEMMA DirectStep ==
    ASSUME DirectInv, DirectNext
    PROVE  DirectInv'
  <1> USE DEF DirectInv
  <1>1. ASSUME NEW c \in DirectCallers, NEW answer \in BOOLEAN,
               InitializeDirect(c, answer) \/ PlatformAnswers(c, answer)
        PROVE  DirectInv'
    <2>1. TablesOverlap'
      BY <1>1, Zenon DEF InitializeDirect, PlatformAnswers, directTables, TablesOverlap
    <2>2. directState' = "GroupClient" => directState = "GroupClient"
      BY <1>1, Zenon DEF InitializeDirect, PlatformAnswers, InitializedState
    <2>3. /\ directCall' \in [DirectCallers -> CallSteps]
          /\ \A d \in DirectCallers : Removing(d)' => Removing(d)
      BY <1>1, Zenon DEF InitializeDirect, PlatformAnswers, CallSteps, Removing
    <2>4. UNCHANGED <<groupInfo, reporting, pathsCrossed>> /\ wired' \in BOOLEAN
      BY <1>1, Zenon DEF InitializeDirect, PlatformAnswers, reportVars
    <2> QED
      BY <2>1, <2>2, <2>3, <2>4, Zenon DEF Reports, ClientUndisturbed, ClientKnowsGroup
  <1>2. ASSUME NEW c \in DirectCallers, NEW goal \in {"Discovering", "Connecting", "GroupOwner"},
               AskPlatform(c, goal)
        PROVE  DirectInv'
    <2>1. TablesOverlap'
      BY <1>2, Zenon DEF AskPlatform, directTables, TablesOverlap
    <2>2. /\ directCall' \in [DirectCallers -> CallSteps]
          /\ \A d \in DirectCallers : Removing(d)' => Removing(d)
      BY <1>2, Zenon DEF AskPlatform, CallSteps, Removing
    <2>3. UNCHANGED <<groupInfo, reporting, pathsCrossed, wired, directState>>
      BY <1>2, Zenon DEF AskPlatform, reportVars
    <2> QED
      BY <2>1, <2>2, <2>3, Zenon DEF Reports, ClientUndisturbed, ClientKnowsGroup
  <1>3. ASSUME NEW c \in DirectCallers, NEW next \in {"removing", "removing for shutdown"},
               RemoveGroup(c, next)
        PROVE  DirectInv'
    <2>1. TablesOverlap'
      BY <1>3, Zenon DEF RemoveGroup, directTables, TablesOverlap
    <2>2. directCall' \in [DirectCallers -> CallSteps] /\ directState' = "Idle"
      BY <1>3, Zenon DEF RemoveGroup, CallSteps
    <2>3. UNCHANGED <<groupInfo, reporting, pathsCrossed, wired>>
      BY <1>3, Zenon DEF RemoveGroup, reportVars
    <2> QED
      BY <2>1, <2>2, <2>3, Zenon DEF Reports, ClientUndisturbed, ClientKnowsGroup
  <1>4. ASSUME NEW c \in DirectCallers, StopDiscovery(c)
        PROVE  DirectInv'
    <2>1. TablesOverlap'
      BY <1>4, Zenon DEF StopDiscovery, directTables, TablesOverlap
    <2>2. directState' = "GroupClient" => directState = "GroupClient"
      BY <1>4, Zenon DEF StopDiscovery
    <2>3. /\ directCall' \in [DirectCallers -> CallSteps]
          /\ \A d \in DirectCallers : Removing(d)' => Removing(d)
      BY <1>4, Zenon DEF StopDiscovery, CallSteps, Removing
    <2>4. UNCHANGED <<groupInfo, reporting, pathsCrossed, wired>>
      BY <1>4, Zenon DEF StopDiscovery, reportVars
    <2> QED
      BY <2>1, <2>2, <2>3, <2>4, Zenon DEF Reports, ClientUndisturbed, ClientKnowsGroup
  <1>5. ASSUME NEW c \in DirectCallers, ForgetGroup(c)
        PROVE  DirectInv'
    <2>1. TablesOverlap'
      BY <1>5, Zenon DEF ForgetGroup, directTables, TablesOverlap
    <2>2. /\ directCall' \in [DirectCallers -> CallSteps]
          /\ \A d \in DirectCallers : Removing(d)' => Removing(d)
          /\ Removing(c)
      BY <1>5, Zenon DEF ForgetGroup, CallSteps, Removing
    <2>3. UNCHANGED <<directState, reporting, pathsCrossed, wired>> /\ groupInfo' = FALSE
      BY <1>5, Zenon DEF ForgetGroup
    <2> QED
      BY <2>1, <2>2, <2>3, Zenon DEF Reports, ClientUndisturbed, ClientKnowsGroup
  <1>6. ASSUME NEW state \in GroupStates, ReportConnection(state)
        PROVE  DirectInv'
    <2>1. TablesOverlap'
      BY <1>6, Zenon DEF ReportConnection, directTables, TablesOverlap
    <2>2. UNCHANGED <<directState, groupInfo, pathsCrossed, wired, directCall>> /\ reporting = <<>>
      BY <1>6, Zenon DEF ReportConnection
    <2>3. reporting' = <<state, "info">> \/ reporting' = <<state, "info", state, "info">>
      BY <1>6, PairsJoined, Zenon DEF ReportConnection, CallbackWrites
    <2>4. Reports'
      BY <2>3, Zenon DEF Reports
    <2>5. ClientKnowsGroup'
      BY <2>2 DEF ClientKnowsGroup
    <2> QED
      BY <2>1, <2>2, <2>4, <2>5, Zenon DEF ClientUndisturbed, Removing
  <1>7. CASE ReportWrites
    <2>1. TablesOverlap'
      BY <1>7, Zenon DEF ReportWrites, directTables, TablesOverlap
    <2>2. /\ reporting # <<>> /\ reporting' = Tail(reporting)
          /\ UNCHANGED <<wired, directCall>>
          /\ pathsCrossed' = (pathsCrossed \/ \E c \in DirectCallers : Removing(c))
          /\ \/ Head(reporting) = "info" /\ groupInfo' = TRUE /\ directState' = directState
             \/ Head(reporting) # "info" /\ directState' = Head(reporting) /\ groupInfo' = groupInfo
      BY <1>7, Zenon DEF ReportWrites, Removing
    <2>3. Reports'
      BY <2>2, ReportTail, Zenon DEF Reports
    <2>4. ClientKnowsGroup'
      BY <2>2, ReportTail, Zenon DEF ClientKnowsGroup
    <2>5. ClientUndisturbed' /\ pathsCrossed' \in BOOLEAN /\ groupInfo' \in BOOLEAN
      BY <2>2, Zenon DEF ClientUndisturbed, Removing
    <2> QED
      BY <2>1, <2>2, <2>3, <2>4, <2>5, Zenon
  <1>8. ASSUME NEW p \in DirectPeers, SightDevice(p) \/ HandlePeersChanged(p)
        PROVE  DirectInv'
    <2>1. TablesOverlap'
      BY <1>8, Zenon DEF SightDevice, HandlePeersChanged, TablesOverlap
    <2>2. UNCHANGED <<directState, wired, directCall, groupInfo, reporting, pathsCrossed>>
      BY <1>8, Zenon DEF SightDevice, HandlePeersChanged, reportVars
    <2> QED
      BY <2>1, <2>2, Zenon DEF Reports, ClientUndisturbed, ClientKnowsGroup, Removing
  <1> QED
    BY <1>1, <1>2, <1>3, <1>4, <1>5, <1>6, <1>7, <1>8, Zenon DEF DirectNext, GroupStates

(* Wi-Fi Aware and Wi-Fi Direct, side by side, for any peers, devices,     *)
(* calls, requests and any limit: senders of the bridge are those of the   *)
(* requests that wait, a shutdown closes every path it found, and state,   *)
(* group and devices of Wi-Fi Direct agree.                                *)
THEOREM PathsStaySound ==
    AwareSpec /\ DirectSpec => PathsSound
  <1>1. AwareInit => AwareInv
    BY Zenon DEF AwareInit, AwareInv, PathTypes, PathSteps, SendersMatchWaiters, ShutdownProgress
  <1>2. DirectInit => DirectInv
    BY Zenon DEF DirectInit, DirectInv, CallSteps, Reports, ClientUndisturbed, ClientKnowsGroup,
       TablesOverlap
  <1>3. AwareInv /\ [AwareNext]_awareVars => AwareInv' /\ ShutdownClosesPaths
    <2>1. AwareInv /\ UNCHANGED awareVars => AwareInv' /\ ShutdownClosesPaths
      <3> SUFFICES ASSUME AwareInv, UNCHANGED awareVars PROVE AwareInv' /\ ShutdownClosesPaths
        BY Zenon
      <3>1. PathTypes' /\ SendersMatchWaiters'
        BY Zenon DEF AwareInv, awareVars, PathTypes, SendersMatchWaiters
      <3>2. ShutdownProgress'
        BY Zenon DEF AwareInv, awareVars, ShutdownProgress
      <3>3. ShutdownClosesPaths
        BY Zenon DEF awareVars, ShutdownClosesPaths
      <3> QED
        BY <3>1, <3>2, <3>3, Zenon DEF AwareInv
    <2> QED
      BY <2>1, SendersStep, ShutdownStep, Zenon DEF AwareInv
  <1>4. DirectInv /\ [DirectNext]_directVars => DirectInv'
    <2>1. DirectInv /\ UNCHANGED directVars => DirectInv'
      <3> SUFFICES ASSUME DirectInv, UNCHANGED directVars
                   PROVE  DirectInv'
        BY Zenon
      <3>1. UNCHANGED <<directState, groupInfo, wired, directCall, reporting, pathsCrossed>>
        BY Zenon DEF directVars
      <3>2. Reports' /\ ClientUndisturbed' /\ ClientKnowsGroup'
        BY <3>1, Zenon DEF DirectInv, Reports, ClientUndisturbed, ClientKnowsGroup, Removing
      <3>3. TablesOverlap'
        BY Zenon DEF DirectInv, directVars, TablesOverlap
      <3> QED
        BY <3>1, <3>2, <3>3, Zenon DEF DirectInv
    <2> QED
      BY <2>1, DirectStep, Zenon
  <1>5. AwareInv => SendersMatchWaiters
    BY Zenon DEF AwareInv
  <1>6. DirectInv => ClientKnowsGroup /\ DeviceTablesAgree
    BY Zenon DEF DirectInv, TablesOverlap, DeviceTablesAgree
  <1> QED
    BY <1>1, <1>2, <1>3, <1>4, <1>5, <1>6, PTL DEF AwareSpec, DirectSpec, PathsSound
=============================================================================
