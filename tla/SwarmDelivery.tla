---------------------------- MODULE SwarmDelivery ----------------------------
(***************************************************************************)
(* The command side of the swarm task (core/src/transport/swarm.rs): what  *)
(* a SwarmHandle call goes through from the command channel to its reply.  *)
(* A message is dispatched on a first route, kept in pending_messages, and *)
(* dispatched again by the 500 ms retry tick on the next ranked route      *)
(* (mesh_routing.rs) until a peer accepts it, a relay refuses it for good, *)
(* or a delivery marker reports it delivered.  Registrations and address   *)
(* reflections keep their reply channel in a table of their own.           *)
(*                                                                         *)
(* A message is identified by its target and the millisecond it was taken  *)
(* in (swarm.rs:3952); one target is modelled, so the millisecond is the   *)
(* identifier, and two messages taken in one millisecond share it.         *)
(***************************************************************************)
EXTENDS Integers, Sequences, FiniteSets, TLC

CONSTANTS
    Calls,          \* calls of SwarmHandle
    Kinds,          \* the kinds of command each call may be
    DeliveryRelays, \* relays that can carry a message to the target
    MaxMillis,      \* bound: last millisecond of the clock
    MaxDispatches,  \* bound: dispatches of one message
    MaxPaceTime,    \* bound on the clock of the retry tick, in milliseconds
    MaxLeap,        \* bound on how far the clock is set forward between two dispatches
    MaxPaceSteps    \* bound on failures and passes

ASSUME DeliveryAssumption ==
    /\ Kinds \in [Calls -> SUBSET {"send", "register", "reflect", "query", "endpoint",
                                   "ranking", "post", "shutdown"}]
    /\ MaxMillis \in Nat /\ MaxDispatches \in Nat \ {0}

VARIABLES
    kindOf,     \* the command of each call
    call,       \* what the caller of each call has seen
    commands,   \* the command channel
    swarmUp,    \* the task runs
    millis,     \* the wall clock
    pendingMsg, \* pending_messages
    attempts,   \* MultiPathDelivery::attempts
    inFlight,   \* requests of request_to_message and pending_relay_requests
    awaited,    \* pending_registration_replies and pending_reflections
    relayRep,   \* ReputationTracker: statistics of the relays met so far
    relayed,    \* messages in custody of a relay, and whose envelope it holds
    markersSeen,\* seen_delivery_convergence_markers
    accepted,   \* calls whose envelope a peer or a relay took
    collided    \* calls that shared their identifier with another one

VARIABLES
    pacing,     \* one pending message: attempt_start, failures, pass_count, path index
    wallClock,  \* SystemTime, in milliseconds
    realTime,   \* the time that has passed (ghost)
    leapt,      \* how far the clock was set forward since its last dispatch (ghost)
    paceGap,    \* the same and what passed and was due, between its last two (ghost)
    sentAt      \* realTime of its last dispatch (ghost)

paceVars == <<pacing, wallClock, realTime, leapt, paceGap, sentAt>>
multiPathVars == <<attempts, relayRep>>
deliveryVars == <<kindOf, call, commands, swarmUp, millis, pendingMsg, attempts, inFlight, awaited,
                  relayRep, relayed, markersSeen, accepted, collided>>

MsgIds == 0 .. MaxMillis
Direct == "direct"
Unsent == <<>>

DeliveryTypeOK ==
    /\ \A c \in Calls : kindOf[c] \in Kinds[c]
    /\ call \in [Calls -> {"idle", "queued", "waiting", "ok", "error"}]
    /\ swarmUp \in BOOLEAN /\ millis \in MsgIds
    /\ \A i \in MsgIds : pendingMsg[i] # Unsent =>
            pendingMsg[i] \in [call : Calls, index : 0 .. 2, notified : BOOLEAN,
                               dispatches : 1 .. MaxDispatches]
    /\ attempts \subseteq MsgIds
    /\ inFlight \subseteq [call : Calls, id : MsgIds, via : {Direct} \cup DeliveryRelays,
                           n : 1 .. MaxDispatches]
    /\ awaited \subseteq Calls /\ accepted \subseteq Calls /\ collided \subseteq Calls
    /\ \A r \in DOMAIN relayRep : relayRep[r].good <= relayRep[r].used

DeliveryInit ==
    /\ kindOf \in {k \in [Calls -> UNION {Kinds[c] : c \in Calls}] : \A c \in Calls : k[c] \in Kinds[c]}
    /\ call = [c \in Calls |-> "idle"]
    /\ commands = <<>> /\ swarmUp = TRUE /\ millis = 0
    /\ pendingMsg = [i \in MsgIds |-> Unsent]
    /\ attempts = {} /\ inFlight = {} /\ awaited = {}
    /\ relayRep = <<>>
    /\ relayed = {} /\ markersSeen = {} /\ accepted = {} /\ collided = {}

-----------------------------------------------------------------------------
(* The handle.  A call sends its command and waits for one reply; once the *)
(* task is gone the send fails.                                            *)

Call(c) ==
    /\ call[c] = "idle"
    /\ IF swarmUp
          THEN call' = [call EXCEPT ![c] = "queued"] /\ commands' = Append(commands, c)
          ELSE call' = [call EXCEPT ![c] = "error"] /\ UNCHANGED commands
    /\ UNCHANGED <<kindOf, swarmUp, millis, pendingMsg, attempts, inFlight, awaited, relayRep, relayed,
                   markersSeen, accepted, collided>>

(* Topics, ledgers, addresses and the relay budget are posted: the call    *)
(* ends when the command is in the channel.                                *)
PostCall(c) ==
    /\ kindOf[c] = "post" /\ call[c] = "idle"
    /\ IF swarmUp
          THEN call' = [call EXCEPT ![c] = "ok"] /\ commands' = Append(commands, c)
          ELSE call' = [call EXCEPT ![c] = "error"] /\ UNCHANGED commands
    /\ UNCHANGED <<kindOf, swarmUp, millis, pendingMsg, multiPathVars, inFlight, awaited, relayed,
                   markersSeen, accepted, collided>>

SendMessageCall(c)  == kindOf[c] = "send" /\ Call(c)
RegistrationCall(c) == kindOf[c] = "register" /\ Call(c)
ReflectionCall(c)   == kindOf[c] = "reflect" /\ Call(c)
QueryCall(c)        == kindOf[c] = "query" /\ Call(c)
EndpointCall(c)     == kindOf[c] = "endpoint" /\ Call(c)
RankingCall(c)      == kindOf[c] = "ranking" /\ Call(c)
ShutdownCall(c)     == kindOf[c] = "shutdown" /\ Call(c)

(* The clock of the identifiers.                                           *)
NextMillisecond ==
    /\ swarmUp /\ millis < MaxMillis
    /\ millis' = millis + 1
    /\ UNCHANGED <<kindOf, call, commands, swarmUp, pendingMsg, attempts, inFlight, awaited, relayRep,
                   relayed, markersSeen, accepted, collided>>

-----------------------------------------------------------------------------
(* Replies.  The reply channel holds one value and its caller reads one:   *)
(* a later reply finds the receiver gone.                                  *)

Replied(calls, c, result) == IF calls[c] = "waiting" THEN [calls EXCEPT ![c] = result] ELSE calls

(* RelayReputation::calculate_score in whole points: 70 for the success    *)
(* rate, 5 to 20 for the latency, 10 for a relay used within the minute,   *)
(* which it always is when the score is computed.                          *)
LatencyPoints(ms) == IF ms < 100 THEN 20 ELSE IF ms < 500 THEN 15 ELSE IF ms < 1000 THEN 10 ELSE 5
NewRelay == [used |-> 0, good |-> 0, latency |-> 0]
Reliable(r) ==
    LET s == relayRep[r] IN
    s.used = 0 \/ 70 * s.good + (LatencyPoints(s.latency) + 10) * s.used >= 50 * s.used
RelayAttempt(r, success, ms) ==
    [relayRep EXCEPT ![r] = [used |-> @.used + 1, good |-> @.good + (IF success THEN 1 ELSE 0),
                             latency |-> (@.latency + ms) \div 2]]

(* add_relay: a peer that connects is a relay candidate from then on.      *)
AddRelay(r) ==
    /\ swarmUp /\ r \notin DOMAIN relayRep
    /\ relayRep' = relayRep @@ (r :> NewRelay)
    /\ UNCHANGED <<kindOf, call, commands, swarmUp, millis, pendingMsg, attempts, inFlight, awaited,
                   relayed, markersSeen, accepted, collided>>

(* The bookkeeping of MultiPathDelivery: an attempt per message, from its  *)
(* dispatch to its success or its convergence; only a route with a relay   *)
(* touches a reputation, and a failure only while the attempt stands.      *)
StartDelivery(id) == attempts' = attempts \cup {id}
RecordSuccess(id, via) ==
    /\ attempts' = attempts \ {id}
    /\ IF via = Direct THEN UNCHANGED relayRep
       ELSE \E ms \in {50, 700} : relayRep' = RelayAttempt(via, TRUE, ms)
RecordFailure(id, via) ==
    /\ relayRep' = IF id \in attempts /\ via # Direct THEN RelayAttempt(via, FALSE, 10000) ELSE relayRep
    /\ UNCHANGED attempts
ConvergeDelivery(id) == attempts' = attempts \ {id}

(* ranked_routes(target, 3): direct first, then at most two reliable       *)
(* relays; which two, and their order, is left open.                       *)
RankedRoutes ==
    LET reliable == {r \in DOMAIN relayRep : Reliable(r)}
        count    == IF Cardinality(reliable) < 2 THEN Cardinality(reliable) ELSE 2
    IN  {<<Direct>> \o s : s \in {t \in [1 .. count -> reliable] :
                                    \A i, j \in 1 .. count : t[i] = t[j] => i = j}}

(* routing_decision_to_ranked_routes.  A hop of the routing engine is a    *)
(* bare key, which does not parse as a peer id: a gateway or a global      *)
(* route gives no route, and neither does an alternative.                  *)
NextHops == {"Direct", "Gateway", "GlobalRoute", "StoreAndCarry", "RouteDiscovery"}
RoutesOf(hop) ==
    CASE hop \in {"Direct", "StoreAndCarry"} -> {<<Direct>>}
      [] hop = "RouteDiscovery" -> RankedRoutes
      [] OTHER -> {<<>>}

(* dispatch_ranked_route: one request, to the target or to the relay.      *)
Dispatched(c, id, via, n) == [call |-> c, id |-> id, via |-> via, n |-> n]

(* The loop takes the next command.                                        *)
Take(c, kind) == swarmUp /\ commands # <<>> /\ c = Head(commands) /\ kindOf[c] = kind

(* SendMessage on the first route there is; the previous message of this   *)
(* identifier loses its reply channel.                                     *)
SendOn(c, via) ==
    LET id    == millis
        older == pendingMsg[id]
        same  == {d \in Calls : \E r \in inFlight : r.id = id /\ r.call = d}
                    \cup (IF older = Unsent THEN {} ELSE {older.call})
                    \cup {d \in Calls : <<id, d>> \in relayed}
    IN
    /\ pendingMsg' = [pendingMsg EXCEPT ![id] =
                        [call |-> c, index |-> 0, notified |-> FALSE, dispatches |-> 1]]
    /\ inFlight' = inFlight \cup {Dispatched(c, id, via, 1)}
    /\ call' = [(IF older = Unsent THEN call ELSE Replied(call, older.call, "error"))
                    EXCEPT ![c] = "waiting"]
    /\ collided' = collided \cup (IF same = {} THEN {} ELSE same \cup {c})

SendMessage(c) ==
    /\ Take(c, "send")
    /\ commands' = Tail(commands)
    /\ StartDelivery(millis)
    /\ \E hop \in NextHops : \E routes \in RoutesOf(hop) :
          IF routes = <<>>
             THEN call' = [call EXCEPT ![c] = "error"] /\ UNCHANGED <<pendingMsg, inFlight, collided>>
             ELSE SendOn(c, routes[1])
    /\ UNCHANGED <<kindOf, swarmUp, millis, awaited, relayRep, relayed, markersSeen, accepted>>

(* RegisterIdentity, DeregisterIdentity, RequestAddressReflection: the     *)
(* request is sent and the reply channel kept.                             *)
AwaitReply(c) ==
    /\ commands' = Tail(commands)
    /\ awaited' = awaited \cup {c}
    /\ call' = [call EXCEPT ![c] = "waiting"]
    /\ UNCHANGED <<kindOf, swarmUp, millis, pendingMsg, attempts, inFlight, relayRep, relayed, markersSeen,
                   accepted, collided>>
RegisterWithPeer(c)  == Take(c, "register") /\ AwaitReply(c)
RequestReflection(c) == Take(c, "reflect") /\ AwaitReply(c)

(* The commands answered at once: external addresses, dial, peers and      *)
(* listen, which may fail, and the endpoint commands, which do not.        *)
AnswerNow(c, result) ==
    /\ commands' = Tail(commands)
    /\ call' = [call EXCEPT ![c] = result]
    /\ UNCHANGED <<kindOf, swarmUp, millis, pendingMsg, attempts, inFlight, awaited, relayRep, relayed,
                   markersSeen, accepted, collided>>

AnswerQuery(c)    == Take(c, "query") /\ \E result \in {"ok", "error"} : AnswerNow(c, result)
AnswerEndpoint(c) == Take(c, "endpoint") /\ AnswerNow(c, "ok")
AnswerRanking(c)  == Take(c, "ranking") /\ AnswerNow(c, "ok")

(* A posted command changes the topics, the ledger or the budget, which    *)
(* SwarmConnections, LedgerExchange and RelayAdmission model.              *)
TakePost(c) ==
    /\ Take(c, "post")
    /\ commands' = Tail(commands)
    /\ UNCHANGED <<kindOf, call, swarmUp, millis, pendingMsg, multiPathVars, inFlight, awaited, relayed,
                   markersSeen, accepted, collided>>

(* Shutdown leaves the loop: its tables and the command channel are        *)
(* dropped, and every reply channel in them.                               *)
Shutdown(c) ==
    /\ Take(c, "shutdown")
    /\ swarmUp' = FALSE
    /\ commands' = <<>> /\ pendingMsg' = [i \in MsgIds |-> Unsent]
    /\ attempts' = {} /\ inFlight' = {} /\ awaited' = {} /\ markersSeen' = {}
    /\ call' = [d \in Calls |-> IF d = c THEN "ok"
                                ELSE IF call[d] \in {"queued", "waiting"} THEN "error" ELSE call[d]]
    /\ UNCHANGED <<kindOf, millis, relayRep, relayed, accepted, collided>>

-----------------------------------------------------------------------------
(* Answers to requests.                                                    *)

Drop(r) == inFlight' = inFlight \ {r}
Tracked(r) == pendingMsg[r.id] # Unsent
Close(id) == pendingMsg' = [pendingMsg EXCEPT ![id] = Unsent]

(* The target answered a direct request (swarm.rs:2619).                   *)
(* Mutant: a refused message has its delivery attempt removed, as an       *)
(* accepted one has, and is kept pending.                                  *)
DirectResponseForgets(r, yes) ==
    /\ swarmUp /\ r \in inFlight /\ r.via = Direct
    /\ Drop(r)
    /\ accepted' = IF yes THEN accepted \cup {r.call} ELSE accepted
    /\ attempts' = IF Tracked(r) THEN attempts \ {r.id} ELSE attempts
    /\ IF Tracked(r) /\ yes
          THEN Close(r.id) /\ call' = Replied(call, pendingMsg[r.id].call, "ok")
          ELSE UNCHANGED <<pendingMsg, call>>
    /\ UNCHANGED <<kindOf, commands, swarmUp, millis, awaited, relayRep, relayed, markersSeen, collided>>

DirectResponse(r, yes) ==
    /\ swarmUp /\ r \in inFlight /\ r.via = Direct
    /\ Drop(r)
    /\ accepted' = IF yes THEN accepted \cup {r.call} ELSE accepted
    /\ IF Tracked(r) /\ yes
          THEN /\ RecordSuccess(r.id, Direct)
               /\ Close(r.id)
               /\ call' = Replied(call, pendingMsg[r.id].call, "ok")
          ELSE UNCHANGED <<multiPathVars, pendingMsg, call>>
    /\ UNCHANGED <<kindOf, commands, swarmUp, millis, awaited, relayed, markersSeen, collided>>

(* A direct request failed; the target may have taken the envelope and its *)
(* answer been lost.                                                       *)
DirectFailure(r) ==
    /\ swarmUp /\ r \in inFlight /\ r.via = Direct
    /\ Drop(r)
    /\ accepted' \in {accepted, accepted \cup {r.call}}
    /\ UNCHANGED <<kindOf, call, commands, swarmUp, millis, pendingMsg, attempts, awaited, relayRep,
                   relayed, markersSeen, collided>>

(* A relay takes the envelope into custody, unless it already holds that   *)
(* identifier: then it confirms the earlier one.                           *)
TakenByRelay(r) ==
    IF \E d \in Calls : <<r.id, d>> \in relayed
       THEN UNCHANGED <<relayed, accepted>>
       ELSE relayed' = relayed \cup {<<r.id, r.call>>} /\ accepted' = accepted \cup {r.call}

RelayAccepts(r) ==
    /\ swarmUp /\ r \in inFlight /\ r.via # Direct
    /\ Drop(r)
    /\ TakenByRelay(r)
    /\ IF Tracked(r)
          THEN /\ RecordSuccess(r.id, r.via)
               /\ Close(r.id)
               /\ call' = Replied(call, pendingMsg[r.id].call, "ok")
          ELSE UNCHANGED <<multiPathVars, pendingMsg, call>>
    /\ UNCHANGED <<kindOf, commands, swarmUp, millis, awaited, markersSeen, collided>>

(* A relay refuses: for good when the recipient's registration says so     *)
(* (is_terminal_identity_rejection).                                       *)
Terminal(error) == error \in {"identity_device_mismatch", "identity_abandoned"}
RelayRefuses(r, error) ==
    /\ swarmUp /\ r \in inFlight /\ r.via # Direct
    /\ Drop(r)
    /\ IF Tracked(r) THEN RecordFailure(r.id, r.via) ELSE UNCHANGED multiPathVars
    /\ IF Tracked(r) /\ Terminal(error)
          THEN Close(r.id) /\ call' = Replied(call, pendingMsg[r.id].call, "error")
          ELSE UNCHANGED <<pendingMsg, call>>
    /\ UNCHANGED <<kindOf, commands, swarmUp, millis, awaited, relayed, markersSeen, accepted, collided>>

(* A request to a relay failed; the relay may have taken the envelope.     *)
RelayFailure(r) ==
    /\ swarmUp /\ r \in inFlight /\ r.via # Direct
    /\ Drop(r)
    /\ TakenByRelay(r) \/ UNCHANGED <<relayed, accepted>>
    /\ IF Tracked(r) THEN RecordFailure(r.id, r.via) ELSE UNCHANGED multiPathVars
    /\ UNCHANGED <<kindOf, call, commands, swarmUp, millis, pendingMsg, awaited, markersSeen, collided>>

(* A delivery marker for a message in custody of a relay; markers of       *)
(* messages that are not tracked are ignored.                              *)
PurgeRequests(id) == {r \in inFlight : r.id # id}

(* Mutant: the marker closes every message pending for its destination.    *)
DeliveryMarkerForAll(id) ==
    /\ swarmUp /\ id \notin markersSeen /\ \E d \in Calls : <<id, d>> \in relayed
    /\ pendingMsg[id] # Unsent \/ \E r \in inFlight : r.id = id
    /\ markersSeen' = markersSeen \cup {id}
    /\ inFlight' = {}
    /\ attempts' = {}
    /\ pendingMsg' = [i \in MsgIds |-> Unsent]
    /\ call' = [c \in Calls |-> IF call[c] = "waiting" /\ \E i \in MsgIds :
                                        pendingMsg[i] # Unsent /\ pendingMsg[i].call = c
                                   THEN "ok" ELSE call[c]]
    /\ UNCHANGED <<kindOf, commands, swarmUp, millis, awaited, relayRep, relayed, accepted, collided>>

DeliveryMarker(id) ==
    /\ swarmUp /\ id \notin markersSeen /\ \E d \in Calls : <<id, d>> \in relayed
    /\ pendingMsg[id] # Unsent \/ \E r \in inFlight : r.id = id
    /\ markersSeen' = markersSeen \cup {id}
    /\ inFlight' = PurgeRequests(id)
    /\ ConvergeDelivery(id)
    /\ Close(id)
    /\ call' = IF pendingMsg[id] = Unsent THEN call ELSE Replied(call, pendingMsg[id].call, "ok")
    /\ UNCHANGED <<kindOf, commands, swarmUp, millis, awaited, relayRep, relayed, accepted, collided>>

(* The answers the other tables wait for.  A registration that fails is    *)
(* reported; a reflection that fails is not handled, and stays.            *)
RegistrationResponse(c, result) ==
    /\ swarmUp /\ c \in awaited /\ kindOf[c] = "register"
    /\ awaited' = awaited \ {c}
    /\ call' = Replied(call, c, result)
    /\ UNCHANGED <<kindOf, commands, swarmUp, millis, pendingMsg, attempts, inFlight, relayRep, relayed,
                   markersSeen, accepted, collided>>
ReflectionResponse(c) ==
    /\ swarmUp /\ c \in awaited /\ kindOf[c] = "reflect"
    /\ awaited' = awaited \ {c}
    /\ call' = Replied(call, c, "ok")
    /\ UNCHANGED <<kindOf, commands, swarmUp, millis, pendingMsg, attempts, inFlight, relayRep, relayed,
                   markersSeen, accepted, collided>>

(* Mutant: the failure of a registration request is not handled either.    *)
RegistrationFailureIgnored(c) == FALSE /\ RegistrationResponse(c, "error")

RegistrationFailure(c) == RegistrationResponse(c, "error")

-----------------------------------------------------------------------------
(* The retry tick: every message that is due moves to its next route; the  *)
(* first time it comes back to the first route its caller is told.         *)

Due(id) == pendingMsg[id] # Unsent /\ id \in attempts /\ pendingMsg[id].dispatches < MaxDispatches

AdvanceRoute(p, routes) ==
    LET next == p.index + 1
        wrap == next >= Len(routes)
    IN  [p EXCEPT !.index = IF wrap THEN 0 ELSE next,
                  !.notified = @ \/ wrap,
                  !.dispatches = @ + 1]

RetryTick(due) ==
    /\ swarmUp /\ due # {} /\ \A id \in due : Due(id)
    /\ \E routes \in RankedRoutes :
          LET next == [id \in MsgIds |-> IF id \in due THEN AdvanceRoute(pendingMsg[id], routes)
                                                       ELSE pendingMsg[id]]
          IN  /\ pendingMsg' = next
              /\ inFlight' = inFlight \cup
                    {Dispatched(next[id].call, id, routes[next[id].index + 1], next[id].dispatches)
                        : id \in due}
              /\ call' = [c \in Calls |->
                            IF \E id \in due : next[id].call = c /\ next[id].notified
                               THEN Replied(call, c, "error")[c] ELSE call[c]]
    /\ UNCHANGED <<kindOf, commands, swarmUp, millis, attempts, awaited, relayRep, relayed, markersSeen,
                   accepted, collided>>

-----------------------------------------------------------------------------
Resolve(r) ==
    \/ \E yes \in BOOLEAN : DirectResponse(r, yes)
    \/ DirectFailure(r)
    \/ RelayAccepts(r)
    \/ \E error \in {"identity_abandoned", "relay_budget_exhausted"} : RelayRefuses(r, error)
    \/ RelayFailure(r)

Serve(c) ==
    \/ SendMessage(c) \/ RegisterWithPeer(c) \/ RequestReflection(c)
    \/ AnswerQuery(c) \/ AnswerEndpoint(c) \/ AnswerRanking(c) \/ TakePost(c) \/ Shutdown(c)

DeliveryNext ==
    \/ \E c \in Calls : \/ SendMessageCall(c) \/ RegistrationCall(c) \/ ReflectionCall(c)
                        \/ QueryCall(c) \/ EndpointCall(c) \/ RankingCall(c) \/ PostCall(c)
                        \/ ShutdownCall(c)
                        \/ Serve(c)
                        \/ RegistrationResponse(c, "ok") \/ RegistrationFailure(c)
                        \/ ReflectionResponse(c)
    \/ \E r \in inFlight : Resolve(r)
    \/ \E id \in MsgIds : DeliveryMarker(id)
    \/ \E due \in SUBSET MsgIds : RetryTick(due)
    \/ \E r \in DeliveryRelays : AddRelay(r)
    \/ NextMillisecond

DeliverySpec == DeliveryInit /\ [][DeliveryNext]_deliveryVars

(* The loop keeps taking commands and retry ticks; every request is        *)
(* answered or times out, and a registration request with it.              *)
DeliveryFairness ==
    /\ \A c \in Calls : WF_deliveryVars(Serve(c))
    /\ \A c \in Calls : WF_deliveryVars(RegistrationFailure(c))
    /\ WF_deliveryVars(\E r \in inFlight : Resolve(r))
    /\ \A id \in MsgIds : WF_deliveryVars(\E due \in SUBSET MsgIds : id \in due /\ RetryTick(due))

DeliveryLiveSpec == DeliverySpec /\ DeliveryFairness

-----------------------------------------------------------------------------
(* The pace of the retries of one pending message.  Each recorded failure  *)
(* multiplies the delay by 1.5, each pass over the routes doubles another  *)
(* one, and the longer of the two has to elapse on the wall clock.         *)

RETRY_TICK == 500
MAX_DELAY == 30000
AtMost(a, b) == IF a < b THEN a ELSE b
AtLeast(a, b) == IF a > b THEN a ELSE b

RetryDelay(attempt) == AtMost((100 * 3^attempt) \div 2^attempt, MAX_DELAY)

PassDelay(passes) == IF passes = 0 THEN 0 ELSE AtMost(1000 * 2^(passes - 1), MAX_DELAY)

NewAttempt(now) == [start |-> now, failures |-> 0, passes |-> 0, index |-> 0]
RetryWait == AtLeast(RetryDelay(pacing.failures), PassDelay(pacing.passes))

(* SystemTime::elapsed fails when the clock was set back; the code then    *)
(* takes zero.                                                             *)
PaceElapsed == AtLeast(0, wallClock - pacing.start)

(* advance_route_cursor *)
AdvanceRouteCursor(index, count) ==
    IF index + 1 >= count THEN [next |-> 0, wrapped |-> TRUE] ELSE [next |-> index + 1, wrapped |-> FALSE]

(* Mutant: the start of the attempt is not renewed. *)
RedispatchedFromStart(count) ==
    LET cursor == AdvanceRouteCursor(pacing.index, count)
    IN  [pacing EXCEPT !.index = cursor.next, !.passes = IF cursor.wrapped THEN @ + 1 ELSE @]
Redispatched(count) ==
    LET cursor == AdvanceRouteCursor(pacing.index, count)
    IN  [pacing EXCEPT !.index = cursor.next, !.start = wallClock,
                       !.passes = IF cursor.wrapped THEN @ + 1 ELSE @]

PaceInit ==
    /\ wallClock = 2 * RETRY_TICK /\ realTime = 0 /\ sentAt = 0 /\ leapt = 0
    /\ pacing = NewAttempt(wallClock)
    /\ paceGap = [passed |-> 0, leapt |-> 0, due |-> 0]

PaceTick(count) ==
    /\ realTime < MaxPaceTime /\ pacing.passes < MaxPaceSteps
    /\ realTime' = realTime + RETRY_TICK /\ wallClock' = wallClock + RETRY_TICK
    /\ IF count = 0 \/ PaceElapsed < RetryWait
         THEN UNCHANGED <<pacing, leapt, paceGap, sentAt>>
         ELSE /\ pacing' = Redispatched(count)
              /\ paceGap' = [passed |-> realTime - sentAt, leapt |-> leapt, due |-> RetryWait]
              /\ sentAt' = realTime /\ leapt' = 0

(* DeliveryAttempt::record_failure *)
PaceFailure ==
    /\ pacing.failures < MaxPaceSteps
    /\ pacing' = [pacing EXCEPT !.failures = @ + 1]
    /\ UNCHANGED <<wallClock, realTime, leapt, paceGap, sentAt>>

(* The system clock is corrected backwards or forwards.                    *)
ClockSetBack ==
    /\ wallClock >= 2 * RETRY_TICK
    /\ wallClock' = wallClock - 2 * RETRY_TICK
    /\ UNCHANGED <<pacing, realTime, leapt, paceGap, sentAt>>

ClockSetForward ==
    /\ wallClock + 2 * RETRY_TICK <= MaxPaceTime /\ leapt + 2 * RETRY_TICK <= MaxLeap
    /\ wallClock' = wallClock + 2 * RETRY_TICK /\ leapt' = leapt + 2 * RETRY_TICK
    /\ UNCHANGED <<pacing, realTime, paceGap, sentAt>>

PaceNext == (\E count \in 0 .. 3 : PaceTick(count)) \/ PaceFailure \/ ClockSetBack \/ ClockSetForward

PaceSpec == PaceInit /\ [][PaceNext]_paceVars

-----------------------------------------------------------------------------
(* A caller told that its message was sent had that very message taken by  *)
(* its target or by a relay, whichever of the requests of its retries      *)
(* succeeded, and whether a response or a delivery marker said so; the one *)
(* exception the code leaves is a message that shared its target and       *)
(* millisecond, and so its identifier, with another one.                   *)
OkMeansAccepted ==
    \A c \in Calls : kindOf[c] = "send" /\ call[c] = "ok" => c \in accepted \cup collided

(* A pending message always has its delivery attempt: the retry tick skips *)
(* a message without one, which would stay pending and never be sent       *)
(* again.                                                                  *)
PendingIsRetried == \A id \in MsgIds : pendingMsg[id] # Unsent => id \in attempts

(* Every send and every registration returns: with its result, or with an  *)
(* error when the routes were tried once in vain, another message took its *)
(* identifier or the swarm stopped.                                        *)
EveryCallAnswered ==
    \A c \in Calls : kindOf[c] \in {"send", "register", "query", "endpoint", "ranking"} /\ call[c] = "queued"
                        ~> call[c] \in {"ok", "error"}

(* A pending message is sent again only after the backoff of its failures  *)
(* and of its passes over the routes, which the tick measures on a wall    *)
(* clock: however the clock is corrected, the message goes early by no     *)
(* more than the clock was set forward since it was last sent.             *)
RetriesPaced == paceGap.passed + paceGap.leapt >= paceGap.due

(* The bookkeeping of sends, through retries, markers and colliding        *)
(* identifiers: a success was accepted by the peer, and what is pending    *)
(* will be tried again, but not before its backoff on the clock.           *)
SendsSound ==
    OkMeansAccepted /\ PendingIsRetried /\ RetriesPaced
=============================================================================
