---------------------------- MODULE RoutingRoutes ----------------------------
(* The routing layers above the local cell (core/src/routing): the table of   *)
(* advertised routes (global.rs), the negative cache of unreachable peers     *)
(* behind its Bloom filter (negative_cache.rs), the routes kept across an app *)
(* background period (resume_prefetch.rs), the registered delivery paths      *)
(* (multipath.rs), the discovery phases (timeout_budget.rs), the times to     *)
(* live that follow a peer's activity (adaptive_ttl.rs), and the engine       *)
(* that asks them in order (optimized_engine.rs, engine.rs).  Whether the     *)
(* local cell or a gateway covers a hint is the variable near: RoutingGossip  *)
(* models those two layers.                                                   *)
EXTENDS Integers, FiniteSets, FiniteSetsExt, Sequences, SequencesExt

CONSTANTS Hints,            \* destination hints
          Hops,             \* peers that are next hops and negative-cache keys
          BloomBits,        \* the filter bits of each peer
          MaxRoutesPerHint, MaxTotalRoutes, MaxNegative, MaxPaths,
          RouteTtl, NegativeTtl, MaxStaleAge, RequestTtl,
          MaxHopCount, MaxSequence,   \* bounds of the advertised values
          Reliabilities,    \* advertised reliabilities, more than 0.01 apart
          MaxRouteTime, MaxRouteSteps, \* bounds on the clock and on the calls
          ActivePeers,      \* peers whose activity sets a time to live
          ManyMessages, SomeMessages, \* above these the TTL is longer (10 and 2)
          BaseTtl, MaxTtl,
          MaxActivity, MaxActivityTime \* bounds on the messages and on the half-lives

ASSUME RoutesAssumption ==
    /\ MaxRoutesPerHint \in Nat \ {0}
    /\ MaxNegative \in Nat \ {0} /\ NegativeTtl \in Nat
    /\ \A p \in Hops : BloomBits[p] # {}
    /\ SomeMessages \in Nat /\ ManyMessages \in Nat
    /\ BaseTtl \in Nat /\ MaxTtl \in Nat /\ 2 * BaseTtl <= MaxTtl

VARIABLES activity,      \* [ActivePeers -> {} or {activity history}]
          activityClock, \* in half-lives
          recorded       \* messages recorded since the history was made (ghost)

activityVars == <<activity, activityClock, recorded>>

VARIABLES routes,      \* [Hints -> set of advertisements kept]
          routeRequests,    \* pending route requests: [Hints -> {} or {time}]
          negative,    \* negative-cache entries
          bloom,       \* bits set in the filter
          prefetched,  \* [Hints -> {} or one prefetched route]
          refreshQueue,
          paths,       \* registered delivery paths, by hint, in order
          discovery,   \* the discovery in progress and its budget
          near,        \* hints that the local cell or a gateway covers
          routeClock,
          routeSteps,
          reported     \* history: the last standing report about each peer

routesVars == <<routes, routeRequests, negative, bloom, prefetched, refreshQueue,
                paths, discovery, near, routeClock, routeSteps, reported>>

Advertisements == [hop : Hops, hops : 1..MaxHopCount, rel : Reliabilities,
                   seq : 1..MaxSequence, at : 0..MaxRouteTime]
NegativeEntries == [peer : Hops, at : 0..MaxRouteTime, count : 1..MaxRouteSteps]
PathRecords == [id : Hops, active : BOOLEAN]
Prefetches == [hop : Hops, status : {"Fresh", "Refreshing", "Failed"}, at : 0..MaxRouteTime]
Phases == <<"LocalCache", "Neighborhood", "Delegate", "DHTWalk">>

RoutesTypeOK ==
    /\ \A h \in Hints :
         /\ routes[h] \subseteq Advertisements
         /\ Cardinality(routes[h]) <= MaxRoutesPerHint
         /\ routeRequests[h] \subseteq 0..MaxRouteTime
         /\ prefetched[h] \subseteq Prefetches
         /\ \A i \in DOMAIN paths[h] : paths[h][i] \in PathRecords
         /\ Len(paths[h]) <= MaxPaths
    /\ negative \subseteq NegativeEntries
    /\ Cardinality(negative) <= MaxNegative
    /\ bloom \subseteq UNION {BloomBits[p] : p \in Hops}
    /\ discovery \in [on : BOOLEAN, phase : 1..Len(Phases), exhausted : BOOLEAN]
    /\ near \subseteq Hints
    /\ \A i \in DOMAIN refreshQueue : refreshQueue[i] \in Hints

RoutesInit ==
    /\ routes = [h \in Hints |-> {}]
    /\ routeRequests = [h \in Hints |-> {}]
    /\ negative = {}
    /\ bloom = {}
    /\ prefetched = [h \in Hints |-> {}]
    /\ refreshQueue = <<>>
    /\ paths = [h \in Hints |-> <<>>]
    /\ discovery = [on |-> FALSE, phase |-> 1, exhausted |-> FALSE]
    /\ near = {}
    /\ routeClock = 0
    /\ routeSteps = 0
    /\ reported = [p \in Hops |-> {}]

RouteStep == routeSteps < MaxRouteSteps /\ routeSteps' = routeSteps + 1

-----------------------------------------------------------------------------
(* The route table.                                                           *)

TotalRoutes == MapThenSumSet(LAMBDA h : Cardinality(routes[h]), Hints)

(* Mutant: only the age of the confirmation counts. *)
WorseByAge(a, b) == a.at < b.at
(* More hops is worse, then the lower reliability, then the older             *)
(* confirmation.                                                              *)
Worse(a, b) ==
    \/ a.hops > b.hops
    \/ a.hops = b.hops /\ a.rel < b.rel
    \/ a.hops = b.hops /\ a.rel = b.rel /\ a.at < b.at
WorstOf(S) == {a \in S : \A b \in S : ~Worse(b, a)}
BestOf(S) == {a \in S : \A b \in S : ~Worse(a, b)}

(* add_route: refused when the whole table is full, also for a newer          *)
(* advertisement of a known next hop.                                         *)
AddRoute(h, ad) ==
    /\ RouteStep
    /\ LET known == {r \in routes[h] : r.hop = ad.hop}
       IN  \/ /\ TotalRoutes < MaxTotalRoutes
              /\ \E r \in known : ad.seq > r.seq
              /\ routes' = [routes EXCEPT ![h] = (@ \ known) \union {ad}]
           \/ /\ TotalRoutes < MaxTotalRoutes
              /\ known = {}
              /\ Cardinality(routes[h]) < MaxRoutesPerHint
              /\ routes' = [routes EXCEPT ![h] = @ \union {ad}]
           \/ /\ TotalRoutes < MaxTotalRoutes
              /\ known = {}
              /\ Cardinality(routes[h]) >= MaxRoutesPerHint
              /\ \E worst \in WorstOf(routes[h]) :
                   /\ Worse(worst, ad)
                   /\ routes' = [routes EXCEPT ![h] = (@ \ {worst}) \union {ad}]
    /\ UNCHANGED <<routeRequests, negative, bloom, prefetched, refreshQueue, paths,
                   discovery, near, routeClock, reported>>

(* remove_routes_via: a peer that is gone takes its routes with it; the       *)
(* prefetched copies of them stay.                                            *)
RemoveRoutesVia(p) ==
    /\ RouteStep
    /\ \E h \in Hints : \E r \in routes[h] : r.hop = p
    /\ routes' = [h \in Hints |-> {r \in routes[h] : r.hop # p}]
    /\ UNCHANGED <<routeRequests, negative, bloom, prefetched, refreshQueue, paths,
                   discovery, near, routeClock, reported>>

(* request_route starts the request again; resolve_route_request ends it.     *)
RequestRoute(h) ==
    /\ RouteStep
    /\ routeRequests' = [routeRequests EXCEPT ![h] = {routeClock}]
    /\ UNCHANGED <<routes, negative, bloom, prefetched, refreshQueue, paths,
                   discovery, near, routeClock, reported>>
ResolveRouteRequest(h) ==
    /\ RouteStep
    /\ routeRequests[h] # {}
    /\ routeRequests' = [routeRequests EXCEPT ![h] = {}]
    /\ UNCHANGED <<routes, negative, bloom, prefetched, refreshQueue, paths,
                   discovery, near, routeClock, reported>>

-----------------------------------------------------------------------------
(* The negative cache.                                                        *)

Expired(e) == routeClock - e.at > NegativeTtl

(* Mutant: a set of bits in the filter is taken as proof. *)
IsDefinitelyUnreachableByBloom(p) == BloomBits[p] \subseteq bloom
(* is_definitely_unreachable: the filter only rules peers out; a hit counts   *)
(* only with an unexpired entry.                                              *)
IsDefinitelyUnreachable(p) ==
    /\ BloomBits[p] \subseteq bloom
    /\ \E e \in negative : e.peer = p /\ ~Expired(e)

(* Mutant: a full cache is not made room in.                                  *)
RecordUnreachableUnevicted(p) ==
    /\ RouteStep
    /\ bloom' = bloom \union BloomBits[p]
    /\ negative' = {e \in negative : e.peer # p}
                      \union {[peer |-> p, at |-> routeClock, count |-> 1]}
    /\ reported' = [reported EXCEPT ![p] = {routeClock}]
    /\ UNCHANGED <<routes, routeRequests, prefetched, refreshQueue, paths, discovery,
                   near, routeClock>>

(* record_unreachable: refresh the entry, or evict the oldest and insert.     *)
RecordUnreachable(p) ==
    /\ RouteStep
    /\ bloom' = bloom \union BloomBits[p]
    /\ LET old == {e \in negative : e.peer = p}
       IN  \/ \E e \in old : negative' = (negative \ old)
                   \union {[peer |-> p, at |-> routeClock, count |-> e.count + 1]}
           \/ /\ old = {}
              /\ \E gone \in IF Cardinality(negative) < MaxNegative THEN {{}}
                             ELSE {{e} : e \in {e \in negative :
                                           \A f \in negative : e.at <= f.at}} :
                   negative' = (negative \ gone)
                       \union {[peer |-> p, at |-> routeClock, count |-> 1]}
    /\ reported' = [reported EXCEPT ![p] = {routeClock}]
    /\ UNCHANGED <<routes, routeRequests, prefetched, refreshQueue, paths, discovery,
                   near, routeClock>>

(* clear_unreachable: the entry goes, the filter keeps its bits.              *)
ClearUnreachable(p) ==
    /\ RouteStep
    /\ \E e \in negative : e.peer = p
    /\ negative' = {e \in negative : e.peer # p}
    /\ reported' = [reported EXCEPT ![p] = {}]
    /\ UNCHANGED <<routes, routeRequests, bloom, prefetched, refreshQueue, paths,
                   discovery, near, routeClock>>

-----------------------------------------------------------------------------
(* Routes kept while the app is in the background.                            *)

(* on_app_background: the snapshot replaces whatever was kept before.         *)
OnAppBackground(own) ==
    /\ RouteStep
    /\ prefetched' = [h \in Hints |->
           IF h \in own THEN {[hop |-> CHOOSE p \in Hops : TRUE,
                               status |-> "Fresh", at |-> routeClock]} ELSE {}]
    /\ UNCHANGED <<routes, routeRequests, negative, bloom, refreshQueue, paths,
                   discovery, near, routeClock, reported>>

OnAppResume ==
    /\ RouteStep
    /\ refreshQueue' \in SetToSeqs({h \in Hints : prefetched[h] # {}})
    /\ UNCHANGED <<routes, routeRequests, negative, bloom, prefetched, paths,
                   discovery, near, routeClock, reported>>

(* next_refresh_hint, and start_route_refresh for the hint it returned.       *)
RefreshNext ==
    /\ RouteStep
    /\ refreshQueue # <<>>
    /\ refreshQueue' = Tail(refreshQueue)
    /\ prefetched' = [prefetched EXCEPT ![Head(refreshQueue)] =
                          {[e EXCEPT !.status = "Refreshing"] : e \in @}]
    /\ UNCHANGED <<routes, routeRequests, negative, bloom, paths, discovery, near,
                   routeClock, reported>>

(* update_route completes the refresh; mark_refresh_failed keeps the entry    *)
(* but it is no longer used.                                                  *)
RefreshDone(h, p) ==
    /\ RouteStep
    /\ prefetched' = [prefetched EXCEPT ![h] =
                          {[hop |-> p, status |-> "Fresh", at |-> routeClock]}]
    /\ UNCHANGED <<routes, routeRequests, negative, bloom, refreshQueue, paths,
                   discovery, near, routeClock, reported>>
RefreshFailed(h) ==
    /\ RouteStep
    /\ \E e \in prefetched[h] : e.status # "Failed"
    /\ prefetched' = [prefetched EXCEPT ![h] = {[e EXCEPT !.status = "Failed"] : e \in @}]
    /\ UNCHANGED <<routes, routeRequests, negative, bloom, refreshQueue, paths,
                   discovery, near, routeClock, reported>>

(* is_usable: a route under refresh is used whatever its age.                 *)
GetRouteEarly(h) ==
    {e.hop : e \in {e \in prefetched[h] :
        \/ e.status = "Refreshing"
        \/ e.status = "Fresh" /\ routeClock - e.at < MaxStaleAge}}

-----------------------------------------------------------------------------
(* Delivery paths.  A path is named after the peer it leads through.          *)

(* register_path: the same path is replaced, a new one needs a free place.    *)
RegisterPath(h, p) ==
    /\ RouteStep
    /\ LET at == {i \in DOMAIN paths[h] : paths[h][i].id = p}
           path == [id |-> p, active |-> TRUE]
       IN  \/ /\ at # {}
              /\ paths' = [paths EXCEPT ![h] =
                               [i \in DOMAIN @ |-> IF i \in at THEN path ELSE @[i]]]
           \/ /\ at = {}
              /\ Len(paths[h]) < MaxPaths
              /\ paths' = [paths EXCEPT ![h] = Append(@, path)]
    /\ UNCHANGED <<routes, routeRequests, negative, bloom, prefetched, refreshQueue,
                   discovery, near, routeClock, reported>>

(* mark_path_failed stops at the first hint, in the hash map's order, that    *)
(* has the path.                                                              *)
MarkPathFailed(p) ==
    /\ RouteStep
    /\ \E h \in Hints : \E i \in DOMAIN paths[h] :
         /\ paths[h][i].id = p
         /\ paths' = [paths EXCEPT ![h][i].active = FALSE]
    /\ UNCHANGED <<routes, routeRequests, negative, bloom, prefetched, refreshQueue,
                   discovery, near, routeClock, reported>>

(* prune_below: one threshold for path scores and for confirmation counts.    *)
PruneBelow(confirmations, stopPaths) ==
    /\ RouteStep
    /\ negative' = {e \in negative : e.count >= confirmations}
    /\ paths' = IF stopPaths
                  THEN [h \in Hints |-> [i \in DOMAIN paths[h] |->
                           [paths[h][i] EXCEPT !.active = FALSE]]]
                  ELSE paths
    /\ UNCHANGED <<routes, routeRequests, bloom, prefetched, refreshQueue, discovery,
                   near, routeClock, reported>>

ActivePaths(h) == {paths[h][i].id : i \in {i \in DOMAIN paths[h] : paths[h][i].active}}

-----------------------------------------------------------------------------
(* The engine.                                                                *)

(* The layers in the order they are asked.  The negative cache is asked for   *)
(* the hint in hexadecimal while its entries are named by peer identifier, so *)
(* its entries never match here; can_reach_destination asks by identifier.    *)
BaseDecision(h, urgent) ==
    IF h \in near THEN {[by |-> "near"]}
    ELSE IF routes[h] # {} THEN {[by |-> "global", hop |-> r.hop] : r \in BestOf(routes[h])}
    ELSE IF routeRequests[h] = {} /\ urgent THEN {[by |-> "discovery"]}
    ELSE {[by |-> "carry"]}
Decision(h, urgent) ==
    IF GetRouteEarly(h) # {} THEN {[by |-> "prefetch", hop |-> p] : p \in GetRouteEarly(h)}
    ELSE IF ActivePaths(h) # {} THEN {[by |-> "path", hop |-> p] : p \in ActivePaths(h)}
    ELSE BaseDecision(h, urgent)

(* route_message_optimized starts a discovery when the first layers have no   *)
(* answer; the caller asks for a route when told to discover one.             *)
RouteMessage(h, urgent) ==
    /\ RouteStep
    /\ discovery' = IF GetRouteEarly(h) = {} /\ ActivePaths(h) = {} /\ ~discovery.on
                      THEN [on |-> TRUE, phase |-> 1, exhausted |-> FALSE]
                      ELSE discovery
    /\ UNCHANGED <<routes, routeRequests, negative, bloom, prefetched, refreshQueue,
                   paths, near, routeClock, reported>>

(* advance_discovery_phase: the phase entered with too little time left is    *)
(* still entered; the call after it ends the discovery.                       *)
AdvanceDiscovery(tight) ==
    /\ RouteStep
    /\ discovery.on
    /\ discovery' =
         IF discovery.exhausted \/ discovery.phase = Len(Phases)
           THEN [discovery EXCEPT !.on = FALSE, !.exhausted = TRUE]
           ELSE [discovery EXCEPT !.phase = @ + 1, !.exhausted = tight]
    /\ UNCHANGED <<routes, routeRequests, negative, bloom, prefetched, refreshQueue,
                   paths, near, routeClock, reported>>

NearChanges(h) ==
    /\ RouteStep
    /\ near' = (near \ {h}) \union ({h} \ near)
    /\ UNCHANGED <<routes, routeRequests, negative, bloom, prefetched, refreshQueue,
                   paths, discovery, routeClock, reported>>

(* tick: routes past their time to live, old requests and expired negative    *)
(* entries go.                                                                *)
RoutesTick ==
    /\ routeClock < MaxRouteTime
    /\ routeClock' = routeClock + 1
    /\ \/ UNCHANGED <<routes, routeRequests, negative>>
       \/ /\ routes' = [h \in Hints |-> {r \in routes[h] : routeClock' - r.at < RouteTtl}]
          /\ routeRequests' = [h \in Hints |-> {t \in routeRequests[h] : routeClock' - t <= RequestTtl}]
          /\ negative' = {e \in negative : routeClock' - e.at <= NegativeTtl}
    /\ UNCHANGED <<bloom, prefetched, refreshQueue, paths, discovery, near,
                   routeSteps, reported>>

RoutesNext ==
    \/ RoutesTick
    \/ OnAppResume
    \/ RefreshNext
    \/ \E b \in BOOLEAN : AdvanceDiscovery(b)
    \/ \E n \in 1..2, b \in BOOLEAN : PruneBelow(n, b)
    \/ \E S \in SUBSET Hints : OnAppBackground(S)
    \/ \E p \in Hops : RemoveRoutesVia(p) \/ RecordUnreachable(p)
                         \/ ClearUnreachable(p) \/ MarkPathFailed(p)
    \/ \E h \in Hints :
         \/ RequestRoute(h) \/ ResolveRouteRequest(h) \/ RefreshFailed(h) \/ NearChanges(h)
         \/ \E b \in BOOLEAN : RouteMessage(h, b)
         \/ \E p \in Hops : RefreshDone(h, p) \/ RegisterPath(h, p)
         \/ \E p \in Hops, n \in 1..MaxHopCount, f \in Reliabilities, q \in 1..MaxSequence :
              AddRoute(h, [hop |-> p, hops |-> n, rel |-> f, seq |-> q, at |-> routeClock])

RoutesSpec == RoutesInit /\ [][RoutesNext]_routesVars

-----------------------------------------------------------------------------
(* The time to live that follows a peer's activity (adaptive_ttl.rs).  Each   *)
(* read decays the count by the time since the last message, so two reads     *)
(* decay it twice.                                                            *)

ActivityTtl(recent) ==
    IF recent > ManyMessages THEN MaxTtl ELSE IF recent > SomeMessages THEN 2 * BaseTtl ELSE BaseTtl

(* Halves, rounded half up, over so many half-lives.                          *)
HalvedOver(n, halfLives) == (2 * n + 2^halfLives) \div 2^(halfLives + 1)

(* Mutant: the time to live is left as it was. *)
DecayKeepsTtl(a) == [a EXCEPT !.recent = HalvedOver(@, activityClock - a.last)]
Decay(a) ==
    LET left == HalvedOver(a.recent, activityClock - a.last)
    IN  [a EXCEPT !.recent = left, !.ttl = ActivityTtl(left)]

NewActivity == [recent |-> 0, last |-> activityClock, ttl |-> BaseTtl]
OrNew(p) == IF activity[p] = {} THEN {NewActivity} ELSE activity[p]
RecordMessage(a) ==
    [recent |-> a.recent + 1, last |-> activityClock, ttl |-> ActivityTtl(a.recent + 1)]

ActivityInit ==
    /\ activity = [p \in ActivePeers |-> {}] /\ activityClock = 0
    /\ recorded = [p \in ActivePeers |-> 0]

CalculateTtl(p) ==
    /\ activity' = [activity EXCEPT ![p] = {Decay(a) : a \in OrNew(p)}]
    /\ UNCHANGED <<activityClock, recorded>>

RecordActivity(p) ==
    /\ recorded[p] < MaxActivity
    /\ activity' = [activity EXCEPT ![p] = {RecordMessage(a) : a \in OrNew(p)}]
    /\ recorded' = [recorded EXCEPT ![p] = @ + 1]
    /\ UNCHANGED activityClock

(* route_message over a global route reads the TTL and records the message.   *)
RouteOver(p) ==
    /\ recorded[p] < MaxActivity
    /\ activity' = [activity EXCEPT ![p] = {RecordMessage(Decay(a)) : a \in OrNew(p)}]
    /\ recorded' = [recorded EXCEPT ![p] = @ + 1]
    /\ UNCHANGED activityClock

(* cleanup, from tick, evaluate_all_tracked and refresh_delegate_routes.      *)
CleanupActivity(age) ==
    LET gone == {p \in ActivePeers : \E a \in activity[p] : activityClock - a.last >= age}
    IN  /\ activity' = [p \in ActivePeers |-> IF p \in gone THEN {} ELSE activity[p]]
        /\ recorded' = [p \in ActivePeers |-> IF p \in gone THEN 0 ELSE recorded[p]]
        /\ UNCHANGED activityClock

HalfLifePasses ==
    /\ activityClock < MaxActivityTime /\ activityClock' = activityClock + 1
    /\ UNCHANGED <<activity, recorded>>

ActivityNext ==
    \/ \E p \in ActivePeers : CalculateTtl(p) \/ RecordActivity(p) \/ RouteOver(p)
    \/ \E age \in 1 .. 2 : CleanupActivity(age)
    \/ HalfLifePasses

ActivitySpec == ActivityInit /\ [][ActivityNext]_activityVars

-----------------------------------------------------------------------------
(* A peer is declared unreachable only while a report about that very peer    *)
(* stands: made within the time to live and not cleared since.  Filter bits   *)
(* shared with other peers, bits left by cleared entries, evictions and       *)
(* refreshes must not turn a reachable peer into an unreachable one           *)
(* (is_definitely_unreachable).                                               *)
UnreachableConfirmed ==
    \A p \in Hops : IsDefinitelyUnreachable(p) =>
        \E t \in reported[p] : routeClock - t <= NegativeTtl

(* Accepting an advertisement never makes a destination farther: the least    *)
(* hop count of a hint grows only when its own next hop advertises a newer    *)
(* sequence, when routes expire, or when a next hop is removed (add_route).   *)
LeastHops(S) == Min({r.hops : r \in S})
RoutesImprove ==
    \A h \in Hints :
      routes[h] # {} /\ routes'[h] # {} /\ LeastHops(routes'[h]) > LeastHops(routes[h])
      => \E r \in routes[h] : r.hops = LeastHops(routes[h]) /\
           \/ routes'[h] \subseteq routes[h]
           \/ \E q \in routes'[h] : q.hop = r.hop /\ q.seq > r.seq

(* A read never gives a peer a longer time to live than its messages, decayed *)
(* over its silence, deserve, however reads and messages alternated before;   *)
(* and only a message lengthens it (calculate_ttl, record_activity).          *)
TtlEarned ==
    \A p \in ActivePeers : \A a \in activity[p], b \in activity'[p] :
        recorded'[p] = recorded[p] /\ a # b =>
            /\ b.ttl <= a.ttl
            /\ b.ttl <= ActivityTtl(HalvedOver(recorded[p], activityClock - a.last))

(* Routes and reports of unreachable peers, through refreshes, expiries    *)
(* and evictions: no peer is written off without a report, no route gets   *)
(* worse without a reason, and no time to live is longer than earned.      *)
RoutesSound ==
    [][/\ UNCHANGED routesVars \/ (UnreachableConfirmed' /\ RoutesImprove)
       /\ UNCHANGED activityVars \/ TtlEarned]_<<routesVars, activityVars>>
=============================================================================
