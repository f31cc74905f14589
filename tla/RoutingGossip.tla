--------------------------- MODULE RoutingGossip ---------------------------
(***************************************************************************)
(* The local cell and the neighbourhood table of the mesh routing          *)
(* (core/src/routing/local.rs and neighborhood.rs), on nodes that gossip   *)
(* with each other.                                                        *)
(*                                                                         *)
(* A node tells its neighbours what its own cell reaches and what it has   *)
(* heard, with a hop count; what it hears is stamped with the time of the  *)
(* gossip, so old news looks fresh, and only the hop count ages it.        *)
(*                                                                         *)
(* Time is counted in routing ticks, and the clocks of the nodes agree:    *)
(* what is older than max_staleness is gone from a table after its tick.   *)
(***************************************************************************)
EXTENDS Integers, FiniteSets

CONSTANTS
    Nodes,
    Leaves,          \* peers of the cells
    CellHints,       \* recipient hints
    ActiveTimeout, StaleTimeout,
    MaxCellPeers,    \* max_peers
    MaxStaleness,    \* max_staleness of the table
    MaxHops,         \* max_hops
    MaxTime,         \* bound on the clock
    MaxCellSteps     \* bound on what happens to the cells

ASSUME GossipAssumption ==
    /\ MaxStaleness \in Nat \ {0} /\ MaxHops \in Nat \ {0} /\ MaxCellPeers \in Nat \ {0}
    /\ ActiveTimeout <= StaleTimeout

VARIABLES
    cell,       \* LocalCell of each node: leaf -> peer
    gateways,   \* of each node: node -> gateway
    summaries,  \* of each node: set of hints -> summary
    clock,
    cellSteps

gossipVars == <<cell, gateways, summaries, clock, cellSteps>>

NoBody == [absent |-> TRUE]
HintSets == SUBSET CellHints
Scores == 0..2   \* reliability_score: below, at and above the neutral start

PeerInfos == [status : {"Active", "Stale", "Dormant"}, seen : 0..MaxTime,
              hints : HintSets, score : Scores]
(* born: when a cell last stated it; observation only.                     *)
GatewayInfos == [hints : HintSets, updated : 0..MaxTime, born : 0..MaxTime]
SummaryInfos == [hops : 1..MaxHops, time : 0..MaxTime, born : 0..MaxTime]

GossipTypeOK ==
    /\ cell \in [Nodes -> [Leaves -> PeerInfos \cup {NoBody}]]
    /\ gateways \in [Nodes -> [Nodes -> GatewayInfos \cup {NoBody}]]
    /\ summaries \in [Nodes -> [HintSets -> SummaryInfos \cup {NoBody}]]
    /\ clock \in 0..MaxTime /\ cellSteps \in 0..MaxCellSteps

GossipInit ==
    /\ cell = [n \in Nodes |-> [l \in Leaves |-> NoBody]]
    /\ gateways = [n \in Nodes |-> [m \in Nodes |-> NoBody]]
    /\ summaries = [n \in Nodes |-> [h \in HintSets |-> NoBody]]
    /\ clock = 0 /\ cellSteps = 0

CellStep == cellSteps < MaxCellSteps /\ cellSteps' = cellSteps + 1

-----------------------------------------------------------------------------
(* LocalCell *)
CellPeers(n) == {l \in Leaves : cell[n][l] # NoBody}

LowestReliability(n) ==
    {l \in CellPeers(n) : \A k \in CellPeers(n) : cell[n][l].score <= cell[n][k].score}

(* peer_seen: a full cell evicts a peer of lowest reliability first.       *)
PeerSeen(n, l) ==
    /\ CellStep
    /\ \/ /\ l \in CellPeers(n)
          /\ cell' = [cell EXCEPT ![n][l].status = "Active", ![n][l].seen = clock]
       \/ /\ l \notin CellPeers(n)
          /\ LET fresh == [status |-> "Active", seen |-> clock, hints |-> {}, score |-> 1]
             IN IF Cardinality(CellPeers(n)) < MaxCellPeers
                THEN cell' = [cell EXCEPT ![n][l] = fresh]
                ELSE \E k \in LowestReliability(n) :
                        cell' = [cell EXCEPT ![n] = [@ EXCEPT ![k] = NoBody, ![l] = fresh]]
    /\ UNCHANGED <<gateways, summaries, clock>>

UpdatePeerHints(n, l, hints) ==
    /\ CellStep /\ l \in CellPeers(n)
    /\ cell' = [cell EXCEPT ![n][l].hints = hints]
    /\ UNCHANGED <<gateways, summaries, clock>>

UpdateReliability(n, l, up) ==
    /\ CellStep /\ l \in CellPeers(n)
    /\ LET s == cell[n][l].score + (IF up THEN 1 ELSE -1)
       IN s \in Scores /\ cell' = [cell EXCEPT ![n][l].score = s]
    /\ UNCHANGED <<gateways, summaries, clock>>

(* tick: a silent peer becomes stale and then dormant; it stays.           *)
Aged(p, now) ==
    CASE p = NoBody -> NoBody
      [] p # NoBody /\ p.status = "Active" /\ now - p.seen > ActiveTimeout ->
            [p EXCEPT !.status = "Stale"]
      [] p # NoBody /\ p.status = "Stale" /\ now - p.seen > StaleTimeout ->
            [p EXCEPT !.status = "Dormant"]
      [] OTHER -> p

(* summarize: the hints of every peer, dormant ones included.              *)
Summarize(n) == UNION {cell[n][l].hints : l \in CellPeers(n)}

-----------------------------------------------------------------------------
(* NeighborhoodTable *)

(* generate_gossip: the summaries, and the gateways no summary repeats.    *)
GatewayNews(n) ==
    {[hints |-> gateways[n][g].hints, hops |-> 1, born |-> gateways[n][g].born] :
        g \in {k \in Nodes : /\ gateways[n][k] # NoBody
                             /\ LET s == summaries[n][gateways[n][k].hints]
                                IN s = NoBody \/ s.hops # 1}}

GenerateGossip(n) ==
    {[hints |-> h, hops |-> summaries[n][h].hops, born |-> summaries[n][h].born] :
        h \in {k \in HintSets : summaries[n][k] # NoBody}}
    \cup GatewayNews(n)

(* Mutant: what a neighbour heard counts as near as it said.               *)
HeardUncounted(news, h) ==
    {[hops |-> s.hops, time |-> clock, born |-> s.born] :
        s \in {t \in news : t.hints = h /\ t.hops <= MaxHops}}

(* One hop further than the neighbour said, within max_hops.               *)
Heard(news, h) ==
    {[hops |-> s.hops + 1, time |-> clock, born |-> s.born] :
        s \in {t \in news : t.hints = h /\ t.hops + 1 <= MaxHops}}

(* The summary kept for a set of hints: the newest; of several as new, the *)
(* one already there, the one that replaces it hop for hop, or any.        *)
Kept(old, heard) ==
    IF heard = {} \/ (old # NoBody /\ old.time = clock) THEN {old}
    ELSE LET same == {s \in heard : old # NoBody /\ s.hops = old.hops}
         IN IF same # {} THEN same ELSE heard

(* process_gossip: the sender becomes a gateway one hop away.              *)
ExchangeGossip(from, to) ==
    /\ from # to
    /\ LET news == GenerateGossip(from)
           choices(h) == Kept(summaries[to][h], Heard(news, h))
       IN \E kept \in [HintSets -> UNION {choices(h) : h \in HintSets}] :
             /\ \A h \in HintSets : kept[h] \in choices(h)
             /\ summaries' = [summaries EXCEPT ![to] = kept]
    /\ gateways' = [gateways EXCEPT ![to][from] =
                       [hints |-> Summarize(from), updated |-> clock, born |-> clock]]
    /\ UNCHANGED <<cell, clock, cellSteps>>

(* The clock moves, and the routing tick of every node follows.            *)
GossipTick ==
    /\ clock < MaxTime
    /\ clock' = clock + 1
    /\ cell' = [n \in Nodes |-> [l \in Leaves |-> Aged(cell[n][l], clock')]]
    /\ gateways' = [n \in Nodes |-> [m \in Nodes |->
          IF gateways[n][m] # NoBody /\ clock' - gateways[n][m].updated <= MaxStaleness
          THEN gateways[n][m] ELSE NoBody]]
    /\ summaries' = [n \in Nodes |-> [h \in HintSets |->
          IF summaries[n][h] # NoBody /\ clock' - summaries[n][h].time <= MaxStaleness
          THEN summaries[n][h] ELSE NoBody]]
    /\ UNCHANGED cellSteps

GossipNext ==
    \/ GossipTick
    \/ \E n, m \in Nodes : ExchangeGossip(n, m)
    \/ \E n \in Nodes, l \in Leaves :
          \/ PeerSeen(n, l)
          \/ \E hints \in HintSets : UpdatePeerHints(n, l, hints)
          \/ \E up \in BOOLEAN : UpdateReliability(n, l, up)

GossipSpec == GossipInit /\ [][GossipNext]_gossipVars

-----------------------------------------------------------------------------
(* Old news dies out: though gossip stamps what it passes on with the      *)
(* current time, and two nodes may tell each other the same thing for      *)
(* ever, what a table holds at some number of hops was stated by a cell    *)
(* no longer ago than that many times the staleness limit.                 *)
NewsDiesOut ==
    \A n \in Nodes :
        /\ \A m \in Nodes : gateways[n][m] # NoBody => clock - gateways[n][m].born <= MaxStaleness
        /\ \A h \in HintSets : summaries[n][h] # NoBody =>
              clock - summaries[n][h].born <= summaries[n][h].hops * MaxStaleness
=============================================================================
