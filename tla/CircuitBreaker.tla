--------------------------- MODULE CircuitBreaker ---------------------------
(***************************************************************************)
(* The relay circuit breaker shared by several callers                     *)
(* (core/src/transport/circuit_breaker.rs).  allow_request decides under a *)
(* read lock, releases it, and moves the circuit to half-open under a      *)
(* write lock taken later; other callers run in between.  Every caller     *)
(* that is let through records how its request ended, as                   *)
(* BootstrapManager::bootstrap does.                                       *)
(***************************************************************************)
EXTENDS BreakerEntry, FiniteSets

CONSTANTS
    BreakerCallers  \* callers of the breaker

(* Fewer callers than probes: with as many callers as probes, each of them *)
(* may count a probe for the same timeout and leave the circuit half-open  *)
(* and refusing.                                                           *)
ASSUME CallersAssumption ==
    IsFiniteSet(BreakerCallers) /\ Cardinality(BreakerCallers) < MaxHalfOpenProbes

VARIABLES
    circuit,      \* the entry of the relay
    breakerCaller \* what each caller is doing

circuitVars == <<circuit, breakerCaller>>

CircuitTypeOK ==
    /\ circuit \in BreakerEntries
    /\ breakerCaller \in [BreakerCallers -> {"idle", "transition", "request"}]

CircuitInit ==
    /\ circuit = NewBreaker
    /\ breakerCaller = [c \in BreakerCallers |-> "idle"]

AllowRequest(c) ==
    /\ breakerCaller[c] = "idle" /\ LetThrough(circuit)
    /\ breakerCaller' = [breakerCaller EXCEPT ![c] = IF ProbeDue(circuit) THEN "transition" ELSE "request"]
    /\ UNCHANGED circuit

TransitionToHalfOpen(c) ==
    /\ breakerCaller[c] = "transition"
    /\ circuit' = HalfOpened(circuit)
    /\ breakerCaller' = [breakerCaller EXCEPT ![c] = "request"]

RecordSuccessOf(c) ==
    /\ breakerCaller[c] = "request"
    /\ circuit' = Succeeded(circuit)
    /\ breakerCaller' = [breakerCaller EXCEPT ![c] = "idle"]

RecordFailureOf(c) ==
    /\ breakerCaller[c] = "request"
    /\ circuit' = Failed(circuit)
    /\ breakerCaller' = [breakerCaller EXCEPT ![c] = "idle"]

OpenTimeout ==
    /\ circuit.state = "Open" /\ ~circuit.expired
    /\ circuit' = [circuit EXCEPT !.expired = TRUE]
    /\ UNCHANGED breakerCaller

ResetBreaker ==
    /\ circuit # NewBreaker
    /\ circuit' = NewBreaker
    /\ UNCHANGED breakerCaller

CircuitNext ==
    \/ \E c \in BreakerCallers : \/ AllowRequest(c) \/ TransitionToHalfOpen(c)
                                 \/ RecordSuccessOf(c) \/ RecordFailureOf(c)
    \/ OpenTimeout \/ ResetBreaker

CircuitSpec == CircuitInit /\ [][CircuitNext]_circuitVars

-----------------------------------------------------------------------------
(* The breaker never wedges: when no caller is under way, the circuit is   *)
(* closed, will time out, or lets the next probe through.  Several callers *)
(* may act on the same expired timeout, and a transition may come after    *)
(* the circuit was closed or opened again; a half-open circuit whose       *)
(* probes are used up has no other way out than a recorded result.         *)
BreakerNotWedged ==
    (\A c \in BreakerCallers : breakerCaller[c] = "idle") =>
        circuit.state = "Open" \/ LetThrough(circuit)
=============================================================================
