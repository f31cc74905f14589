---------------------------- MODULE BreakerEntry ----------------------------
(***************************************************************************)
(* One entry of the relay circuit breaker                                  *)
(* (core/src/transport/circuit_breaker.rs): what each operation does to it *)
(* under the lock of the table.  "expired" says that open_timeout has      *)
(* passed since opened_at.  A failure count past the threshold is only     *)
(* ever compared with it, and stays there.                                 *)
(***************************************************************************)
EXTENDS Naturals

CONSTANTS
    FailureThreshold,   \* failures in a row that open the circuit
    SuccessThreshold,   \* successes that close a half-open one
    MaxHalfOpenProbes   \* probes after which a half-open one refuses

ASSUME BreakerAssumption ==
    /\ FailureThreshold \in Nat \ {0} /\ SuccessThreshold \in Nat \ {0}
    /\ MaxHalfOpenProbes \in Nat \ {0}

BreakerEntries == [state : {"Closed", "Open", "HalfOpen"}, failures : 0 .. FailureThreshold,
                   successes : Nat, probes : Nat, expired : BOOLEAN]

NewBreaker == [state |-> "Closed", failures |-> 0, successes |-> 0, probes |-> 0, expired |-> FALSE]

(* allow_request, the part under the read lock: the answer, and whether a  *)
(* transition to half-open follows.                                        *)
ProbeDue(e)   == e.state = "Open" /\ e.expired
LetThrough(e) == e.state = "Closed" \/ ProbeDue(e) \/ (e.state = "HalfOpen" /\ e.probes < MaxHalfOpenProbes)

(* transition_to_half_open, under the write lock, whatever the state is by *)
(* then.                                                                   *)
HalfOpened(e) == [e EXCEPT !.state = "HalfOpen", !.probes = @ + 1, !.successes = 0, !.expired = FALSE]

(* Mutant: closing keeps the count of probes.                              *)
SucceededKeepsProbes(e) ==
    CASE e.state = "Closed" -> [e EXCEPT !.failures = 0]
      [] e.state = "HalfOpen" ->
            IF e.successes + 1 >= SuccessThreshold
               THEN [NewBreaker EXCEPT !.probes = e.probes] ELSE [e EXCEPT !.successes = @ + 1]
      [] OTHER -> e

Succeeded(e) ==
    CASE e.state = "Closed" -> [e EXCEPT !.failures = 0]
      [] e.state = "HalfOpen" ->
            IF e.successes + 1 >= SuccessThreshold THEN NewBreaker ELSE [e EXCEPT !.successes = @ + 1]
      [] OTHER -> e

Failed(e) ==
    LET failures == IF e.failures < FailureThreshold THEN e.failures + 1 ELSE e.failures IN
    CASE e.state = "Closed" ->
            IF failures >= FailureThreshold
               THEN [e EXCEPT !.state = "Open", !.failures = failures, !.successes = 0, !.expired = FALSE]
               ELSE [e EXCEPT !.failures = failures]
      [] e.state = "HalfOpen" ->
            [e EXCEPT !.state = "Open", !.failures = failures, !.successes = 0, !.probes = 0, !.expired = FALSE]
      [] OTHER -> [e EXCEPT !.failures = failures, !.expired = FALSE]
=============================================================================
