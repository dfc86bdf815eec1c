--------------------------- MODULE CircuitMachine ---------------------------
(***************************************************************************)
(* The circuit breaker that circuit.py documents, for calls that do not    *)
(* overlap: consecutive failures trip it, after a cooldown one probe       *)
(* decides.  CLOSED -> OPEN -> HALF_OPEN -> CLOSED or OPEN.                *)
(***************************************************************************)
EXTENDS Integers

CONSTANTS Providers, FailureThreshold

VARIABLES
    state,      \* of each provider
    failures    \* consecutive availability failures

vars == <<state, failures>>

Init ==
    /\ state = [p \in Providers |-> "closed"]
    /\ failures = [p \in Providers |-> 0]

Fail(p) ==
    /\ state[p] = "closed"
    /\ failures' = [failures EXCEPT ![p] = @ + 1]
    /\ state' = IF failures[p] + 1 = FailureThreshold
                THEN [state EXCEPT ![p] = "open"] ELSE state

CoolDown(p) ==
    /\ state[p] = "open"
    /\ state' = [state EXCEPT ![p] = "half_open"]
    /\ UNCHANGED failures

ProbeFails(p) ==
    /\ state[p] = "half_open"
    /\ state' = [state EXCEPT ![p] = "open"]
    /\ UNCHANGED failures

Succeed(p) ==
    /\ state[p] # "open"
    /\ state' = [state EXCEPT ![p] = "closed"]
    /\ failures' = [failures EXCEPT ![p] = 0]

Next == \E p \in Providers : Fail(p) \/ CoolDown(p) \/ ProbeFails(p) \/ Succeed(p)

Spec == Init /\ [][Next]_vars
=============================================================================
