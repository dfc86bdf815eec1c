--------------------------- MODULE MCResearchTask ---------------------------
(* The instances of ResearchTask that TLC checks.                          *)
EXTENDS ResearchTask, TLC

CONSTANTS e1, e2

TwoExecutions == {e1, e2}
Alike == Permutations(TwoExecutions)

Overlapping == \A e \in Executions : pc[e] = "idle"
Alone == Cardinality({e \in Executions : pc[e] = "idle"}) = 1
Accidents == budget.faults = MaxFaults /\ budget.crashes = MaxCrashes
OneAccident == budget.faults + budget.crashes = 1
NoAccident == budget.faults + budget.crashes = 0
Cancelled == canceller = "idle" /\ creator = "done"
Created == canceller = "done" /\ creator = "due"
Undisturbed == canceller = "done" /\ creator = "done"

(* Overlapping executions of the agent race with a cancellation, on either *)
(* database, or with the creator and an accident; a single one meets every *)
(* disturbance.  Executions of the workflow share little but the run.      *)
Instance ==
    \/ request = "agent" /\ Overlapping /\ NoAccident /\ Cancelled
    \/ request = "agent" /\ Overlapping /\ OneAccident /\ Created /\ dialect = "sqlite"
    \/ request = "agent" /\ Alone /\ Accidents /\ canceller = "idle" /\ creator = "due"
    \/ request # "agent" /\ Alone /\ Accidents /\ Cancelled
    \/ request # "agent" /\ Overlapping /\ OneAccident /\ Undisturbed

MCInit == Init /\ Instance
MCSpec == MCInit /\ [][Next]_vars
=============================================================================
