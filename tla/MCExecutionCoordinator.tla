----------------------- MODULE MCExecutionCoordinator -----------------------
(* The instances of ExecutionCoordinator that TLC checks: one task in the  *)
(* storm of late heartbeats, refused releases and crashes, and two tasks   *)
(* in the calm without crashes; a client may retry the first task.         *)
EXTENDS ExecutionCoordinator

CONSTANTS t1, t2, w1, w2, c1

OneTask == {t1}
TwoTasks == {t1, t2}
TwoWorkers == {w1, w2}
OneClient == {c1}

RetriesOf(t) == IF t = t1 THEN retries[t] = 0 ELSE retries[t] = MaxRetries

Storm == ~calm /\ crashes = 0 /\ {t \in Tasks : status[t] = "queued"} = OneTask
Calm == calm /\ crashes = 1 /\ \A t \in Tasks : status[t] = "queued"

MCInit == Init /\ (Storm \/ Calm) /\ \A t \in Tasks : RetriesOf(t)
MCSpec == MCInit /\ [][Next]_vars /\ Fairness
=============================================================================
