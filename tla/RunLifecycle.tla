---------------------------- MODULE RunLifecycle ----------------------------
(***************************************************************************)
(* What the gateway tells a client about a run, without tasks, workers or  *)
(* attempts: it starts once, ends once, and cancellation is asked for only *)
(* while it runs.                                                          *)
(***************************************************************************)
CONSTANT Runs

VARIABLES
    state,      \* what GET /research/runs/{id} shows
    asked       \* a cancellation of the running run was accepted

Init ==
    /\ state = [r \in Runs |-> "queued"]
    /\ asked = [r \in Runs |-> FALSE]

Start(r) ==
    /\ state[r] = "queued"
    /\ state' = [state EXCEPT ![r] = "running"]
    /\ UNCHANGED asked

End(r) ==
    /\ state[r] \in {"queued", "running"}
    /\ \E s \in {"succeeded", "failed", "cancelled"} : state' = [state EXCEPT ![r] = s]
    /\ UNCHANGED asked

Ask(r) ==
    /\ state[r] = "running"
    /\ asked' = [asked EXCEPT ![r] = TRUE]
    /\ UNCHANGED state

Next == \E r \in Runs : Start(r) \/ End(r) \/ Ask(r)

Spec == Init /\ [][Next]_<<state, asked>>
=============================================================================
