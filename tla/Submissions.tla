---------------------------- MODULE Submissions ----------------------------
(***************************************************************************)
(* What the clients of the submission endpoints are promised: a submission *)
(* takes effect in one step.  Through the gateway a known key answers with *)
(* its run or a conflict, a full queue refuses, and otherwise a run is     *)
(* created.  The legacy route has task keys of its own and no capacity, so *)
(* the capacity is promised only where the gateway is the only entry.      *)
(***************************************************************************)
EXTENDS Integers, FiniteSets

CONSTANTS Callers, NoKey, Capacity

VARIABLES
    want,   \* the request of each caller
    runs,   \* the rows of table runs
    told    \* the answer to each caller

Through(c, path) == want[c].path = path
GatewayOnly == \A c \in Callers : Through(c, "gateway")

Known(c) ==
    IF want[c].key = NoKey THEN {}
    ELSE {r \in runs : want[c].key = IF Through(c, "gateway") THEN r.key ELSE r.taskKey}
Queued == {r \in runs : r.queued}

Answered(c, kind, id) == told' = [told EXCEPT ![c] = [kind |-> kind, run |-> id]]

Replay(c) ==
    \E r \in Known(c) :
        /\ r.body = want[c].body
        /\ Answered(c, "replayed", r.id)
        /\ UNCHANGED runs

Conflict(c) ==
    /\ \E r \in Known(c) : r.body # want[c].body
    /\ Answered(c, "conflict", 0)
    /\ UNCHANGED runs

Refuse(c) ==
    /\ Known(c) = {}
    /\ Cardinality(Queued) >= Capacity
    /\ Answered(c, "full", 0)
    /\ UNCHANGED runs

Created(c) ==
    /\ Known(c) = {}
    /\ \E row \in runs' :
          /\ runs' = runs \cup {row}
          /\ \A r \in runs : row.id # r.id
          /\ row.key = IF Through(c, "gateway") THEN want[c].key ELSE NoKey
          /\ row.taskKey = IF Through(c, "gateway") THEN NoKey ELSE want[c].key
          /\ row.body = want[c].body /\ row.queued
          /\ Answered(c, "accepted", row.id)

Accept(c) ==
    /\ GatewayOnly => Cardinality(Queued) < Capacity
    /\ Created(c)

(* The legacy answer to a known task key; which run it names is not said.  *)
Deduplicate(c) ==
    /\ Known(c) # {}
    /\ Answered(c, "deduplicated", told'[c].run)
    /\ UNCHANGED runs

Submit(c) ==
    /\ told[c].kind = "none"
    /\ \/ /\ Through(c, "gateway")
          /\ Replay(c) \/ Conflict(c) \/ Refuse(c) \/ Accept(c)
       \/ /\ Through(c, "legacy")
          /\ Deduplicate(c) \/ Created(c)
    /\ UNCHANGED want

(* A worker starts a run, or a client cancels it.                          *)
Leave ==
    /\ \E r \in Queued : runs' = (runs \ {r}) \cup {[r EXCEPT !.queued = FALSE]}
    /\ UNCHANGED <<want, told>>

Init ==
    /\ runs = {}
    /\ \A c \in Callers : told[c].kind = "none"

Next == Leave \/ \E c \in Callers : Submit(c)

Spec == Init /\ [][Next]_<<want, runs, told>>
=============================================================================
