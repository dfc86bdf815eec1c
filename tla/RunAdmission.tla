---------------------------- MODULE RunAdmission ----------------------------
(***************************************************************************)
(* How runs get into the queue: ResearchRunService.submit behind           *)
(* POST /v1/research/runs, with idempotency keys and the capacity of the   *)
(* queue decided under a transaction-scoped advisory lock, and             *)
(* TaskService.submit_research behind POST /tasks/research/analyze, which  *)
(* knows only the idempotency key of the task.                             *)
(*                                                                         *)
(* One action is one statement of a READ COMMITTED transaction; rows       *)
(* appear to others with the commit.  Run ids come from a sequence, which  *)
(* a rollback does not set back.                                           *)
(*                                                                         *)
(* A definition that stands just before another with the same parameters   *)
(* and is used nowhere is a faulty variant of it; PROJECT.json names the   *)
(* property it breaks.                                                     *)
(***************************************************************************)
EXTENDS Integers, FiniteSets

CONSTANTS
    Callers,        \* requests to the API, one submission each
    Paths,          \* the entry points in use
    Keys,           \* idempotency keys
    NoKey,          \* no key was given
    Bodies,         \* requests up to their canonical hash
    Capacity,       \* admission_max_queued_runs
    Crashes         \* may a request be lost half way?

ASSUME AdmissionAssumption ==
    /\ Paths \subseteq {"gateway", "legacy"}
    /\ NoKey \notin Keys
    /\ Capacity \in Nat \ {0}
    /\ Crashes \in BOOLEAN

VARIABLES
    want,       \* what each caller submits
    runs,       \* committed rows of runs, each with its task
    lastId,     \* the sequence of run ids
    lock,       \* callers that hold the advisory lock
    pc,         \* where each caller is
    pending,    \* id of the flushed, uncommitted run of a legacy submission
    told        \* the answer each caller got

vars == <<want, runs, lastId, lock, pc, pending, told>>

Request == [path : Paths, key : Keys \cup {NoKey}, body : Bodies]

Init ==
    /\ want \in [Callers -> Request]
    /\ runs = {}
    /\ lastId = 0
    /\ lock = {}
    /\ pc = [c \in Callers |-> "start"]
    /\ pending = [c \in Callers |-> 0]
    /\ told = [c \in Callers |-> [kind |-> "none", run |-> 0]]

Go(c, step) == pc' = [pc EXCEPT ![c] = step]

KeepsLock(c, kind) == lock' = IF kind = "full" THEN lock ELSE lock \ {c}
Unlock(c, kind) == lock' = lock \ {c}

(* The answer; leaving the transaction gives the advisory lock back.       *)
Tell(c, kind, id) ==
    /\ told' = [told EXCEPT ![c] = [kind |-> kind, run |-> id]]
    /\ Go(c, "done")
    /\ Unlock(c, kind)

-----------------------------------------------------------------------------
(* ResearchRunService.submit.                                              *)

At(c, path, step) == want[c].path = path /\ pc[c] = step

Forgotten(c) == {}
RunsOf(c) == {r \in runs : r.key = want[c].key /\ r.key # NoKey}
Queued == {r \in runs : r.queued}

(* _resolve_idempotency: replay, conflict, or go on.                       *)
Resolve(c, next) ==
    /\ \/ \E r \in RunsOf(c) : r.body = want[c].body /\ Tell(c, "replayed", r.id)
       \/ \E r \in RunsOf(c) : r.body # want[c].body /\ Tell(c, "conflict", 0)
       \/ RunsOf(c) = {} /\ Go(c, next) /\ UNCHANGED <<lock, told>>
    /\ UNCHANGED <<want, runs, lastId, pending>>

FastPath(c) == At(c, "gateway", "start") /\ Resolve(c, "lock")

NoLock(c) == TRUE
LockIsFree(c) == lock = {}

(* SELECT pg_advisory_xact_lock.                                           *)
Lock(c) ==
    /\ At(c, "gateway", "lock")
    /\ LockIsFree(c)
    /\ lock' = lock \cup {c}
    /\ Go(c, "recheck")
    /\ UNCHANGED <<want, runs, lastId, pending, told>>

Recheck(c) == At(c, "gateway", "recheck") /\ Resolve(c, "decide")

OneOver == Cardinality(Queued) > Capacity
Full == Cardinality(Queued) >= Capacity

Decide(c) ==
    /\ At(c, "gateway", "decide")
    /\ IF Full THEN Tell(c, "full", 0) ELSE Go(c, "create") /\ UNCHANGED <<lock, told>>
    /\ UNCHANGED <<want, runs, lastId, pending>>

(* Run and task are inserted and committed together, under the unique      *)
(* constraint on the key.                                                  *)
Row(c, id, taskKey) ==
    [id |-> id, key |-> IF want[c].path = "gateway" THEN want[c].key ELSE NoKey,
     taskKey |-> taskKey, body |-> want[c].body, queued |-> TRUE]

Create(c) ==
    /\ At(c, "gateway", "create")
    /\ lastId' = lastId + 1
    /\ IF \E r \in runs : r.key = want[c].key /\ r.key # NoKey
       THEN Tell(c, "error", 0) /\ UNCHANGED runs
       ELSE /\ runs' = runs \cup {Row(c, lastId + 1, NoKey)}
            /\ Tell(c, "accepted", lastId + 1)
    /\ UNCHANGED <<want, pending>>

-----------------------------------------------------------------------------
(* TaskService.submit_research without a run key.                          *)

TasksOf(c) == {r \in runs : r.taskKey = want[c].key /\ r.taskKey # NoKey}

(* The task's key is looked up; a new run is flushed, not committed.       *)
LegacyLookup(c) ==
    /\ At(c, "legacy", "start")
    /\ \/ \E r \in TasksOf(c) : Tell(c, "deduplicated", r.id) /\ UNCHANGED <<lastId, pending>>
       \/ /\ TasksOf(c) = {}
          /\ lastId' = lastId + 1
          /\ pending' = [pending EXCEPT ![c] = lastId + 1]
          /\ Go(c, "enqueue") /\ UNCHANGED <<lock, told>>
    /\ UNCHANGED <<want, runs>>

(* enqueue_task looks the key up again and inserts under the unique        *)
(* constraint; the answer carries the flushed run whatever happened to it. *)
LegacyEnqueue(c) ==
    /\ At(c, "legacy", "enqueue")
    /\ IF TasksOf(c) # {}
       THEN Tell(c, "deduplicated", pending[c]) /\ UNCHANGED runs
       ELSE /\ runs' = runs \cup {Row(c, pending[c], want[c].key)}
            /\ Tell(c, "accepted", pending[c])
    /\ UNCHANGED <<want, lastId, pending>>

-----------------------------------------------------------------------------
(* The request dies; the database rolls back and drops its lock.           *)
Lose(c) ==
    /\ Crashes /\ pc[c] # "done"
    /\ Go(c, "done")
    /\ lock' = lock \ {c}
    /\ UNCHANGED <<want, runs, lastId, pending, told>>

(* A worker starts a run or a client cancels it.                           *)
Leave(r) ==
    /\ r.queued
    /\ runs' = (runs \ {r}) \cup {[r EXCEPT !.queued = FALSE]}
    /\ UNCHANGED <<want, lastId, lock, pc, pending, told>>

Submit(c) ==
    \/ FastPath(c)
    \/ Lock(c)
    \/ Recheck(c)
    \/ Decide(c)
    \/ Create(c)
    \/ LegacyLookup(c)
    \/ LegacyEnqueue(c)

Next ==
    \/ \E c \in Callers : Submit(c) \/ Lose(c)
    \/ \E r \in runs : Leave(r)

Spec == Init /\ [][Next]_vars

-----------------------------------------------------------------------------
(* Properties.                                                             *)

Atomic == INSTANCE Submissions

(* The tables and the locals of the requests; only a request in the        *)
(* critical section holds the lock.                                        *)
TypeOK ==
    /\ want \in [Callers -> Request]
    /\ lastId \in Nat
    /\ runs \subseteq [id : 1..lastId, key : Keys \cup {NoKey}, taskKey : Keys \cup {NoKey},
                       body : Bodies, queued : BOOLEAN]
    /\ pc \in [Callers -> {"start", "lock", "recheck", "decide", "create", "enqueue", "done"}]
    /\ pending \in [Callers -> 0..lastId]
    /\ told \in [Callers -> [kind : {"none", "accepted", "replayed", "deduplicated",
                                     "conflict", "full", "error"}, run : 0..lastId]]
    /\ lock \subseteq {c \in Callers : pc[c] \in {"recheck", "decide", "create"}}

(* The queue never holds more runs than its capacity, although several     *)
(* processes count and insert, as long as the gateway is the only entry.   *)
QueueWithinCap == Atomic!GatewayOnly => Cardinality(Queued) <= Capacity

(* A concurrent duplicate is replayed or refused as a conflict; it never   *)
(* runs into the unique constraint.                                        *)
DuplicatesReplay == \A c \in Callers : told[c].kind # "error"

(* Submissions behave as if each had happened in a single step.            *)
SubmissionsAreAtomic == Atomic!Spec
=============================================================================
