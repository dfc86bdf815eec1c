------------------------ MODULE ExecutionCoordinator ------------------------
(***************************************************************************)
(* The PostgreSQL execution coordinator of packages/execution: a worker    *)
(* claims a queued task under a lease and a fencing generation, runs the   *)
(* handler without holding a transaction, publishes with a conditional     *)
(* UPDATE, and every worker first sweeps the leases that expired.          *)
(*                                                                         *)
(* A definition that stands just before another with the same parameters   *)
(* and is used nowhere is a faulty variant of it; PROJECT.json names the   *)
(* property it breaks.                                                     *)
(*                                                                         *)
(* One action is one database transaction (or one statement whose result   *)
(* the program carries into a later transaction).  A lease is inserted by  *)
(* the claim that bumps the generation, so <<task, generation>> names it.  *)
(* The database clock is abstracted to the predicate the code evaluates:   *)
(* a lease has lapsed when its expires_at lies in the past.  A task has    *)
(* the run of the same name as its source_run_id.                          *)
(***************************************************************************)
EXTENDS Integers, FiniteSets

CONSTANTS
    Tasks,           \* rows of task_jobs, each with its row of runs
    Workers,         \* worker processes
    Clients,         \* concurrent requests to the API
    MaxActiveRuns,   \* the capacity passed to claim
    MaxAttempts,     \* task_jobs.max_attempts
    MaxGeneration,   \* bound on the claims of one task
    MaxRetries,      \* bound on the retry requests for one task
    MaxCrashes       \* bound on worker crashes

ASSUME CoordinatorAssumption ==
    /\ IsFiniteSet(Workers)
    /\ Workers # {}
    /\ MaxActiveRuns \in Nat \ {0}
    /\ MaxAttempts \in Nat \ {0}
    /\ MaxGeneration \in Nat
    /\ MaxRetries \in Nat
    /\ MaxCrashes \in Nat

VARIABLES
    status,       \* task_jobs.status
    generation,   \* task_jobs.execution_generation
    attempts,     \* task_jobs.attempt_count
    writer,       \* generation whose finalize wrote result_json, 0 when none did
    runStatus,    \* runs.status
    cancelWanted, \* runs.cancel_requested_at IS NOT NULL
    open,         \* leases with released_at IS NULL
    lapsed,       \* open leases whose expires_at has passed
    pc,           \* where each worker is in process_next
    held,         \* the lease of the ClaimedExecution each worker carries
    todo,         \* leases list_expired returned that the sweep has yet to visit
    plan,         \* the branch the sweep chose from what it read
    call,         \* where each request of a client is
    retries,      \* retry requests that requeued a task
    crashes,
    calm          \* no heartbeat is late and no release is refused; it never changes

rows == <<status, generation, attempts, writer, runStatus, cancelWanted>>
leases == <<open, lapsed>>
locals == <<pc, held, todo, plan>>
requests == <<call, retries>>
vars == <<rows, leases, locals, requests, crashes, calm>>

TerminalStatus == {"succeeded", "failed", "cancelled"}
Status == {"queued", "running"} \cup TerminalStatus
LeaseIds == Tasks \X Nat
NoLease == <<>>
NoCall == <<>>

TaskOf(l) == l[1]
GenerationOf(l) == l[2]
CurrentLease(t) == <<t, generation[t]>>

(* Leases that count against the capacity: neither released nor expired.   *)
Active == open \ lapsed

(* Some tasks may have been cancelled, with their runs, or cancelled and    *)
(* retried while they waited.                                              *)
Init ==
    /\ status \in [Tasks -> {"queued", "cancelled"}]
    /\ generation = [t \in Tasks |-> 0]
    /\ attempts = [t \in Tasks |-> 0]
    /\ writer = [t \in Tasks |-> 0]
    /\ runStatus = status
    /\ cancelWanted = [t \in Tasks |-> FALSE]
    /\ open = {}
    /\ lapsed = {}
    /\ pc = [w \in Workers |-> "idle"]
    /\ held = [w \in Workers |-> NoLease]
    /\ todo = [w \in Workers |-> {}]
    /\ plan = [w \in Workers |-> "none"]
    /\ call = [c \in Clients |-> NoCall]
    /\ retries \in [Tasks -> 0..MaxRetries]
    /\ crashes \in 0..MaxCrashes
    /\ calm \in BOOLEAN

-----------------------------------------------------------------------------
(* Claiming.                                                               *)

(* The COUNT the claim makes while it holds the advisory lock.             *)
CapacityOffByOne == Cardinality(Active) <= MaxActiveRuns
HasCapacity == Cardinality(Active) < MaxActiveRuns

(* execution_generation + 1, the fencing token of the new claim.           *)
GenerationReversed(t) == generation[t] - 1
GenerationReused(t) == IF generation[t] = 0 THEN 1 ELSE generation[t]
NextGeneration(t) == generation[t] + 1

Claimable(t) == status[t] = "queued" /\ generation[t] < MaxGeneration

(* The claim transaction, serialised by its advisory lock: count the       *)
(* active leases, take a queued row, bump generation and attempts, insert  *)
(* the lease.  The row is any queued one: SKIP LOCKED and available_at may *)
(* pass over rows with a smaller id.                                       *)
ClaimTask(w, t) ==
    /\ pc[w] = "sweep" /\ todo[w] = {}
    /\ HasCapacity
    /\ Claimable(t)
    /\ status' = [status EXCEPT ![t] = "running"]
    /\ generation' = [generation EXCEPT ![t] = NextGeneration(t)]
    /\ attempts' = [attempts EXCEPT ![t] = @ + 1]
    /\ open' = open \cup {<<t, NextGeneration(t)>>}
    /\ runStatus' = [runStatus EXCEPT ![t] = IF @ = "queued" THEN "running" ELSE @]
    /\ pc' = [pc EXCEPT ![w] = "executing"]
    /\ held' = [held EXCEPT ![w] = <<t, NextGeneration(t)>>]
    /\ UNCHANGED <<writer, cancelWanted, lapsed, todo, plan, requests, crashes, calm>>

(* claim returns None: the cap is reached or nothing is queued.            *)
ClaimNothing(w) ==
    /\ pc[w] = "sweep" /\ todo[w] = {}
    /\ \/ ~HasCapacity
       \/ \A t \in Tasks : ~Claimable(t)
    /\ pc' = [pc EXCEPT ![w] = "idle"]
    /\ UNCHANGED <<rows, leases, held, todo, plan, requests, crashes, calm>>

-----------------------------------------------------------------------------
(* Executing and publishing.                                               *)

(* Time passes the expires_at of an open lease.                            *)
Lapse(l) ==
    /\ l \in Active
    /\ lapsed' = lapsed \cup {l}
    /\ UNCHANGED <<rows, open, locals, requests, crashes, calm>>

(* The heartbeat UPDATE asks only for released_at IS NULL, so one that was *)
(* delayed past the TTL makes the lease active again.                      *)
Heartbeat(w) ==
    /\ pc[w] = "executing"
    /\ held[w] \in open
    /\ held[w] \in lapsed => ~calm
    /\ lapsed' = lapsed \ {held[w]}
    /\ UNCHANGED <<rows, open, locals, requests, crashes, calm>>

(* WHERE execution_generation = :gen.                                      *)
NoFence(w) == TRUE
Fence(w) == generation[TaskOf(held[w])] = GenerationOf(held[w])

(* UPDATE runs ... WHERE id = :rid, without a condition on the status.      *)
RunIfStillRunning(t, outcome) ==
    IF runStatus[t] = "running" THEN outcome ELSE runStatus[t]
RunAfter(t, outcome) == outcome

(* The finalize transaction writes task and run under the generation the   *)
(* worker carries, whatever their status is by then.                       *)
Publish(w, outcome) ==
    LET t == TaskOf(held[w]) IN
    /\ Fence(w)
    /\ status' = [status EXCEPT ![t] = outcome]
    /\ writer' = [writer EXCEPT ![t] = GenerationOf(held[w])]
    /\ runStatus' = [runStatus EXCEPT ![t] = RunAfter(t, outcome)]
    /\ pc' = [pc EXCEPT ![w] = outcome]
    /\ UNCHANGED <<generation, attempts, cancelWanted, leases, held, todo, plan,
                   requests, crashes, calm>>

(* Rowcount 0: the worker was fenced; it returns False, releasing nothing. *)
Fenced(w) ==
    /\ ~Fence(w)
    /\ pc' = [pc EXCEPT ![w] = "idle"]
    /\ held' = [held EXCEPT ![w] = NoLease]
    /\ UNCHANGED <<rows, leases, todo, plan, requests, crashes, calm>>

(* The handler returned or raised; execute_claimed finalizes.              *)
Finalize(w) ==
    /\ pc[w] = "executing"
    /\ \/ \E outcome \in {"succeeded", "failed"} : Publish(w, outcome)
       \/ Fenced(w)

(* UPDATE task_execution_leases ... WHERE lease_id = :lid.                 *)
ReleasedByTask(w) == {l \in open : TaskOf(l) = TaskOf(held[w])}
LoserKeepsLease(w) ==
    IF status[TaskOf(held[w])] \in TerminalStatus /\ pc[w] = "recovered"
    THEN {} ELSE {held[w]}
Released(w) == {held[w]}

(* After the commit, finalize releases its lease in another transaction.   *)
ReleaseLease(w) ==
    /\ pc[w] \in {"succeeded", "failed"}
    /\ open' = open \ Released(w)
    /\ lapsed' = lapsed \ Released(w)
    /\ pc' = [pc EXCEPT ![w] = "idle"]
    /\ held' = [held EXCEPT ![w] = NoLease]
    /\ UNCHANGED <<rows, todo, plan, requests, crashes, calm>>

(* The release raises.  After a success the exception reaches the except   *)
(* clause of execute_claimed, which finalizes once more as a failure;      *)
(* after a failure it leaves process_next.                                 *)
ReleaseFails(w) ==
    /\ ~calm
    /\ pc[w] \in {"succeeded", "failed"}
    /\ \/ pc[w] = "succeeded" /\ (Publish(w, "failed") \/ Fenced(w))
       \/ /\ pc[w] = "failed"
          /\ pc' = [pc EXCEPT ![w] = "idle"]
          /\ held' = [held EXCEPT ![w] = NoLease]
          /\ UNCHANGED <<rows, leases, todo, plan, requests, crashes, calm>>

-----------------------------------------------------------------------------
(* Recovery: the sweep at the start of every process_next.                 *)

(* list_expired: a snapshot, taken once and walked afterwards.             *)
ListExpired(w) ==
    /\ pc[w] = "idle"
    /\ todo' = [todo EXCEPT ![w] = lapsed]
    /\ pc' = [pc EXCEPT ![w] = "sweep"]
    /\ UNCHANGED <<rows, leases, held, plan, requests, crashes, calm>>

ExhaustedLate(t) == attempts[t] > MaxAttempts
Exhausted(t) == attempts[t] >= MaxAttempts

(* The two SELECTs choose a branch; no lock is taken.                      *)
ReadLeased(w, l) ==
    LET t == TaskOf(l) IN
    /\ pc[w] = "sweep" /\ l \in todo[w]
    /\ todo' = [todo EXCEPT ![w] = @ \ {l}]
    /\ held' = [held EXCEPT ![w] = l]
    /\ plan' = [plan EXCEPT ![w] =
                  IF cancelWanted[t] THEN "cancelled"
                  ELSE IF Exhausted(t) THEN "failed" ELSE "queued"]
    /\ pc' = [pc EXCEPT ![w] = "recover"]
    /\ UNCHANGED <<rows, leases, requests, crashes, calm>>

(* The condition of the three UPDATEs of recover_expired.                  *)
AlwaysRecoverable(t) == TRUE
Recoverable(t) == status[t] = "running"

(* UPDATE ... WHERE id AND status = 'running', with no generation test; on *)
(* rowcount 0 the sweep rolls back.  Either way the lease is released next.*)
Recover(w) ==
    LET t == TaskOf(held[w]) IN
    /\ pc[w] = "recover"
    /\ IF Recoverable(t)
       THEN /\ status' = [status EXCEPT ![t] = plan[w]]
            /\ runStatus' = IF plan[w] # "queued" /\ runStatus[t] \in {"queued", "running"}
                            THEN [runStatus EXCEPT ![t] = plan[w]]
                            ELSE runStatus
       ELSE UNCHANGED <<status, runStatus>>
    /\ pc' = [pc EXCEPT ![w] = "recovered"]
    /\ UNCHANGED <<generation, attempts, writer, cancelWanted, leases, held, todo,
                   plan, requests, crashes, calm>>

(* The release that follows, in a transaction of its own.                  *)
ReleaseRecovered(w) ==
    /\ pc[w] = "recovered"
    /\ open' = open \ Released(w)
    /\ lapsed' = lapsed \ Released(w)
    /\ held' = [held EXCEPT ![w] = NoLease]
    /\ plan' = [plan EXCEPT ![w] = "none"]
    /\ pc' = [pc EXCEPT ![w] = "sweep"]
    /\ UNCHANGED <<rows, todo, requests, crashes, calm>>

(* A worker process dies and is started again, or an exception of the      *)
(* database leaves process_next: what the worker carried is lost, its      *)
(* leases stay behind.                                                     *)
Crash(w) ==
    /\ crashes < MaxCrashes
    /\ pc[w] # "idle"
    /\ crashes' = crashes + 1
    /\ pc' = [pc EXCEPT ![w] = "idle"]
    /\ held' = [held EXCEPT ![w] = NoLease]
    /\ todo' = [todo EXCEPT ![w] = {}]
    /\ plan' = [plan EXCEPT ![w] = "none"]
    /\ UNCHANGED <<rows, leases, requests, calm>>

-----------------------------------------------------------------------------
(* Requests of clients (packages/tasks), one step per transaction.         *)

At(c, step, t) == call[c] = <<step, t>>
GoTo(c, step, t) == call' = [call EXCEPT ![c] = <<step, t>>]
Answer(c) == call' = [call EXCEPT ![c] = NoCall]

(* cancel_research_run of a RUNNING run: a conditional UPDATE.             *)
RequestCancel(t) ==
    /\ runStatus[t] = "running" /\ ~cancelWanted[t]
    /\ cancelWanted' = [cancelWanted EXCEPT ![t] = TRUE]
    /\ UNCHANGED <<status, generation, attempts, writer, runStatus, leases, locals,
                   requests, crashes, calm>>

(* ... of a run read as QUEUED: first the run ...                          *)
CancelSeesQueuedRun(c, t) ==
    /\ call[c] = NoCall
    /\ runStatus[t] = "queued"
    /\ GoTo(c, "cancelRun", t)
    /\ UNCHANGED <<rows, leases, locals, retries, crashes, calm>>

AlwaysCancellable(t) == TRUE
Cancellable(t) == runStatus[t] \in {"queued", "running"}

(* _mark_run_cancelled: a conditional UPDATE from QUEUED or RUNNING.       *)
CancelRun(c, t) ==
    /\ At(c, "cancelRun", t)
    /\ IF Cancellable(t)
       THEN /\ runStatus' = [runStatus EXCEPT ![t] = "cancelled"]
            /\ GoTo(c, "findTask", t)
       ELSE Answer(c) /\ UNCHANGED runStatus
    /\ UNCHANGED <<status, generation, attempts, writer, cancelWanted, leases, locals,
                   retries, crashes, calm>>

(* ... then its task, if it is QUEUED when it is looked up.                *)
CancelFindsTask(c, t) ==
    /\ At(c, "findTask", t)
    /\ IF status[t] = "queued" THEN GoTo(c, "cancelTask", t) ELSE Answer(c)
    /\ UNCHANGED <<rows, leases, locals, retries, crashes, calm>>

(* POST /tasks/{id}/cancel and /retry read the task ...                    *)
CancelReadsTask(c, t) ==
    /\ call[c] = NoCall
    /\ status[t] \notin {"succeeded", "cancelled"}
    /\ GoTo(c, "cancelTask", t)
    /\ UNCHANGED <<rows, leases, locals, retries, crashes, calm>>

Retriable(t) == status[t] \in {"failed", "cancelled"}

RetryReadsTask(c, t) ==
    /\ call[c] = NoCall
    /\ Retriable(t) /\ retries[t] < MaxRetries
    /\ GoTo(c, "retryTask", t)
    /\ UNCHANGED <<rows, leases, locals, retries, crashes, calm>>

(* ... and write it by primary key, whatever happened to it meanwhile.     *)
CancelTask(c, t) ==
    /\ At(c, "cancelTask", t)
    /\ status' = [status EXCEPT ![t] = "cancelled"]
    /\ Answer(c)
    /\ UNCHANGED <<generation, attempts, writer, runStatus, cancelWanted, leases,
                   locals, retries, crashes, calm>>

(* A retry resets neither attempt_count, nor result_json, nor the run.     *)
RetryTask(c, t) ==
    /\ At(c, "retryTask", t)
    /\ retries[t] < MaxRetries
    /\ status' = [status EXCEPT ![t] = "queued"]
    /\ retries' = [retries EXCEPT ![t] = @ + 1]
    /\ Answer(c)
    /\ UNCHANGED <<generation, attempts, writer, runStatus, cancelWanted, leases,
                   locals, crashes, calm>>

-----------------------------------------------------------------------------
(* process_next of one worker.                                             *)
Work(w) ==
    \/ ListExpired(w)
    \/ \E l \in todo[w] : ReadLeased(w, l)
    \/ Recover(w)
    \/ ReleaseRecovered(w)
    \/ \E t \in Tasks : ClaimTask(w, t)
    \/ ClaimNothing(w)
    \/ Finalize(w)
    \/ ReleaseLease(w)

Request(c, t) ==
    \/ CancelSeesQueuedRun(c, t)
    \/ CancelRun(c, t)
    \/ CancelFindsTask(c, t)
    \/ CancelReadsTask(c, t)
    \/ RetryReadsTask(c, t)
    \/ CancelTask(c, t)
    \/ RetryTask(c, t)

Next ==
    \/ \E w \in Workers : Work(w) \/ Heartbeat(w) \/ ReleaseFails(w) \/ Crash(w)
    \/ \E l \in Active : Lapse(l)
    \/ \E t \in Tasks : RequestCancel(t) \/ \E c \in Clients : Request(c, t)

Spec == Init /\ [][Next]_vars

(* Workers keep polling and handlers end; the clock passes the expiry of a *)
(* lease that nobody renews.                                               *)
Fairness ==
    /\ \A w \in Workers : WF_vars(Work(w))
    /\ \A t \in Tasks, g \in 1..MaxGeneration : WF_vars(Lapse(<<t, g>>))

FairSpec == Spec /\ Fairness

-----------------------------------------------------------------------------
(* Properties.                                                             *)

(* Every variable holds a value of the column or local it stands for.      *)
TypeOK ==
    /\ status \in [Tasks -> Status]
    /\ generation \in [Tasks -> Nat]
    /\ attempts \in [Tasks -> Nat]
    /\ writer \in [Tasks -> Nat]
    /\ runStatus \in [Tasks -> Status]
    /\ cancelWanted \in [Tasks -> BOOLEAN]
    /\ open \subseteq LeaseIds
    /\ lapsed \subseteq open
    /\ pc \in [Workers -> {"idle", "sweep", "recover", "recovered", "executing",
                           "succeeded", "failed"}]
    /\ held \in [Workers -> LeaseIds \cup {NoLease}]
    /\ todo \in [Workers -> SUBSET LeaseIds]
    /\ plan \in [Workers -> {"none", "queued", "failed", "cancelled"}]
    /\ call \in [Clients -> {NoCall} \cup
                   ({"cancelRun", "findTask", "cancelTask", "retryTask"} \X Tasks)]
    /\ retries \in [Tasks -> Nat]
    /\ crashes \in Nat
    /\ calm \in BOOLEAN

(* A running task can always be recovered: the lease of its latest claim   *)
(* has not been released, through every interleaving of sweeps, stale      *)
(* finalizes, crashes and cancellations.  Recovery finds abandoned tasks   *)
(* by their leases only, so a running task without one is lost for good.   *)
RunningIsLeased == \A t \in Tasks : status[t] = "running" => CurrentLease(t) \in open

(* No two workers ever execute under the same generation of a task.        *)
OneExecutorPerGeneration ==
    \A v, w \in Workers :
        pc[v] = "executing" /\ pc[w] = "executing" /\ held[v] = held[w] => v = w

(* A task that reads succeeded carries the result of its latest execution, *)
(* and no worker is still executing it under that right: fenced workers,   *)
(* overtaken cancellations and retries never pair an old result with a     *)
(* task that succeeded.                                                    *)
ResultIsLatest ==
    \A t \in Tasks : status[t] = "succeeded" =>
        /\ writer[t] = generation[t]
        /\ \A w \in Workers : pc[w] = "executing" => held[w] # CurrentLease(t)

(* A client that polls the run and an operator who looks at the task see   *)
(* the same success: a succeeded task has a succeeded run.                 *)
SuccessIsVisible ==
    \A t \in Tasks : status[t] = "succeeded" => runStatus[t] = "succeeded"

(* A task is claimed at most max_attempts times, once more for every retry *)
(* a client asked for, and once more for every further worker: sweeps that *)
(* read the attempts while one was left may requeue the task one after the *)
(* other, each from the next execution.                                    *)
ClaimsBounded ==
    \A t \in Tasks : attempts[t] <= MaxAttempts + Cardinality(Workers) - 1 + retries[t]

(* While no heartbeat is late, concurrent claims stay within the cap on    *)
(* active runs (each counts the unexpired leases under its lock).          *)
ActiveWithinCap == calm => Cardinality(Active) <= MaxActiveRuns

(* As long as no release is refused, only the result of a later execution  *)
(* of a task that a client retried takes the success of a run away: no     *)
(* sweep, no fenced worker and no cancellation does, however late it       *)
(* commits.  (A retry writes a task that succeeded only if it read it      *)
(* before that.)                                                           *)
SucceededRunStays ==
    [][calm => \A t \in Tasks :
          runStatus[t] = "succeeded" /\ runStatus'[t] # "succeeded" =>
              writer'[t] > writer[t] /\ retries[t] > 0]_vars

(* The detailed steps implement the fencing token.  Another execution may  *)
(* be granted while the task waits for one, and while the one granted last *)
(* has not published.                                                      *)
MayBeGranted(t) == status[t] = "queued" \/ writer[t] # generation[t]
FT == INSTANCE FencingToken WITH
          token <- generation, published <- writer, asked <- retries,
          open <- [t \in Tasks |-> MayBeGranted(t)]
PublishesUnderToken == FT!Spec

(* Every task comes to rest, whoever crashes in between and whatever       *)
(* clients cancel or retry, and so does its run, unless a client cancelled *)
(* the task itself, which leaves the run as it is.  No lease is leaked: in *)
(* the end every one of them is released.                                  *)
EverythingSettles ==
    <>[](/\ \A t \in Tasks : /\ status[t] \in TerminalStatus
                             /\ runStatus[t] \in TerminalStatus \/ status[t] = "cancelled"
         /\ open = {})

-----------------------------------------------------------------------------
(* Statements of the docs and tests that the code does not keep.           *)

(* "exactly one worker wins per task ... no double recovery": a sweep takes*)
(* a task only from the execution whose lease expired.                     *)
RecoversOnlyTheExpired ==
    [][\A w \in Workers :
          pc[w] = "recover" /\ pc'[w] = "recovered" /\ status' # status => Fence(w)]_vars
=============================================================================
