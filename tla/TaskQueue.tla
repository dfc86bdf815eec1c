----------------------------- MODULE TaskQueue -----------------------------
(***************************************************************************)
(* The queue that apps/worker polls (packages/tasks): workers claim tasks, *)
(* drive the status of the run a task belongs to, and end an attempt with  *)
(* a result, a cancellation, a permanent failure or a retry, while clients *)
(* cancel runs, cancel tasks and ask for a retry.                          *)
(*                                                                         *)
(* One action is one database transaction.  Run statuses are written with  *)
(* conditional UPDATEs; task and attempt rows by primary key through the   *)
(* worker's ORM object, which leaves out a column whose value it believes  *)
(* to be stored already.  A task has the run of the same name as the       *)
(* source_run_id it was submitted with.                                    *)
(*                                                                         *)
(* A definition that stands just before another with the same parameters   *)
(* and is used nowhere is a faulty variant of it; PROJECT.json names the   *)
(* property it breaks.                                                     *)
(***************************************************************************)
EXTENDS Integers, Sequences, FiniteSets

CONSTANTS
    Tasks,          \* rows of task_jobs of type research_analyze
    Workers,        \* apps/worker processes
    Clients,        \* concurrent requests to the API
    MaxAttempts,    \* task_jobs.max_attempts
    MaxRetries,     \* bound on the retry requests for one task
    MaxCrashes,     \* bound on worker crashes
    Executors,      \* who may execute: an injected executor, the deep-research
                    \* agent, or the legacy workflow (no research_strategy)
    StoreFaults     \* may the database refuse to record a run's success?

ASSUME QueueAssumption ==
    /\ MaxAttempts \in Nat \ {0}
    /\ MaxRetries \in Nat
    /\ MaxCrashes \in Nat
    /\ Executors \subseteq {"injected", "agent", "legacy"}
    /\ StoreFaults \in BOOLEAN

VARIABLES
    executor,     \* who executes each task, decided by its payload and the worker
    status,       \* task_jobs.status
    attempts,     \* task_attempts.status by attempt_number
    moved,        \* source_run_id now names the run the legacy workflow made
    runStatus,    \* runs.status
    cancelWanted, \* runs.cancel_requested_at IS NOT NULL
    pc,           \* where each worker is in process_next
    job,          \* the task and attempt number it carries
    known,        \* the task status its ORM object loaded last
    plan,         \* the task status mark_failed or cancel_claimed_task will write
    call,         \* where each request of a client is
    retries,      \* retry requests that requeued a task
    crashes,
    done,         \* how often a worker stored the success of a task
    refused       \* how often the success of its run was then refused

rows == <<executor, status, attempts, moved, runStatus, cancelWanted>>
locals == <<pc, job, known, plan>>
history == <<done, refused>>
vars == <<rows, locals, call, retries, crashes, history>>

RunTerminal == {"succeeded", "failed", "cancelled"}
RunStatus == {"queued", "running"} \cup RunTerminal
TaskTerminal == RunTerminal \cup {"dead_letter"}
TaskStatus == {"queued", "running"} \cup TaskTerminal
AttemptStatus == {"running", "succeeded", "failed", "retry_scheduled", "cancelled"}

NoJob == <<>>
NoCall == <<>>
TaskOf(w) == job[w][1]
AttemptOf(w) == job[w][2]

Init ==
    /\ executor \in [Tasks -> Executors]
    /\ status = [t \in Tasks |-> "queued"]
    /\ attempts = [t \in Tasks |-> <<>>]
    /\ moved = [t \in Tasks |-> FALSE]
    /\ runStatus = [t \in Tasks |-> "queued"]
    /\ cancelWanted = [t \in Tasks |-> FALSE]
    /\ pc = [w \in Workers |-> "idle"]
    /\ job = [w \in Workers |-> NoJob]
    /\ known = [w \in Workers |-> "queued"]
    /\ plan = [w \in Workers |-> "none"]
    /\ call = [c \in Clients |-> NoCall]
    /\ retries = [t \in Tasks |-> 0]
    /\ crashes = 0
    /\ done = [t \in Tasks |-> 0]
    /\ refused = [t \in Tasks |-> 0]

-----------------------------------------------------------------------------
(* Writes.                                                                 *)

(* from_statuses of the three transitions that end a run.                  *)
OnlyQueued == {"queued"}
AnyStatus == RunStatus
Unfinished == {"queued", "running"}

(* _cas_update_run on the run a task points at.  Once the task points at   *)
(* the legacy run, which that workflow has ended, no row matches.          *)
Cas(t, from, to) ==
    runStatus' = IF ~moved[t] /\ runStatus[t] \in from
                 THEN [runStatus EXCEPT ![t] = to] ELSE runStatus

(* The flush of the worker's ORM object.                                   *)
ForgetsRequeue(w, s) == IF s = "queued" THEN status
                        ELSE [status EXCEPT ![TaskOf(w)] = s]
Flushed(w, s) == IF s = known[w] THEN status ELSE [status EXCEPT ![TaskOf(w)] = s]

AttemptSet(w, s) == [attempts EXCEPT ![TaskOf(w)][AttemptOf(w)] = s]

-----------------------------------------------------------------------------
(* process_next of a worker.                                               *)

ClaimableTwice(t) == status[t] \in {"queued", "running"}
Claimable(t) == status[t] = "queued"

(* SELECT ... FOR UPDATE SKIP LOCKED, or the conditional UPDATE of the     *)
(* fallback: some queued task, its attempt_count + 1 and an attempt row.   *)
ClaimNext(w, t) ==
    /\ pc[w] = "idle"
    /\ Claimable(t)
    /\ status' = [status EXCEPT ![t] = "running"]
    /\ attempts' = [attempts EXCEPT ![t] = Append(@, "running")]
    /\ pc' = [pc EXCEPT ![w] = "claimed"]
    /\ job' = [job EXCEPT ![w] = <<t, Len(attempts[t]) + 1>>]
    /\ UNCHANGED <<executor, moved, runStatus, cancelWanted, known, plan,
                   call, retries, crashes, history>>

(* _mark_run_running commits; then the task is loaded anew for the event   *)
(* and the handler's arguments.                                            *)
MarkRunRunning(w) ==
    /\ pc[w] = "claimed"
    /\ Cas(TaskOf(w), {"queued"}, "running")
    /\ known' = [known EXCEPT ![w] = status[TaskOf(w)]]
    /\ pc' = [pc EXCEPT ![w] = "executing"]
    /\ UNCHANGED <<executor, status, attempts, moved, cancelWanted, job, plan,
                   call, retries, crashes, history>>

(* The handler returned: mark_succeeded commits task and attempt, and the  *)
(* run id of the result becomes the source_run_id.                         *)
MarkSucceeded(w) ==
    /\ pc[w] = "executing"
    /\ status' = Flushed(w, "succeeded")
    /\ attempts' = AttemptSet(w, "succeeded")
    /\ moved' = [moved EXCEPT ![TaskOf(w)] = @ \/ executor[TaskOf(w)] = "legacy"]
    /\ done' = [done EXCEPT ![TaskOf(w)] = @ + 1]
    /\ pc' = [pc EXCEPT ![w] = "taskSucceeded"]
    /\ UNCHANGED <<executor, runStatus, cancelWanted, job, known, plan, call,
                   retries, crashes, refused>>

(* ... and in a second transaction the run.                                *)
MarkRunSucceeded(w) ==
    /\ pc[w] = "taskSucceeded"
    /\ Cas(TaskOf(w), Unfinished, "succeeded")
    /\ pc' = [pc EXCEPT ![w] = "idle"]
    /\ job' = [job EXCEPT ![w] = NoJob]
    /\ UNCHANGED <<executor, status, attempts, moved, cancelWanted, known,
                   plan, call, retries, crashes, history>>

(* An except clause ends the run, then loads the task to end the attempt.  *)
EndRun(w, to, next) ==
    /\ Cas(TaskOf(w), Unfinished, to)
    /\ known' = [known EXCEPT ![w] = status[TaskOf(w)]]
    /\ plan' = [plan EXCEPT ![w] = next]
    /\ pc' = [pc EXCEPT ![w] = "closing"]
    /\ UNCHANGED <<executor, status, attempts, moved, cancelWanted, job, call,
                   retries, crashes, done>>

(* attempt_count < max_attempts, read when mark_failed begins.             *)
OneRetryTooMany(t) == Len(attempts[t]) <= MaxAttempts
MayRetry(t) == Len(attempts[t]) < MaxAttempts

FailRetryable(w) ==
    EndRun(w, "failed", IF MayRetry(TaskOf(w)) THEN "queued" ELSE "dead_letter")

(* An injected executor lets ResearchRunCancelled pass; the handler of the *)
(* agent turns every exception of the agent into RetryableTaskError.       *)
ObserveCancel(w) ==
    /\ pc[w] = "executing"
    /\ cancelWanted[TaskOf(w)]
    /\ \/ executor[TaskOf(w)] = "injected" /\ EndRun(w, "cancelled", "cancelled")
       \/ executor[TaskOf(w)] = "agent" /\ FailRetryable(w)
    /\ UNCHANGED refused

(* NonRetryableTaskError, or any other exception of the handler; or the    *)
(* database refused the commit of MarkRunSucceeded, which ends in the same *)
(* except clause: the success of the task is taken back.                   *)
Fail(w) ==
    \/ /\ pc[w] = "executing"
       /\ EndRun(w, "failed", "failed") \/ FailRetryable(w)
       /\ UNCHANGED refused
    \/ /\ StoreFaults
       /\ pc[w] = "taskSucceeded"
       /\ FailRetryable(w)
       /\ refused' = [refused EXCEPT ![TaskOf(w)] = @ + 1]

ClosesWithPlan(s) == s
LeavesCancelled(s) == IF s = "queued" THEN "retry_scheduled"
                      ELSE IF s = "cancelled" THEN "running" ELSE "failed"
ClosedAs(s) == CASE s = "queued" -> "retry_scheduled"
                 [] s \in {"failed", "dead_letter"} -> "failed"
                 [] s = "cancelled" -> "cancelled"

(* mark_failed or cancel_claimed_task commits task and attempt.            *)
CloseAttempt(w) ==
    /\ pc[w] = "closing"
    /\ status' = Flushed(w, plan[w])
    /\ attempts' = AttemptSet(w, ClosedAs(plan[w]))
    /\ pc' = [pc EXCEPT ![w] = "idle"]
    /\ job' = [job EXCEPT ![w] = NoJob]
    /\ plan' = [plan EXCEPT ![w] = "none"]
    /\ UNCHANGED <<executor, moved, runStatus, cancelWanted, known, call,
                   retries, crashes, history>>

(* The process dies, by itself or because an exception left process_next.  *)
Crash(w) ==
    /\ crashes < MaxCrashes
    /\ pc[w] # "idle"
    /\ crashes' = crashes + 1
    /\ pc' = [pc EXCEPT ![w] = "idle"]
    /\ job' = [job EXCEPT ![w] = NoJob]
    /\ plan' = [plan EXCEPT ![w] = "none"]
    /\ UNCHANGED <<rows, known, call, retries, history>>

-----------------------------------------------------------------------------
(* Requests of clients.                                                    *)

At(c, step, t) == call[c] = <<step, t>>
GoTo(c, step, t) == call' = [call EXCEPT ![c] = <<step, t>>]
Answer(c) == call' = [call EXCEPT ![c] = NoCall]

(* cancel_research_run of a RUNNING run: a conditional UPDATE.             *)
RequestCancel(t) ==
    /\ runStatus[t] = "running" /\ ~cancelWanted[t]
    /\ cancelWanted' = [cancelWanted EXCEPT ![t] = TRUE]
    /\ UNCHANGED <<executor, status, attempts, moved, runStatus, locals, call,
                   retries, crashes, history>>

(* ... of a run read as QUEUED: first the run, if it has not ended ...     *)
CancelSeesQueuedRun(c, t) ==
    /\ call[c] = NoCall
    /\ runStatus[t] = "queued"
    /\ GoTo(c, "cancelRun", t)
    /\ UNCHANGED <<rows, locals, retries, crashes, history>>

CancelRun(c, t) ==
    /\ At(c, "cancelRun", t)
    /\ IF runStatus[t] \in Unfinished
       THEN /\ runStatus' = [runStatus EXCEPT ![t] = "cancelled"]
            /\ GoTo(c, "findTask", t)
       ELSE Answer(c) /\ UNCHANGED runStatus
    /\ UNCHANGED <<executor, status, attempts, moved, cancelWanted, locals,
                   retries, crashes, history>>

(* ... then the task of that run, if it is QUEUED when it is looked up.    *)
CancelFindsTask(c, t) ==
    /\ At(c, "findTask", t)
    /\ IF status[t] = "queued" /\ ~moved[t] THEN GoTo(c, "cancelTask", t) ELSE Answer(c)
    /\ UNCHANGED <<rows, locals, retries, crashes, history>>

(* POST /tasks/{id}/cancel and /retry read the task ...                    *)
CancelReadsTask(c, t) ==
    /\ call[c] = NoCall
    /\ status[t] \notin {"succeeded", "cancelled"}
    /\ GoTo(c, "cancelTask", t)
    /\ UNCHANGED <<rows, locals, retries, crashes, history>>

Retriable(t) == status[t] \in {"failed", "dead_letter", "cancelled"}

RetryReadsTask(c, t) ==
    /\ call[c] = NoCall
    /\ Retriable(t) /\ retries[t] < MaxRetries
    /\ GoTo(c, "retryTask", t)
    /\ UNCHANGED <<rows, locals, retries, crashes, history>>

(* ... and write it by primary key.  A retry resets neither attempt_count  *)
(* nor the run.                                                            *)
CancelTask(c, t) ==
    /\ At(c, "cancelTask", t)
    /\ status' = [status EXCEPT ![t] = "cancelled"]
    /\ Answer(c)
    /\ UNCHANGED <<executor, attempts, moved, runStatus, cancelWanted, locals,
                   retries, crashes, history>>

RetryTask(c, t) ==
    /\ At(c, "retryTask", t)
    /\ retries[t] < MaxRetries
    /\ status' = [status EXCEPT ![t] = "queued"]
    /\ retries' = [retries EXCEPT ![t] = @ + 1]
    /\ Answer(c)
    /\ UNCHANGED <<executor, attempts, moved, runStatus, cancelWanted, locals,
                   crashes, history>>

-----------------------------------------------------------------------------
Work(w) ==
    \/ \E t \in Tasks : ClaimNext(w, t)
    \/ MarkRunRunning(w)
    \/ MarkSucceeded(w)
    \/ MarkRunSucceeded(w)
    \/ ObserveCancel(w)
    \/ Fail(w)
    \/ CloseAttempt(w)

Request(c, t) ==
    \/ CancelSeesQueuedRun(c, t)
    \/ CancelRun(c, t)
    \/ CancelFindsTask(c, t)
    \/ CancelReadsTask(c, t)
    \/ RetryReadsTask(c, t)
    \/ CancelTask(c, t)
    \/ RetryTask(c, t)

Next ==
    \/ \E w \in Workers : Work(w) \/ Crash(w)
    \/ \E t \in Tasks : RequestCancel(t) \/ \E c \in Clients : Request(c, t)

Spec == Init /\ [][Next]_vars

(* Workers keep polling and handlers end.  No request has to be made, and  *)
(* none has to be answered.                                                *)
FairSpec == Spec /\ \A w \in Workers : WF_vars(Work(w))

-----------------------------------------------------------------------------
(* Properties.                                                             *)

(* Every variable holds a value of the column or local it stands for, and  *)
(* what a worker carries is an attempt that exists.                        *)
TypeOK ==
    /\ executor \in [Tasks -> Executors]
    /\ status \in [Tasks -> TaskStatus]
    /\ attempts \in [Tasks -> Seq(AttemptStatus)]
    /\ moved \in [Tasks -> BOOLEAN]
    /\ runStatus \in [Tasks -> RunStatus]
    /\ cancelWanted \in [Tasks -> BOOLEAN]
    /\ pc \in [Workers -> {"idle", "claimed", "executing", "taskSucceeded", "closing"}]
    /\ job \in [Workers -> {NoJob} \cup (Tasks \X Nat)]
    /\ known \in [Workers -> TaskStatus]
    /\ plan \in [Workers -> {"none", "queued", "failed", "dead_letter", "cancelled"}]
    /\ call \in [Clients -> {NoCall} \cup
                   ({"cancelRun", "findTask", "cancelTask", "retryTask"} \X Tasks)]
    /\ retries \in [Tasks -> Nat]
    /\ crashes \in Nat
    /\ done \in [Tasks -> Nat]
    /\ refused \in [Tasks -> Nat]
    /\ \A w \in Workers :
          IF pc[w] = "idle" THEN job[w] = NoJob
          ELSE job[w] # NoJob /\ AttemptOf(w) \in 1..Len(attempts[TaskOf(w)])

(* A task is attempted at most max_attempts times, and once more for every *)
(* retry a client asked for, although two workers may execute one task at  *)
(* the same time and each requeues it on what it read before.              *)
AttemptsBounded == \A t \in Tasks : Len(attempts[t]) <= MaxAttempts + retries[t]

Numbered(t, s) == {n \in 1..Len(attempts[t]) : attempts[t][n] = s}

(* How often a task is executed to success: once, once more for every      *)
(* retry a client asked for, and once more whenever the database refused   *)
(* to record the success of its run, for the code then requeues the task   *)
(* that has just succeeded.  Nothing else repeats work: claims never hand  *)
(* one queue entry to two workers.                                         *)
WorkNotRepeated == \A t \in Tasks : done[t] <= 1 + retries[t] + refused[t]

(* An attempt that still reads running is carried by a worker or was lost  *)
(* in a crash: every path through process_next closes the attempt row.     *)
Lost == UNION {{t} \X {n \in Numbered(t, "running") : \A w \in Workers : job[w] # <<t, n>>} :
                  t \in Tasks}
AttemptsAreClosed == Cardinality(Lost) <= crashes

(* A client that polls the run of a task that gave up sees it ended, and   *)
(* so does that of a task that succeeded, once its worker has gone on.     *)
TaskEndsRun ==
    \A t \in Tasks :
        \/ status[t] \in {"queued", "running", "cancelled"}
        \/ runStatus[t] \in RunTerminal \/ moved[t]
        \/ /\ status[t] = "succeeded"
           /\ crashes > 0 \/ \E w \in Workers : pc[w] = "taskSucceeded" /\ TaskOf(w) = t

(* Run statuses move as the gateway promises, "terminal wins".             *)
RL == INSTANCE RunLifecycle WITH Runs <- Tasks, state <- runStatus, asked <- cancelWanted
FollowsRunLifecycle == RL!Spec

(* Unless a worker crashes every task comes to rest, whatever clients      *)
(* cancel or retry meanwhile, and so does its run, unless the task points  *)
(* at another run or a client cancelled the task itself, which leaves the  *)
(* run as it is.                                                           *)
EverythingRests ==
    \A t \in Tasks :
        <>[](\/ crashes > 0
             \/ /\ status[t] \in TaskTerminal
                /\ runStatus[t] \in RunTerminal \/ status[t] = "cancelled" \/ moved[t])

-----------------------------------------------------------------------------
(* Statements of the docs and tests that the code does not keep.           *)

AtRest(t) == \A w \in Workers : pc[w] = "idle" \/ TaskOf(w) # t

(* "Run.status remains the authoritative current state": a task at rest    *)
(* with a result has a succeeded run.                                      *)
RunTellsSuccess ==
    \A t \in Tasks : status[t] = "succeeded" /\ AtRest(t) => runStatus[t] = "succeeded"
=============================================================================
