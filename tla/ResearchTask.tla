---------------------------- MODULE ResearchTask ----------------------------
(***************************************************************************)
(* A research task from its submission to its end: process_next hands it   *)
(* to the deep-research agent or, without a research strategy, to the      *)
(* legacy workflow, and closes the run with what the handler returned,     *)
(* while clients cancel the run and poll its timeline.  Rows of the task   *)
(* itself and the retry budget are the business of TaskQueue.              *)
(***************************************************************************)
EXTENDS DeepResearch, AgentWorkflow

VARIABLES
    creator,    \* where the request that submitted the run is
    canceller   \* where a request to cancel the run is

clients == <<creator, canceller>>
vars == <<rowVars, execVars, accidents, timeline, agent, workflow, clients>>

Init ==
    /\ InitRow /\ InitTimeline /\ InitAgent /\ InitWorkflow
    /\ creator \in {"due", "done"}
    /\ canceller \in {"idle", "done"}

TypeOK ==
    /\ RowTypeOK /\ TimelineTypeOK /\ AgentTypeOK /\ WorkflowTypeOK
    /\ creator \in {"due", "recording", "done"}
    /\ canceller \in {"idle", "requesting", "queuedSeen", "cancelling", "closing", "done"}

-----------------------------------------------------------------------------
(* process_next.                                                           *)

(* Some worker claims the task: it was submitted, requeued by a failure,   *)
(* or cancelled and retried by a client, even while it is executed.  None  *)
(* of this takes a task that has succeeded.                                *)
Claim(e) ==
    /\ pc[e] = "idle"
    /\ ~fulfilled
    /\ Goes(e, "claimed")
    /\ UNCHANGED <<rowVars, result, accidents, timeline, agent, workflow, clients>>

MarkRunRunning(e) ==
    /\ pc[e] = "claimed"
    /\ Unlocked
    /\ CasOfTask({"queued"}, "running")
    /\ Goes(e, "starting")
    /\ UNCHANGED <<dialect, asked, moved, fulfilled, result, accidents, timeline, agent,
                   workflow, clients>>

Execute(e) ==
    \/ request = "agent" /\ Research(e) /\ UNCHANGED <<workflow, clients>>
    \/ request # "agent" /\ Analyze(e) /\ UNCHANGED <<timeline, agent, clients>>

(* mark_succeeded: the task names the run of the workflow from then on.    *)
MarkTaskSucceeded(e) ==
    /\ pc[e] = "closing" /\ result[e] = "succeeded"
    /\ \/ /\ moved' = (moved \/ request # "agent")
          /\ fulfilled' = TRUE
          /\ Goes(e, "publishing")
          /\ UNCHANGED <<result, accidents>>
       \/ Fault /\ Returns(e, "retry") /\ UNCHANGED <<moved, fulfilled>>
    /\ UNCHANGED <<dialect, run, asked, timeline, agent, workflow, clients>>

(* _mark_run_succeeded; the exception clause takes a failure for one of    *)
(* the task.                                                               *)
MarkRunSucceeded(e) ==
    /\ pc[e] = "publishing"
    /\ \/ /\ Unlocked
          /\ CasOfTask(Unfinished, "succeeded")
          /\ Goes(e, "announcing")
          /\ UNCHANGED <<result, accidents>>
       \/ Fault /\ Returns(e, "retry") /\ UNCHANGED run
    /\ UNCHANGED <<dialect, asked, moved, fulfilled, timeline, agent, workflow, clients>>

MarkRunFailed(e) ==
    /\ pc[e] = "closing" /\ result[e] \in {"failed", "retry"}
    /\ Unlocked
    /\ CasOfTask(Unfinished, "failed")
    /\ Goes(e, "announcing")
    /\ UNCHANGED <<dialect, asked, moved, fulfilled, result, accidents, timeline, agent,
                   workflow, clients>>

(* After WORKER_CLAIMED the handler is called.  After RUN_FAILED the task  *)
(* is marked as failed or for a retry, even if another execution had made  *)
(* it a success.                                                           *)
GoesOn(e) ==
    IF pc[e] = "starting"
    THEN Goes(e, "working") /\ UNCHANGED fulfilled
    ELSE Goes(e, "ended") /\ fulfilled' = (fulfilled /\ result[e] = "succeeded")

(* WORKER_CLAIMED before the handler, RUN_COMPLETED or RUN_FAILED after    *)
(* it.  A task that has moved to another run reports to that run.          *)
Announce(e) ==
    /\ pc[e] \in {"starting", "announcing"}
    /\ \/ ~moved /\ Allocate(e) /\ UNCHANGED <<fulfilled, pc, accidents>>
       \/ Recorded(e) /\ GoesOn(e)
       \/ moved /\ number[e] = 0 /\ GoesOn(e) /\ UNCHANGED <<accidents, timeline>>
    /\ UNCHANGED <<dialect, run, asked, moved, result, agent, workflow, clients>>

(* A worker dies; what it has committed stays.                             *)
Crash(e) ==
    /\ pc[e] \notin {"idle", "ended", "dead"}
    /\ crashes < budget.crashes
    /\ crashes' = crashes + 1
    /\ Goes(e, "dead")
    /\ Abandon(e)
    /\ UNCHANGED <<rowVars, result, budget, faults, agent, workflow, clients>>

-----------------------------------------------------------------------------
(* Requests.                                                               *)

(* submit records RUN_CREATED after its commit, unless it dies first.       *)
Create ==
    /\ \/ creator = "due" /\ creator' = "recording" /\ Allocate(Creator)
          /\ UNCHANGED accidents
       \/ creator = "recording" /\ creator' = "done" /\ Recorded(Creator)
    /\ UNCHANGED <<rowVars, execVars, agent, workflow, canceller>>

(* cancel_research_run reads the status.  A running run is only asked to   *)
(* stop (conditional UPDATE, committed before the event).                  *)
AskToStop ==
    /\ canceller = "idle" /\ run = "running"
    /\ Unlocked
    /\ asked' = TRUE
    /\ canceller' = "requesting"
    /\ UNCHANGED <<dialect, run, moved, fulfilled, execVars, accidents, timeline, agent,
                   workflow, creator>>

SeesQueued ==
    /\ canceller = "idle" /\ run = "queued"
    /\ canceller' = "queuedSeen"
    /\ UNCHANGED <<rowVars, execVars, accidents, timeline, agent, workflow, creator>>

(* RUN_CANCEL_REQUESTED, and RUN_CANCELLED at the end of the second path.  *)
CancelRecords ==
    /\ canceller \in {"requesting", "queuedSeen", "closing"}
    /\ \/ Allocate(Canceller) /\ UNCHANGED <<accidents, requested, canceller>>
       \/ /\ Recorded(Canceller)
          /\ requested' = (requested \/ (canceller = "requesting" /\ rows' > rows))
          /\ canceller' = IF canceller = "queuedSeen" THEN "cancelling" ELSE "done"
    /\ UNCHANGED <<rowVars, execVars, at, reports, late, workflow, creator>>

(* _mark_run_cancelled: the run was read as queued, but the UPDATE takes a *)
(* running run as well, and does not ask its execution to stop.            *)
CancelQueued ==
    /\ canceller = "cancelling"
    /\ Unlocked
    /\ Cas(Unfinished, "cancelled")
    /\ canceller' = IF run \in Unfinished THEN "closing" ELSE "done"
    /\ UNCHANGED <<dialect, asked, moved, fulfilled, execVars, accidents, timeline, agent,
                   workflow, creator>>

-----------------------------------------------------------------------------

Process(e) ==
    \/ Claim(e) \/ MarkRunRunning(e) \/ Execute(e)
    \/ MarkTaskSucceeded(e) \/ MarkRunSucceeded(e) \/ MarkRunFailed(e)
    \/ Announce(e) \/ Crash(e)
Cancel == AskToStop \/ SeesQueued \/ CancelRecords \/ CancelQueued

Next == (\E e \in Executions : Process(e)) \/ Create \/ Cancel

Spec == Init /\ [][Next]_vars

-----------------------------------------------------------------------------

(* A client that polls the timeline with the last number it has seen gets  *)
(* every event exactly once: whoever writes at the same time, the numbers  *)
(* are 1, 2, 3, ... in the order of the commits, and where the row of the  *)
(* run can be locked no event is dropped for a number that was taken.      *)
TimelineIsWhole ==
    /\ taken = 1..rows
    /\ dialect = "postgresql" => ~refused

(* Once a request to stop a running run is in the timeline, every agent at *)
(* work finishes at most the section it is in: no later stage appears      *)
(* behind the request, unless the database fails a check.                  *)
CancelIsHeeded == \A e \in Executions : Cardinality(late[e]) <= 1 + faults

(* What the workflow's own rows say of an execution.                       *)
StepsTellRun(e) ==
    /\ \A k \in 1..Len(steps[e]) :
          steps[e][k] \in {"running", "failed"} => k = Len(steps[e]) /\ own[e] # "succeeded"
    /\ own[e] = "succeeded" => Finished(e)
    /\ own[e] = "failed" /\ faults = 0 => ~InStep(e)
    /\ own[e] = "running" /\ pc[e] # "working" => faults + crashes > 0

(* The outcome of a task tells what was done for it: a run that reads      *)
(* succeeded has a saved report, a result of the workflow stands on a      *)
(* complete record of finished steps, a permanent failure on a failed      *)
(* record or on a payload that was refused, and the workflow's own run is  *)
(* not left running behind an execution that is over, unless the database  *)
(* failed or a worker died.  The submitted run is closed by the end of any *)
(* execution, with one exception: when a task has moved to the finished    *)
(* run of the workflow, the submitted run keeps the status it has.         *)
OutcomesTellWork ==
    /\ run = "succeeded" => reports + faults > 0
    /\ moved => \E e \in Executions : own[e] = "succeeded"
    /\ \A e \in Executions :
          /\ StepsTellRun(e)
          /\ result[e] = "succeeded" => (request # "agent" <=> own[e] = "succeeded")
          /\ result[e] = "failed" => own[e] = IF request = "invalid" THEN "none" ELSE "failed"
          /\ pc[e] \in {"announcing", "ended"} => run \notin Unfinished \/ moved
=============================================================================
