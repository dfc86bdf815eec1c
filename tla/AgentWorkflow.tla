--------------------------- MODULE AgentWorkflow ---------------------------
(***************************************************************************)
(* ResearchWorkflowRunner.run, the legacy multi-agent workflow             *)
(* (packages/agents/workflow.py).  Every execution makes a run of its own  *)
(* and one run_steps row per stage: RUNNING is committed before the stage, *)
(* its outcome after it, and stages that do not apply are recorded as      *)
(* skipped.                                                                *)
(*                                                                         *)
(* What a stage computes is left out, but for whether the evidence bundle  *)
(* has items, which decides which agents are asked.                        *)
(***************************************************************************)
EXTENDS RunRow, Sequences

VARIABLES
    request,    \* what executes the task, and for the workflow where its
                \* evidence comes from; "invalid" is a payload that no handler takes
    own,        \* status of the run each execution made
    steps,      \* statuses of the run_steps rows of that run, in their order
    bundle      \* whether its evidence bundle has items

workflow == <<request, own, steps, bundle>>

Acquisitions == {"acquire", "acquire_pdf"}
Requests == {"agent", "invalid", "retrieve"} \cup Acquisitions
StepStatus == {"running", "succeeded", "failed", "skipped"}

SourceSteps == <<"source_route", "source_search", "source_fetch_detail",
                 "source_extract_evidence">>
PdfSteps == <<"pdf_discover_attachments", "pdf_download", "pdf_extract",
              "pdf_extract_evidence">>
AgentSteps == <<"supervisor_intake", "thesis_builder", "opponent", "evidence_judge",
                "risk_analyst", "synthesize_memo">>

(* The stages of a request, in the order of their rows.                    *)
StepPlan ==
    IF request \in Acquisitions
    THEN SourceSteps \o PdfSteps \o <<"source_build_bundle">> \o AgentSteps
    ELSE SourceSteps \o <<"source_build_bundle">> \o PdfSteps
         \o <<"retrieve_evidence", "build_evidence_bundle">> \o AgentSteps

(* Stages recorded as skipped: those of the other source of evidence, and, *)
(* without evidence, the agents that need a thesis.                        *)
Skipped(e, step) ==
    \/ /\ request = "retrieve"
       /\ step \in {SourceSteps[k] : k \in 1..4} \cup {"source_build_bundle"}
    \/ request # "acquire_pdf" /\ step \in {PdfSteps[k] : k \in 1..4}
    \/ bundle[e] = "empty" /\ step \in {"thesis_builder", "opponent", "risk_analyst"}

BundleSteps == {"source_build_bundle", "build_evidence_bundle"}

Finished(e) == Len(steps[e]) = Len(StepPlan)
NextStep(e) == StepPlan[Len(steps[e]) + 1]
InStep(e) == steps[e] # <<>> /\ steps[e][Len(steps[e])] = "running"
StepFailed(e) == steps[e] # <<>> /\ steps[e][Len(steps[e])] = "failed"

InitWorkflow ==
    /\ request \in Requests
    /\ own = [e \in Executions |-> "none"]
    /\ steps = [e \in Executions |-> <<>>]
    /\ bundle = [e \in Executions |-> "unknown"]

WorkflowTypeOK ==
    /\ request \in Requests
    /\ own \in [Executions -> {"none", "running", "succeeded", "failed"}]
    /\ steps \in [Executions -> Seq(StepStatus)]
    /\ \A e \in Executions : Len(steps[e]) <= Len(StepPlan)
    /\ bundle \in [Executions -> {"unknown", "empty", "full"}]

-----------------------------------------------------------------------------

Adds(e, status) == steps' = [steps EXCEPT ![e] = Append(@, status)]
EndsInNewRow(e, status) == steps' = [steps EXCEPT ![e] = Append(@, status)]
Ends(e, status) == steps' = [steps EXCEPT ![e][Len(steps[e])] = status]
OwnRun(e, status) == own' = [own EXCEPT ![e] = status]

(* _handle_research validates the payload before it chooses a handler; one *)
(* that fails is a permanent error, and no workflow makes a run.           *)
RejectPayload(e) ==
    /\ request = "invalid" /\ own[e] = "none"
    /\ Returns(e, "failed")
    /\ UNCHANGED <<rowVars, accidents, request, own, steps, bundle>>

(* _create_run commits a second run, RUNNING at once, or raises.           *)
CreateRun(e) ==
    /\ request # "invalid" /\ own[e] = "none"
    /\ \/ OwnRun(e, "running") /\ UNCHANGED <<execVars, accidents>>
       \/ Returns(e, "retry") /\ Fault /\ UNCHANGED own
    /\ UNCHANGED <<rowVars, request, steps, bundle>>

(* _record_skipped_step.                                                   *)
SkipStep(e) ==
    /\ own[e] = "running" /\ ~InStep(e) /\ ~StepFailed(e) /\ ~Finished(e)
    /\ Skipped(e, NextStep(e))
    /\ Adds(e, "skipped")
    /\ UNCHANGED <<rowVars, execVars, accidents, request, own, bundle>>

(* _run_step, up to its first commit.                                      *)
BeginStep(e) ==
    /\ own[e] = "running" /\ ~InStep(e) /\ ~StepFailed(e) /\ ~Finished(e)
    /\ ~Skipped(e, NextStep(e))
    /\ Adds(e, "running")
    /\ UNCHANGED <<rowVars, execVars, accidents, request, own, bundle>>

(* The stage returns.                                                      *)
EndStep(e) ==
    /\ InStep(e)
    /\ Ends(e, "succeeded")
    /\ IF StepPlan[Len(steps[e])] \in BundleSteps
       THEN \E found \in {"empty", "full"} : bundle' = [bundle EXCEPT ![e] = found]
       ELSE UNCHANGED bundle
    /\ UNCHANGED <<rowVars, execVars, accidents, request, own>>

(* The stage raises: the step is recorded as failed, and run() goes to its *)
(* exception clause.                                                       *)
StepRaises(e) ==
    /\ InStep(e)
    /\ Ends(e, "failed")
    /\ UNCHANGED <<rowVars, execVars, accidents, request, own, bundle>>

FailsInStep(e) == own[e] = "running"
(* The exception clause of run(), reached from a failed step, or from the  *)
(* code between two steps: no provider can be resolved, a step's output    *)
(* cannot be serialised (the step's success is flushed with the failure).  *)
FailsWorkflow(e) == own[e] = "running" /\ ~InStep(e)

FailRun(e) ==
    /\ FailsWorkflow(e)
    /\ OwnRun(e, "failed")
    /\ Returns(e, "failed")
    /\ UNCHANGED <<rowVars, accidents, request, steps, bundle>>

(* A write of the workflow fails.  If the session can still be used the    *)
(* exception clause ends the run, whose last step stays as it was; else    *)
(* the exception leaves run() and nothing is written.                      *)
WriteFails(e) ==
    /\ own[e] = "running"
    /\ Fault
    /\ \/ OwnRun(e, "failed") /\ Returns(e, "failed")
       \/ Returns(e, "retry") /\ UNCHANGED own
    /\ UNCHANGED <<rowVars, request, steps, bundle>>

(* _finish_run with the result.                                            *)
SucceedRun(e) ==
    /\ own[e] = "running" /\ ~InStep(e) /\ ~StepFailed(e)
    /\ Finished(e)
    /\ OwnRun(e, "succeeded")
    /\ Returns(e, "succeeded")
    /\ UNCHANGED <<rowVars, accidents, request, steps, bundle>>

Analyze(e) ==
    /\ pc[e] = "working"
    /\ \/ RejectPayload(e)
       \/ CreateRun(e) \/ SkipStep(e) \/ BeginStep(e) \/ EndStep(e) \/ StepRaises(e)
       \/ FailRun(e) \/ WriteFails(e) \/ SucceedRun(e)
=============================================================================
