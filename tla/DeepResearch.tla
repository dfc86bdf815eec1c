---------------------------- MODULE DeepResearch ----------------------------
(***************************************************************************)
(* DeepResearchAgent.run, as a worker calls it for a run                   *)
(* (packages/agents/deep_research.py): the phases in their order, the      *)
(* cooperative cancellation checks at the expensive boundaries, the stage  *)
(* events, and the report that is saved at the end.                        *)
(*                                                                         *)
(* What a phase computes is left out.  A model call that fails yields an   *)
(* empty answer and a search that fails is skipped, so a phase ends        *)
(* normally on such failures; it raises when an answer has the wrong shape *)
(* or a provider cannot be built.                                          *)
(***************************************************************************)
EXTENDS RunTimeline, Sequences

VARIABLES
    at,         \* how far each execution is in Pipeline
    reports,    \* number of reports saved
    requested,  \* is RUN_CANCEL_REQUESTED of a running run in the timeline?
    late        \* history: sections in which each execution stored stage
                \* events after that row

agent == <<at, reports, requested, late>>

(* What the agent does in turn, each after a phase of work.                *)
Pipeline ==
    << <<"make_client", "check">>,
       <<"none", "PLANNER_STARTED">>, <<"query_understanding", "PLANNER_COMPLETED">>,
       <<"none", "check">>,
       <<"none", "SEARCH_STARTED">>, <<"multi_round_search", "SEARCH_COMPLETED">>,
       <<"source_tiering", "check">>,
       <<"evidence_chain", "EVIDENCE_BUILT">>, <<"multi_agent_debate", "CLAIMS_BUILT">>,
       <<"counter_evidence", "check">>,
       <<"none", "EDITOR_STARTED">>, <<"report_assembly", "EDITOR_COMPLETED">>,
       <<"none", "persist">> >>

Phase(e) == Pipeline[at[e]][1]
Op(e) == Pipeline[at[e]][2]
Emits(e) == Op(e) \notin {"check", "persist"}

(* The number of checks an execution has passed.                           *)
Section(e) == Cardinality({k \in 1..(at[e] - 1) : Pipeline[k][2] = "check"})

InitAgent ==
    /\ at = [e \in Executions |-> 1]
    /\ reports = 0
    /\ requested = FALSE
    /\ late = [e \in Executions |-> {}]

AgentTypeOK ==
    /\ at \in [Executions -> 1..Len(Pipeline)]
    /\ reports \in Nat
    /\ requested \in BOOLEAN
    /\ late \in [Executions -> SUBSET Nat]

-----------------------------------------------------------------------------

Advance(e) == at' = [at EXCEPT ![e] = @ + 1]

(* What run() raises is turned into a retryable error of the task, a       *)
(* cancellation included (_handle_deep_research).                          *)
Raises(e) == Returns(e, "retry") /\ UNCHANGED at

HeedsAtFirst(e) == asked /\ at[e] = 1
Heeds(e) == asked

(* _check_cancelled reads the run in a session of its own; it never fails. *)
CheckCancelled(e) ==
    /\ Op(e) = "check"
    /\ \/ Heeds(e) /\ Raises(e) /\ UNCHANGED accidents
       \/ ~Heeds(e) /\ Advance(e) /\ UNCHANGED <<execVars, accidents>>
       \/ Fault /\ Advance(e) /\ UNCHANGED execVars
    /\ UNCHANGED <<rowVars, timeline, reports, requested, late>>

(* The phase before raises.                                                *)
PhaseRaises(e) ==
    /\ Phase(e) # "none" /\ number[e] = 0
    /\ Raises(e)
    /\ UNCHANGED <<rowVars, accidents, timeline, reports, requested, late>>

(* _emit.                                                                  *)
BeginEvent(e) ==
    /\ Emits(e)
    /\ Allocate(e)
    /\ UNCHANGED <<rowVars, execVars, accidents, agent>>

EndEvent(e) ==
    /\ Emits(e)
    /\ Recorded(e)
    /\ Advance(e)
    /\ late' = IF requested /\ rows' > rows
               THEN [late EXCEPT ![e] = @ \cup {Section(e)}] ELSE late
    /\ UNCHANGED <<rowVars, execVars, reports, requested>>

SaveReport == reports' = reports + 1

(* _persist_report_for_run: without an expected generation, which no       *)
(* caller passes, every execution saves its report; it never fails.        *)
PersistReport(e) ==
    /\ Op(e) = "persist"
    /\ \/ SaveReport /\ UNCHANGED accidents
       \/ Fault /\ UNCHANGED reports
    /\ Returns(e, "succeeded")
    /\ UNCHANGED <<rowVars, timeline, at, requested, late>>

Research(e) ==
    /\ pc[e] = "working"
    /\ \/ CheckCancelled(e) \/ PhaseRaises(e) \/ BeginEvent(e) \/ EndEvent(e)
       \/ PersistReport(e)
=============================================================================
