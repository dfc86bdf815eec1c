--------------------------- MODULE ResearchGraph ---------------------------
(***************************************************************************)
(* The research graph of one run: ResearchGraphRunner.run drives the nodes *)
(* of graph.py, saves a checkpoint after each, closes the evaluation       *)
(* store, saves the report and finishes the run.  A run can be resumed     *)
(* from its latest checkpoint, with the action of a human reviewer, at any *)
(* time: nothing keeps two invocations of one run apart.                   *)
(*                                                                         *)
(* What the nodes compute is abstracted to what routing and run-close use  *)
(* of it.  A failing node passes its state through the rest of the         *)
(* compiled graph, which is the same as leaving the loop of a resumed run. *)
(* The deletion of runtime documents, the dossier and the file latest.json *)
(* (which load ignores when the database has a checkpoint) are left out.   *)
(*                                                                         *)
(* A definition that stands just before another with the same parameters   *)
(* and is used nowhere is a faulty variant of it; PROJECT.json names the   *)
(* property it breaks.                                                     *)
(***************************************************************************)
EXTENDS Naturals, Sequences, FiniteSets

CONSTANTS
    Invocations,    \* concurrent calls of ResearchGraphRunner.run
    LoopCounts,     \* max_loop_count that requests may ask for
    Strategies,     \* "shadow" or "provider_backed"
    Actions,        \* human_review_action of resume requests
    GraphRounds,    \* whole rounds within the step limit of the compiled graph
    MaxResumes,     \* bound on resume requests
    MaxAccidents    \* bound on nodes that raise, invocations that die, checkpoints
                    \* that the database refuses, compactions, and resumes of a run
                    \* that is still being worked on

ASSUME GraphAssumption ==
    /\ IsFiniteSet(Invocations)
    /\ LoopCounts \subseteq Nat
    /\ Strategies # {} /\ Strategies \subseteq {"shadow", "provider_backed"}
    /\ Actions \subseteq {"approve", "add_evidence", "rewrite", "reject", "override_p0"}
    /\ {GraphRounds, MaxResumes, MaxAccidents} \subseteq Nat

VARIABLES
    run,        \* status of the run, and the report its output_json names
    reports,    \* number of rows of the report table for this run
    saved,      \* the state in the latest checkpoint
    snapshot,   \* what a compaction has found to be the latest
    pc,         \* where each invocation is
    state,      \* its ResearchGraphState
    outrun,     \* those whose next checkpoint version another has taken
    report,     \* the report_id each will write to the run
    compiled,   \* those that run in the compiled graph, not resumed ones
    abandoned,  \* history: the last invocation left without closing the run
    rounds,     \* history: evidence rounds of the invocation, up to one too many
    mishaps,    \* history: kinds of accident so far
    budget      \* what is left of the bounds

shared == <<run, reports, saved, snapshot>>
locals == <<pc, state, outrun, report, compiled>>
vars == <<shared, locals, abandoned, rounds, mishaps, budget>>

(* Each entry stands for the nodes of graph.py up to and including it:     *)
(* those between (collecting, parsing and scoring sources, the gap         *)
(* backfill, the shadow draft and editor2) leave these fields alone.       *)
Pipeline == <<"plan_task", "build_evidence", "editor1_draft", "chief_gate">>
Nodes == {Pipeline[k] : k \in 1..Len(Pipeline)} \cup {"human_review", "finalize_report"}

(* The fields of the state that control reads; "verdict" is a history      *)
(* field: who has cleared the present draft.  "tasks" are the statuses,    *)
(* among those of tasks still open, that occur in the evaluation store.    *)
GraphState ==
    [node : Nodes \cup {"none"}, error : BOOLEAN,
     decision : {"none", "PASS", "ADD_EVIDENCE", "REVISE_TEXT", "HUMAN_REVIEW", "FAILED"},
     loop : Nat, max : Nat, strategy : Strategies, covered : BOOLEAN,
     review : {"none", "pending"} \cup Actions, final : BOOLEAN,
     tasks : SUBSET {"planned", "suspended"},
     verdict : {"none", "gate", "human"}]

Blank(max, strategy) ==
    [node |-> "none", error |-> FALSE, decision |-> "none", loop |-> 0, max |-> max,
     strategy |-> strategy, covered |-> FALSE, review |-> "none", final |-> FALSE,
     tasks |-> {}, verdict |-> "none"]

Unused == Blank(0, CHOOSE s \in Strategies : TRUE)
NoCheckpoint == Unused

Init ==
    /\ run = [status |-> "none", report |-> 0]
    /\ reports = 0
    /\ saved = NoCheckpoint
    /\ snapshot = NoCheckpoint
    /\ pc = [i \in Invocations |-> "idle"]
    /\ state = [i \in Invocations |-> Unused]
    /\ outrun = {}
    /\ report = [i \in Invocations |-> 0]
    /\ compiled = {}
    /\ abandoned = FALSE
    /\ rounds = [i \in Invocations |-> 0]
    /\ mishaps = {}
    /\ budget = [resumes |-> MaxResumes, accidents |-> MaxAccidents]

Go(i, step) == pc' = [pc EXCEPT ![i] = step]
Spend(what) == budget[what] > 0 /\ budget' = [budget EXCEPT ![what] = @ - 1]
Mishap(kind) == mishaps' = mishaps \cup {kind}

-----------------------------------------------------------------------------
(* Routing.                                                                *)

ReviewedAnyhow(action) ==
    CASE action = "add_evidence" -> "plan_task"
      [] action = "rewrite" -> "editor1_draft"
      [] action = "pending" -> "end"
      [] OTHER -> "finalize_report"
(* A reviewer's override ends here too: only an approval leads to a report.*)
Reviewed(action) ==
    CASE action = "approve" -> "finalize_report"
      [] action = "add_evidence" -> "plan_task"
      [] action = "rewrite" -> "editor1_draft"
      [] OTHER -> "end"

Decided(decision) ==
    CASE decision = "ADD_EVIDENCE" -> "plan_task"
      [] decision = "REVISE_TEXT" -> "editor1_draft"
      [] decision = "HUMAN_REVIEW" -> "human_review"
      [] OTHER -> "finalize_report"

(* _next_node_after, and the edges of the compiled graph.                  *)
NextNode(st) ==
    CASE st.node = "none" -> "plan_task"
      [] st.node # "none" /\ st.error -> st.node
      [] st.node = "chief_gate" /\ ~st.error -> Decided(st.decision)
      [] st.node = "human_review" /\ ~st.error -> Reviewed(st.review)
      [] st.node = "finalize_report" /\ ~st.error -> "end"
      [] OTHER -> LET k == CHOOSE k \in 1..Len(Pipeline) : Pipeline[k] = st.node
                  IN Pipeline[k + 1]

-----------------------------------------------------------------------------
(* The nodes.                                                              *)

(* plan_task counts a round when the gate has left its coverage report and *)
(* the run is provider-backed.                                             *)
Plan(st) ==
    [st EXCEPT !.loop = IF st.strategy = "provider_backed" /\ st.covered THEN @ + 1 ELSE @,
               !.verdict = "none"]

(* build_evidence records the tasks of the plan and marks completed, by    *)
(* their round, those that ran: any of them, old ones too.                 *)
Evidence(st) ==
    IF st.strategy = "shadow" THEN {st}
    ELSE {[st EXCEPT !.tasks = tasks] :
              tasks \in SUBSET (st.tasks \cup {"planned"})}

ForgetsToCount(st, coverage, blocked) ==
    LET decision == IF blocked THEN "HUMAN_REVIEW"
                    ELSE IF coverage = "full" THEN "PASS"
                    ELSE IF st.loop < st.max THEN "ADD_EVIDENCE"
                    ELSE IF coverage = "half" THEN "PASS" ELSE "HUMAN_REVIEW"
    IN [st EXCEPT !.covered = TRUE, !.decision = decision,
                  !.verdict = IF decision = "PASS" THEN "gate" ELSE "none"]
(* A hard blocker goes to a reviewer; full coverage passes; partial        *)
(* coverage passes once the rounds are used up; low coverage never does.   *)
Gate(st, coverage, blocked) ==
    LET decision == IF blocked THEN "HUMAN_REVIEW"
                    ELSE IF coverage = "full" THEN "PASS"
                    ELSE IF st.loop < st.max THEN "ADD_EVIDENCE"
                    ELSE IF coverage = "half" THEN "PASS" ELSE "HUMAN_REVIEW"
    IN [st EXCEPT !.covered = TRUE, !.decision = decision,
                  !.loop = IF decision = "ADD_EVIDENCE" THEN @ + 1 ELSE @,
                  !.verdict = IF decision = "PASS" THEN "gate" ELSE "none"]

(* The states a node may return.                                           *)
Results(node, st) ==
    CASE node = "plan_task" -> {Plan(st)}
      [] node = "build_evidence" -> Evidence(st)
      [] node = "editor1_draft" -> {[st EXCEPT !.verdict = "none"]}
      [] node = "chief_gate" -> {Gate(st, coverage, blocked) :
                                   coverage \in {"full", "half", "low"}, blocked \in BOOLEAN}
      [] node = "human_review" -> {[st EXCEPT !.review = "pending",
                                              !.decision = "HUMAN_REVIEW"]}
      [] node = "finalize_report" -> {[st EXCEPT !.final = TRUE]}
      [] OTHER -> {st}

-----------------------------------------------------------------------------
(* The start of an invocation.                                             *)

Active == {i \in Invocations : pc[i] # "idle"}

(* A new run.                                                              *)
Start(i) ==
    /\ run.status = "none"
    /\ run' = [run EXCEPT !.status = "running"]
    /\ \E max \in LoopCounts, strategy \in Strategies :
          state' = [state EXCEPT ![i] = Blank(max, strategy)]
    /\ Go(i, "node")
    /\ compiled' = compiled \cup {i}
    /\ rounds' = [rounds EXCEPT ![i] = 0]
    /\ UNCHANGED <<reports, saved, snapshot, outrun, report, abandoned, mishaps, budget>>

RecordsTheAction(st, action) ==
    IF st.review # "pending" THEN st ELSE [st EXCEPT !.review = action, !.decision = action]
(* The action of a reviewer counts only while a review is pending.         *)
WithAction(st, action) ==
    IF st.review # "pending" THEN st
    ELSE [st EXCEPT !.review = action,
                    !.decision = CASE action \in {"approve", "override_p0"} -> "PASS"
                                   [] action = "add_evidence" -> "ADD_EVIDENCE"
                                   [] action = "rewrite" -> "REVISE_TEXT"
                                   [] OTHER -> "FAILED",
                    !.verdict = IF action \in {"approve", "override_p0"} THEN "human" ELSE @]

Reopened(st) ==
    [st EXCEPT !.tasks = IF @ = {} THEN {} ELSE {"planned"}]

(* A request to resume the run, with or without an action.                 *)
Resume(i) ==
    /\ pc[i] = "idle" /\ saved # NoCheckpoint
    /\ LET overlap == IF Active = {} THEN 0 ELSE 1
       IN /\ budget.resumes > 0 /\ budget.accidents >= overlap
          /\ budget' = [resumes |-> budget.resumes - 1,
                        accidents |-> budget.accidents - overlap]
          /\ IF overlap = 0 THEN UNCHANGED mishaps ELSE Mishap("overlap")
    /\ \E max \in LoopCounts, strategy \in Strategies, action \in Actions \cup {"none"} :
          LET loaded == [saved EXCEPT !.max = max, !.strategy = strategy]
              told == IF action = "none" THEN loaded ELSE WithAction(loaded, action)
          IN state' = [state EXCEPT ![i] = Reopened(told)]
    /\ Go(i, IF NextNode(state'[i]) = "end" THEN "closing" ELSE "node")
    /\ rounds' = [rounds EXCEPT ![i] = 0]
    /\ UNCHANGED <<shared, outrun, report, compiled, abandoned>>

-----------------------------------------------------------------------------
(* One node, and the checkpoint after it.                                  *)

(* A node that failed is tried again with its error and decision cleared.  *)
Retried(st) == IF st.error THEN [st EXCEPT !.error = FALSE, !.decision = "none"] ELSE st

(* The compiled graph counts its steps, and those of a round that is one   *)
(* too many end with build_evidence; a state that failed in that round     *)
(* does not get through the rest of it either.                             *)
Overrun(i) ==
    /\ i \in compiled /\ rounds[i] > GraphRounds
    /\ state[i].node = "build_evidence" \/ state[i].error

(* The handler of the next node; it ends with the first statement of the   *)
(* checkpoint's transaction, which reads the latest version.               *)
RunNode(i) ==
    /\ pc[i] = "node" /\ ~Overrun(i)
    /\ LET node == NextNode(state[i])
           before == Retried(state[i])
       IN /\ \/ /\ \E after \in Results(node, before) :
                      state' = [state EXCEPT ![i] = [after EXCEPT !.node = node]]
                /\ UNCHANGED budget
             \/ /\ Spend("accidents")
                /\ state' = [state EXCEPT ![i] =
                                [before EXCEPT !.node = node, !.error = TRUE,
                                               !.decision = "FAILED"]]
          /\ rounds' = IF node = "plan_task" 
                       THEN [rounds EXCEPT ![i] = IF @ > before.max + 1 THEN @ ELSE @ + 1]
                       ELSE rounds
    /\ outrun' = outrun \ {i}
    /\ Go(i, "saving")
    /\ UNCHANGED <<shared, report, compiled, abandoned, mishaps>>

(* The checkpoint is inserted, or lost: another invocation has taken its   *)
(* version, or the database refuses it.  Either way the run goes on.  (A   *)
(* compaction may have freed the version.)                                 *)
Save(i, next) ==
    /\ \/ /\ i \notin outrun \/ "compacted" \in mishaps
          /\ saved' = state[i]
          /\ outrun' = {j \in Invocations \ {i} : pc[j] \in {"saving", "savingLast"}}
          /\ UNCHANGED <<mishaps, budget>>
       \/ /\ IF i \in outrun THEN UNCHANGED budget ELSE Spend("accidents")
          /\ Mishap("lost")
          /\ UNCHANGED <<saved, outrun>>
    /\ Go(i, next)
    /\ UNCHANGED <<run, reports, snapshot, state, report, compiled, abandoned, rounds>>

SaveCheckpoint(i) ==
    /\ pc[i] = "saving"
    /\ Save(i, IF state[i].error \/ NextNode(state[i]) = "end" THEN "closing" ELSE "node")

-----------------------------------------------------------------------------
(* The end of an invocation.                                               *)

ClosesOnSuccess(st) == IF st.error \/ st.tasks = {} THEN st ELSE [st EXCEPT !.tasks = {}]
(* _finalize_evaluation: a pause suspends what is still planned, any other *)
(* end cancels it.                                                         *)
Closed(st) ==
    LET paused == st.review = "pending" /\ ~st.error
    IN [st EXCEPT !.tasks = IF paused /\ @ # {} THEN {"suspended"} ELSE @ \ {"planned"}]

Close(i) ==
    /\ pc[i] = "closing" /\ ~Overrun(i)
    /\ state' = [state EXCEPT ![i] = Closed(@)]
    /\ outrun' = outrun \ {i}
    /\ abandoned' = FALSE
    /\ Go(i, "savingLast")
    /\ UNCHANGED <<shared, report, compiled, rounds, mishaps, budget>>

SaveLast(i) == pc[i] = "savingLast" /\ Save(i, "reporting")

AlwaysNew == FALSE
HasReport == run.report # 0

(* _save_report_artifact: a successful end with a final report reuses the  *)
(* report that the run names, or saves one.                                *)
SaveReport(i) ==
    /\ pc[i] = "reporting"
    /\ \/ /\ state[i].error \/ ~state[i].final
          /\ report' = [report EXCEPT ![i] = 0]
          /\ UNCHANGED reports
       \/ /\ ~state[i].error /\ state[i].final
          /\ IF HasReport
             THEN report' = [report EXCEPT ![i] = run.report] /\ UNCHANGED reports
             ELSE /\ reports' = reports + 1
                  /\ report' = [report EXCEPT ![i] = reports']
    /\ Go(i, "finishing")
    /\ UNCHANGED <<run, saved, snapshot, state, outrun, compiled, abandoned, rounds,
                   mishaps, budget>>

(* The invocation is over and its local state dropped.                     *)
Leave(i) ==
    /\ Go(i, "idle")
    /\ state' = [state EXCEPT ![i] = Unused]
    /\ outrun' = outrun \ {i}
    /\ report' = [report EXCEPT ![i] = 0]
    /\ compiled' = compiled \ {i}
    /\ rounds' = [rounds EXCEPT ![i] = 0]

(* _finish_run.                                                            *)
Finish(i) ==
    /\ pc[i] = "finishing"
    /\ run' = [status |-> IF state[i].error THEN "failed" ELSE "succeeded",
               report |-> report[i]]
    /\ Leave(i)
    /\ UNCHANGED <<reports, saved, snapshot, abandoned, mishaps, budget>>

(* The step limit raises out of graph.invoke, and out of run: the store is *)
(* not closed, no report is saved and the run keeps its status.            *)
Escape(i) ==
    /\ pc[i] \in {"node", "closing"} /\ Overrun(i)
    /\ abandoned' = TRUE
    /\ Leave(i)
    /\ UNCHANGED <<shared, mishaps, budget>>

-----------------------------------------------------------------------------
(* The environment, and the compaction of checkpoints.                     *)

(* The process dies, or an exception of the database leaves run (that of   *)
(* the commit of a step, say): the run keeps its status.                   *)
Crash(i) ==
    /\ pc[i] # "idle"
    /\ Spend("accidents")
    /\ IF pc[i] = "finishing" THEN Mishap("unfinished") ELSE UNCHANGED mishaps
    /\ abandoned' = (abandoned \/ pc[i] \notin {"reporting", "finishing"})
    /\ Leave(i)
    /\ UNCHANGED shared

(* compact reads all checkpoints of the run and keeps the latest of them,  *)
CompactReads ==
    /\ saved # NoCheckpoint /\ snapshot = NoCheckpoint
    /\ Spend("accidents")
    /\ snapshot' = saved
    /\ UNCHANGED <<run, reports, saved, locals, abandoned, rounds, mishaps>>

(* and deletes every other, those saved in the meantime included.          *)
CompactDeletes ==
    /\ snapshot # NoCheckpoint
    /\ saved' = snapshot
    /\ snapshot' = NoCheckpoint
    /\ IF saved = snapshot THEN UNCHANGED mishaps ELSE Mishap("compacted")
    /\ UNCHANGED <<run, reports, locals, abandoned, rounds, budget>>

-----------------------------------------------------------------------------
Proceed(i) ==
    \/ RunNode(i)
    \/ SaveCheckpoint(i)
    \/ Close(i)
    \/ SaveLast(i)
    \/ SaveReport(i)
    \/ Finish(i)
    \/ Escape(i)

Next ==
    \/ \E i \in Invocations : Start(i) \/ Resume(i) \/ Proceed(i) \/ Crash(i)
    \/ CompactReads
    \/ CompactDeletes

Spec == Init /\ [][Next]_vars

-----------------------------------------------------------------------------
(* Properties.                                                             *)

(* Rows, local states and counters hold what the code can put there.       *)
TypeOK ==
    /\ run \in [status : {"none", "running", "succeeded", "failed"}, report : 0..reports]
    /\ reports \in Nat
    /\ {saved, snapshot} \subseteq GraphState
    /\ pc \in [Invocations -> {"idle", "node", "saving", "closing", "savingLast",
                               "reporting", "finishing"}]
    /\ state \in [Invocations -> GraphState]
    /\ outrun \subseteq Invocations
    /\ report \in [Invocations -> 0..reports]
    /\ compiled \subseteq Invocations
    /\ abandoned \in BOOLEAN
    /\ rounds \in [Invocations -> Nat]
    /\ mishaps \subseteq {"overlap", "lost", "compacted", "unfinished"}
    /\ budget \in [{"resumes", "accidents"} -> Nat]

(* max_loop_count bounds the evidence rounds of an invocation, although    *)
(* two nodes advance the counter, a checkpoint carries it over, and every  *)
(* resume brings a new bound and perhaps another strategy.                 *)
RoundsBounded == \A i \in Invocations : rounds[i] <= state[i].max + 1

Torn == {"overlap", "lost", "compacted"}

(* A report is saved only of a draft that the gate passed or a reviewer    *)
(* cleared since it was last planned or edited, even when invocations      *)
(* overlap and checkpoints are lost; and only these accidents, or a crash  *)
(* between the report and the end of the run, give one run two reports.    *)
ReportsAreEarned ==
    /\ [](reports > 1 => mishaps # {})
    /\ [][reports' > reports =>
             \E i \in Invocations : /\ pc[i] = "reporting" /\ pc'[i] = "finishing"
                                    /\ state[i].verdict # "none"]_vars

(* Whenever nobody is at work on the run any more, or its store has been   *)
(* closed, the latest checkpoint has no planned SearchTask, and suspended  *)
(* ones only while a review is pending: success, failure of a node, pause, *)
(* resume and refusal all close them.  Excused are checkpoints torn by an  *)
(* accident, and a run that was abandoned (the process died or the step    *)
(* limit struck) until some invocation closes it.                          *)
AtWork == {i \in Invocations : pc[i] \notin {"idle", "reporting", "finishing"}}
TasksAreClosed ==
    AtWork = {} /\ ~abandoned /\ mishaps \cap Torn = {} =>
        /\ "planned" \notin saved.tasks
        /\ "suspended" \in saved.tasks => saved.review = "pending"

(* The stage of a run, as its latest checkpoint tells it.  A report of a   *)
(* draft that nobody cleared is at no stage of the flow.                   *)
Stage(st) ==
    CASE st.node = "chief_gate" /\ st.decision = "PASS" -> "cleared"
      [] st.node = "chief_gate" /\ st.decision = "HUMAN_REVIEW" -> "review"
      [] st.node = "human_review" -> CASE st.review = "reject" -> "rejected"
                                       [] st.review = "override_p0" -> "cleared"
                                       [] OTHER -> "review"
      [] st.node = "finalize_report" -> CASE st.verdict = "none" -> "uncleared"
                                          [] st.verdict # "none" /\ st.error -> "cleared"
                                          [] OTHER -> "reported"
      [] OTHER -> "drafting"

(* As long as invocations do not overlap and checkpoints are not lost, the *)
(* chain of checkpoints follows the flow of the graph, through failures,   *)
(* crashes and resumes.                                                    *)
RF == INSTANCE ResearchFlow WITH stage <- Stage(saved)
FollowsResearchFlow ==
    RF!Init /\ [][mishaps' \cap Torn = {} => RF!Next]_RF!vars

=============================================================================
