------------------------- MODULE ResearchTaskProofs -------------------------
(***************************************************************************)
(* What ResearchTask guarantees for every number of executions and every   *)
(* number of failures and deaths.  The invariant has five parts that only  *)
(* share the types: the numbers of the timeline, what an agent does after  *)
(* a request to stop, the stages of an execution, its outcome, and what    *)
(* becomes of the submitted run.  The last parts of the module bound the   *)
(* steps an execution has left (StepsLeft) and say where the lock on the   *)
(* run is held (LockIsReleased).                                           *)
(***************************************************************************)
EXTENDS ResearchTask, FiniteSetTheorems, TLAPS

(* No writer holds a number beyond the next one; where rows are locked one *)
(* writer holds a number, and it is the next one.                          *)
Numbered ==
    /\ taken = 1..rows
    /\ \A w \in Writers : number[w] <= rows + 1
    /\ dialect = "postgresql" =>
          /\ ~refused
          /\ \A w \in Writers : number[w] # 0 =>
                /\ number[w] = rows + 1
                /\ \A v \in Writers : number[v] # 0 => v = w

(* An agent that has stored stages behind a request passes a check only if *)
(* the database fails it.                                                  *)
Heeding(e) ==
    /\ IsFiniteSet(late[e])
    /\ late[e] # {} => requested /\ Cardinality(late[e] \cup {Section(e)}) <= 1 + faults

Cancelling ==
    /\ requested \/ canceller = "requesting" => asked
    /\ \A e \in Executions : Heeding(e)

(* How far the handler of an execution is, by where the worker is.         *)
Staged(e) ==
    /\ pc[e] \in {"idle", "claimed", "starting"} => result[e] = "none" /\ own[e] = "none"
    /\ pc[e] = "working" => result[e] = "none" /\ own[e] \in {"none", "running"}
    /\ pc[e] = "publishing" => result[e] = "succeeded" /\ (request # "agent" => moved)
    /\ own[e] = "none" => steps[e] = <<>>
    /\ own[e] # "none" => request \notin {"agent", "invalid"}

Outcome(e) ==
    /\ StepsTellRun(e)
    /\ result[e] = "succeeded" =>
          /\ request # "agent" <=> own[e] = "succeeded"
          /\ request = "agent" => reports + faults > 0
    /\ result[e] = "failed" => own[e] = IF request = "invalid" THEN "none" ELSE "failed"

Told ==
    /\ run = "succeeded" => reports + faults > 0
    /\ \A e \in Executions : Staged(e) /\ Outcome(e)

(* The submitted run is closed before an execution ends, but for a task    *)
(* that has moved to the finished run of a workflow.                       *)
RunGetsClosed ==
    /\ moved => \E e \in Executions : own[e] = "succeeded"
    /\ \A e \in Executions :
          pc[e] \in {"announcing", "ended"} => run \notin Unfinished \/ moved

IInv == TypeOK /\ Numbered /\ Cancelling /\ Told /\ RunGetsClosed

-----------------------------------------------------------------------------
(* Facts about the constants of the model.                                 *)

(* The pipeline has thirteen operations, the last of which saves a report. *)
LEMMA PipelineEnds ==
    /\ Len(Pipeline) = 13
    /\ \A k \in 1..13 : Pipeline[k][2] # "persist" => k < 13
<1>1. Len(Pipeline) = 13
  BY DEF Pipeline
<1>2. Pipeline[13][2] = "persist"
  BY DEF Pipeline
<1> QED
  BY <1>1, <1>2

(* A request has seventeen stages at most.                                 *)
LEMMA PlanIsFinite == Len(StepPlan) \in Nat /\ Len(StepPlan) <= 17
<1>1. CASE request \in Acquisitions
  BY <1>1 DEF StepPlan, SourceSteps, PdfSteps, AgentSteps
<1>2. CASE request \notin Acquisitions
  BY <1>2 DEF StepPlan, SourceSteps, PdfSteps, AgentSteps
<1> QED
  BY <1>1, <1>2

(* The number of passed checks is a number.                                *)
LEMMA SectionIsNat ==
    ASSUME NEW e \in Executions, at[e] \in 1..Len(Pipeline)
    PROVE  Section(e) \in Nat
<1> DEFINE S == {k \in 1..(at[e] - 1) : Pipeline[k][2] = "check"}
<1>1. at[e] - 1 \in Int
  BY PipelineEnds
<1>2. IsFiniteSet(1..(at[e] - 1))
  BY <1>1, FS_Interval
<1>3. IsFiniteSet(S)
  BY <1>2, FS_Subset
<1> QED
  BY <1>3, FS_CardinalityType DEF Section

-----------------------------------------------------------------------------
(* The timeline.                                                           *)

Moves(w) == Allocate(w) \/ Insert(w) \/ Abandon(w)

(* Every step of the system is, for the timeline, a step of one writer.    *)
LEMMA TimelineMoves ==
    ASSUME [Next]_vars
    PROVE  /\ dialect' = dialect
           /\ UNCHANGED timeline \/ \E w \in Writers : Moves(w)
<1> USE DEF Moves, Writers
<1>1. ASSUME NEW e \in Executions, Process(e)
      PROVE  dialect' = dialect /\ (UNCHANGED timeline \/ \E w \in Writers : Moves(w))
  <2>1. CASE Claim(e) \/ MarkRunRunning(e) \/ MarkTaskSucceeded(e) \/ MarkRunSucceeded(e)
             \/ MarkRunFailed(e)
    BY <2>1 DEF Claim, MarkRunRunning, MarkTaskSucceeded, MarkRunSucceeded, MarkRunFailed,
                rowVars
  <2>2. CASE request = "agent" /\ Research(e)
    <3>1. CASE CheckCancelled(e) \/ PhaseRaises(e) \/ PersistReport(e)
      BY <3>1 DEF CheckCancelled, PhaseRaises, PersistReport, rowVars
    <3>2. CASE BeginEvent(e) \/ EndEvent(e)
      BY <3>2 DEF BeginEvent, EndEvent, Recorded, rowVars
    <3> QED
      BY <2>2, <3>1, <3>2 DEF Research
  <2>3. CASE request # "agent" /\ Analyze(e) /\ UNCHANGED <<timeline, agent, clients>>
    <3>1. UNCHANGED rowVars
      BY <2>3 DEF Analyze, RejectPayload, CreateRun, SkipStep, BeginStep, EndStep, StepRaises,
                  FailRun, WriteFails, SucceedRun
    <3> QED
      BY <2>3, <3>1 DEF rowVars
  <2>4. CASE Announce(e)
    BY <2>4 DEF Announce, Recorded
  <2>5. CASE Crash(e)
    BY <2>5 DEF Crash, rowVars
  <2> QED
    BY <1>1, <2>1, <2>2, <2>3, <2>4, <2>5 DEF Process, Execute
<1>2. CASE Create
  BY <1>2 DEF Create, Recorded, rowVars
<1>3. CASE Cancel
  BY <1>3 DEF Cancel, AskToStop, SeesQueued, CancelRecords, CancelQueued, Recorded, rowVars
<1>4. CASE UNCHANGED vars
  BY <1>4 DEF vars, rowVars
<1> QED
  BY <1>1, <1>2, <1>3, <1>4 DEF Next

(* The latest number is the number of rows.                                *)
LEMMA LatestIsLast ==
    ASSUME rows \in Nat, taken = 1..rows
    PROVE  Latest = rows
<1>1. CASE rows = 0
  BY <1>1 DEF Latest
<1>2. CASE rows # 0
  <2>1. rows \in taken /\ \A m \in taken : m <= rows
    BY <1>2
  <2>2. \A n \in taken : (\A m \in taken : m <= n) => n = rows
    BY <2>1
  <2> QED
    BY <1>2, <2>1, <2>2 DEF Latest
<1> QED
  BY <1>1, <1>2

(* No writer disturbs the numbers of the timeline.                         *)
LEMMA NumberedIsInductive ==
    ASSUME TimelineTypeOK, Numbered, [Next]_vars
    PROVE  TimelineTypeOK' /\ Numbered'
<1>1. dialect' = dialect
  BY TimelineMoves
<1>2. CASE UNCHANGED timeline
  BY <1>1, <1>2 DEF timeline, TimelineTypeOK, Numbered
<1>3. ASSUME NEW w \in Writers, Allocate(w)
      PROVE  TimelineTypeOK' /\ Numbered'
  <2>1. Latest = rows
    BY LatestIsLast DEF TimelineTypeOK, Numbered
  <2>2. number' = [number EXCEPT ![w] = rows + 1]
    BY <1>3, <2>1 DEF Allocate
  <2> QED
    BY <1>1, <1>3, <2>2 DEF Allocate, Unlocked, TimelineTypeOK, Numbered
<1>4. ASSUME NEW w \in Writers, Insert(w)
      PROVE  TimelineTypeOK' /\ Numbered'
  <2>1. CASE number[w] \in taken
    <3>1. number[w] # rows + 1
      BY <2>1 DEF TimelineTypeOK, Numbered
    <3>2. dialect # "postgresql"
      BY <1>4, <3>1 DEF Insert, Numbered
    <3>3. UNCHANGED <<taken, rows>> /\ refused' = TRUE
          /\ number' = [number EXCEPT ![w] = 0]
      BY <1>4, <2>1 DEF Insert, Admits
    <3> QED
      BY <1>1, <3>2, <3>3 DEF TimelineTypeOK, Numbered
  <2>2. CASE number[w] \notin taken
    <3>1. number[w] = rows + 1
      BY <1>4, <2>2 DEF Insert, TimelineTypeOK, Numbered
    <3>2. taken' = 1..(rows + 1) /\ rows' = rows + 1
      <4>1. taken' = taken \cup {rows + 1} /\ rows' = rows + 1
        BY <1>4, <2>2, <3>1 DEF Insert, Admits
      <4>2. taken = 1..rows /\ rows \in Nat
        BY DEF TimelineTypeOK, Numbered
      <4>3. (1..rows) \cup {rows + 1} = 1..(rows + 1)
        BY <4>2
      <4> QED
        BY <4>1, <4>2, <4>3
    <3> QED
      BY <1>1, <1>4, <2>2, <3>2 DEF Insert, Admits, TimelineTypeOK, Numbered
  <2> QED
    BY <2>1, <2>2
<1>5. ASSUME NEW w \in Writers, Abandon(w)
      PROVE  TimelineTypeOK' /\ Numbered'
  BY <1>1, <1>5 DEF Abandon, TimelineTypeOK, Numbered
<1> QED
  BY <1>2, <1>3, <1>4, <1>5, TimelineMoves DEF Moves

-----------------------------------------------------------------------------
(* Types.                                                                  *)

ClientsTypeOK ==
    /\ creator \in {"due", "recording", "done"}
    /\ canceller \in {"idle", "requesting", "queuedSeen", "cancelling", "closing", "done"}

(* The row of the run and the places of the executions keep their types.   *)
LEMMA RowIsTyped ==
    ASSUME TypeOK, [Next]_vars
    PROVE  RowTypeOK'
<1> USE DEF TypeOK, RowTypeOK, RunStatus, Unfinished, Goes, Fault, Returns
<1>1. ASSUME NEW e \in Executions, Process(e)
      PROVE  RowTypeOK'
  <2>1. CASE Claim(e)
    BY <2>1 DEF Claim, rowVars, accidents
  <2>2. CASE MarkRunRunning(e)
    BY <2>2 DEF MarkRunRunning, CasOfTask, Cas, accidents
  <2>3. CASE request = "agent" /\ Research(e)
    <3>1. CASE CheckCancelled(e)
      BY <3>1 DEF CheckCancelled, Raises, rowVars, execVars, accidents
    <3>2. CASE PhaseRaises(e)
      BY <3>2 DEF PhaseRaises, Raises, rowVars, accidents
    <3>3. CASE BeginEvent(e)
      BY <3>3 DEF BeginEvent, rowVars, execVars, accidents
    <3>4. CASE EndEvent(e)
      BY <3>4 DEF EndEvent, Recorded, rowVars, execVars, accidents
    <3>5. CASE PersistReport(e)
      BY <3>5 DEF PersistReport, rowVars, accidents
    <3> QED
      BY <2>3, <3>1, <3>2, <3>3, <3>4, <3>5 DEF Research
  <2>4. CASE request # "agent" /\ Analyze(e)
    <3>1. CASE CreateRun(e) \/ WriteFails(e)
      BY <3>1 DEF CreateRun, WriteFails, rowVars, execVars, accidents
    <3>2. CASE SkipStep(e) \/ BeginStep(e) \/ EndStep(e) \/ StepRaises(e)
      BY <3>2 DEF SkipStep, BeginStep, EndStep, StepRaises, rowVars, execVars, accidents
    <3>3. CASE FailRun(e) \/ SucceedRun(e)
      BY <3>3 DEF FailRun, SucceedRun, rowVars, accidents
    <3>4. CASE RejectPayload(e)
      BY <3>4 DEF RejectPayload, rowVars, accidents
    <3> QED
      BY <2>4, <3>1, <3>2, <3>3, <3>4 DEF Analyze
  <2>5. CASE MarkTaskSucceeded(e)
    <3>1. moved' \in BOOLEAN /\ fulfilled' \in BOOLEAN
      BY <2>5 DEF MarkTaskSucceeded
    <3>2. pc' = [pc EXCEPT ![e] = "publishing"] \/ pc' = [pc EXCEPT ![e] = "closing"]
      BY <2>5 DEF MarkTaskSucceeded
    <3>3. result' = result \/ result' = [result EXCEPT ![e] = "retry"]
      BY <2>5 DEF MarkTaskSucceeded
    <3>4. UNCHANGED accidents \/ Fault
      BY <2>5 DEF MarkTaskSucceeded
    <3>5. UNCHANGED <<dialect, run, asked>>
      BY <2>5 DEF MarkTaskSucceeded
    <3> QED
      BY <3>1, <3>2, <3>3, <3>4, <3>5 DEF accidents
  <2>6. CASE MarkRunSucceeded(e)
    BY <2>6 DEF MarkRunSucceeded, CasOfTask, Cas, accidents
  <2>7. CASE MarkRunFailed(e)
    BY <2>7 DEF MarkRunFailed, CasOfTask, Cas, accidents
  <2>8. CASE Announce(e)
    <3>1. fulfilled' \in BOOLEAN
      BY <2>8 DEF Announce, GoesOn
    <3>2. UNCHANGED pc \/ \E stage \in {"working", "ended"} : pc' = [pc EXCEPT ![e] = stage]
      BY <2>8 DEF Announce, GoesOn
    <3>3. UNCHANGED accidents \/ Fault
      BY <2>8 DEF Announce, Recorded
    <3>4. UNCHANGED <<dialect, run, asked, moved, result>>
      BY <2>8 DEF Announce
    <3> QED
      BY <3>1, <3>2, <3>3, <3>4 DEF accidents
  <2>9. CASE Crash(e)
    BY <2>9 DEF Crash, rowVars
  <2> QED
    BY <1>1, <2>1, <2>2, <2>3, <2>4, <2>5, <2>6, <2>7, <2>8, <2>9 DEF Process, Execute
<1>2. CASE Create
  BY <1>2 DEF Create, Recorded, rowVars, execVars, accidents
<1>3. CASE Cancel
  <2>1. CASE AskToStop
    BY <2>1 DEF AskToStop, execVars, accidents
  <2>2. CASE SeesQueued
    BY <2>2 DEF SeesQueued, rowVars, execVars, accidents
  <2>3. CASE CancelRecords
    BY <2>3 DEF CancelRecords, Recorded, rowVars, execVars, accidents
  <2>4. CASE CancelQueued
    BY <2>4 DEF CancelQueued, Cas, execVars, accidents
  <2> QED
    BY <1>3, <2>1, <2>2, <2>3, <2>4 DEF Cancel
<1>4. CASE UNCHANGED vars
  BY <1>4 DEF vars, rowVars, execVars, accidents
<1> QED
  BY <1>1, <1>2, <1>3, <1>4 DEF Next

(* For the agents a step is one of theirs, or of the request to stop.      *)
LEMMA AgentMoves ==
    ASSUME [Next]_vars, TypeOK
    PROVE  \/ UNCHANGED agent /\ (asked => asked')
           \/ \E e \in Executions :
                 \/ CheckCancelled(e)
                 \/ EndEvent(e)
                 \/ PersistReport(e)
           \/ CancelRecords
<1>1. ASSUME NEW e \in Executions, Process(e)
      PROVE  \/ UNCHANGED agent /\ (asked => asked')
             \/ CheckCancelled(e)
             \/ EndEvent(e)
             \/ PersistReport(e)
  <2>1. CASE request = "agent" /\ Research(e)
    BY <2>1 DEF Research, PhaseRaises, Raises, BeginEvent, agent, rowVars
  <2>2. CASE request # "agent" /\ Analyze(e) /\ UNCHANGED <<timeline, agent, clients>>
    BY <2>2 DEF Analyze, RejectPayload, CreateRun, SkipStep, BeginStep, EndStep, StepRaises,
                FailRun, WriteFails, SucceedRun, rowVars
  <2>3. CASE ~Execute(e)
    BY <1>1, <2>3 DEF Process, Claim, MarkRunRunning, MarkTaskSucceeded, MarkRunSucceeded,
                      MarkRunFailed, Announce, Crash, agent, rowVars
  <2> QED
    BY <2>1, <2>2, <2>3 DEF Execute
<1>2. CASE Create
  BY <1>2 DEF Create, agent, rowVars
<1>3. CASE Cancel
  BY <1>3 DEF Cancel, AskToStop, SeesQueued, CancelQueued, agent, rowVars
<1>4. CASE UNCHANGED vars
  BY <1>4 DEF vars, agent, rowVars
<1> QED
  BY <1>1, <1>2, <1>3, <1>4 DEF Next

(* An agent stays in its pipeline.                                         *)
LEMMA AgentIsTyped ==
    ASSUME TypeOK, [Next]_vars
    PROVE  AgentTypeOK'
<1> USE DEF TypeOK, AgentTypeOK
<1>1. CASE UNCHANGED agent
  BY <1>1 DEF agent
<1>2. ASSUME NEW e \in Executions, CheckCancelled(e) \/ EndEvent(e)
      PROVE  AgentTypeOK'
  <2>1. Op(e) # "persist" => at[e] + 1 \in 1..Len(Pipeline)
    BY PipelineEnds DEF Op
  <2>2. Section(e) \in Nat
    BY SectionIsNat
  <2>3. UNCHANGED at \/ (at' = [at EXCEPT ![e] = @ + 1] /\ Op(e) # "persist")
    BY <1>2 DEF CheckCancelled, EndEvent, Raises, Advance, Emits
  <2>4. UNCHANGED late \/ late' = [late EXCEPT ![e] = @ \cup {Section(e)}]
    BY <1>2 DEF CheckCancelled, EndEvent
  <2>5. UNCHANGED <<reports, requested>>
    BY <1>2 DEF CheckCancelled, EndEvent
  <2> QED
    BY <2>1, <2>2, <2>3, <2>4, <2>5
<1>3. ASSUME NEW e \in Executions, PersistReport(e)
      PROVE  AgentTypeOK'
  BY <1>3 DEF PersistReport, SaveReport
<1>4. CASE CancelRecords
  BY <1>4 DEF CancelRecords
<1> QED
  BY <1>1, <1>2, <1>3, <1>4, AgentMoves

(* Requests stay where they can be.                                        *)
LEMMA ClientsAreTyped ==
    ASSUME TypeOK, [Next]_vars
    PROVE  ClientsTypeOK'
<1> USE DEF TypeOK, ClientsTypeOK, clients
<1>1. ASSUME NEW e \in Executions, Process(e)
      PROVE  UNCHANGED clients
  BY <1>1 DEF Process, Claim, MarkRunRunning, Execute, MarkTaskSucceeded, MarkRunSucceeded,
              MarkRunFailed, Announce, Crash
<1>2. CASE Create
  BY <1>2 DEF Create
<1>3. CASE Cancel
  BY <1>3 DEF Cancel, AskToStop, SeesQueued, CancelRecords, CancelQueued
<1>4. CASE UNCHANGED vars
  BY <1>4 DEF vars
<1> QED
  BY <1>1, <1>2, <1>3, <1>4 DEF Next

(* For the workflow a step is one of an execution at work.                 *)
LEMMA WorkflowMoves ==
    ASSUME [Next]_vars
    PROVE  UNCHANGED workflow \/ \E e \in Executions : request # "agent" /\ Analyze(e)
<1>1. ASSUME NEW e \in Executions, Process(e)
      PROVE  UNCHANGED workflow \/ (request # "agent" /\ Analyze(e))
  BY <1>1 DEF Process, Claim, MarkRunRunning, Execute, MarkTaskSucceeded, MarkRunSucceeded,
              MarkRunFailed, Announce, Crash
<1>2. CASE Create \/ Cancel
  BY <1>2 DEF Create, Cancel, AskToStop, SeesQueued, CancelRecords, CancelQueued
<1>3. CASE UNCHANGED vars
  BY <1>3 DEF vars
<1> QED
  BY <1>1, <1>2, <1>3 DEF Next

(* The outcome of a stage is written into its row.                         *)
LEMMA OutcomeReplaces ==
    ASSUME NEW S, NEW s \in Seq(S), s # <<>>, NEW x \in S
    PROVE  LET t == [s EXCEPT ![Len(s)] = x]
           IN  /\ t \in Seq(S) /\ Len(t) = Len(s) /\ t[Len(t)] = x
               /\ \A k \in 1..Len(t) : k # Len(t) => t[k] = s[k]
  OBVIOUS

(* A workflow never has more steps than stages.                            *)
LEMMA WorkflowIsTyped ==
    ASSUME TypeOK, [Next]_vars
    PROVE  WorkflowTypeOK'
<1> USE DEF TypeOK, WorkflowTypeOK
<1>1. CASE UNCHANGED workflow
  BY <1>1 DEF workflow, StepPlan
<1>2. ASSUME NEW e \in Executions, Analyze(e)
      PROVE  WorkflowTypeOK'
  <2>1. request' = request /\ StepPlan' = StepPlan
    BY <1>2 DEF Analyze, RejectPayload, CreateRun, SkipStep, BeginStep, EndStep, StepRaises,
                FailRun, WriteFails, SucceedRun, StepPlan
  <2>2. CASE RejectPayload(e) \/ CreateRun(e) \/ FailRun(e) \/ WriteFails(e) \/ SucceedRun(e)
    BY <2>1, <2>2 DEF RejectPayload, CreateRun, FailRun, WriteFails, SucceedRun, OwnRun
  <2>3. CASE SkipStep(e) \/ BeginStep(e)
    <3>1. PICK status \in StepStatus : Adds(e, status)
      BY <2>3 DEF SkipStep, BeginStep, StepStatus
    <3>2. Len(steps[e]) + 1 <= Len(StepPlan)
      BY <2>3, PlanIsFinite DEF SkipStep, BeginStep, Finished
    <3>3. Append(steps[e], status) \in Seq(StepStatus)
          /\ Len(Append(steps[e], status)) = Len(steps[e]) + 1
      OBVIOUS
    <3>4. UNCHANGED <<own, bundle>>
      BY <2>3 DEF SkipStep, BeginStep
    <3> QED
      BY <2>1, <3>1, <3>2, <3>3, <3>4 DEF Adds
  <2>4. CASE EndStep(e) \/ StepRaises(e)
    <3>1. PICK status \in StepStatus : Ends(e, status)
      BY <2>4 DEF EndStep, StepRaises, StepStatus
    <3>2. steps[e] # <<>>
      BY <2>4 DEF EndStep, StepRaises, InStep
    <3>3. [steps[e] EXCEPT ![Len(steps[e])] = status] \in Seq(StepStatus)
          /\ Len([steps[e] EXCEPT ![Len(steps[e])] = status]) = Len(steps[e])
      BY <3>2, OutcomeReplaces
    <3>4. steps' \in [Executions -> Seq(StepStatus)]
          /\ \A d \in Executions : Len(steps'[d]) <= Len(StepPlan)
      BY <3>1, <3>3 DEF Ends
    <3>5. own' = own /\ bundle' \in [Executions -> {"unknown", "empty", "full"}]
      BY <2>4 DEF EndStep, StepRaises
    <3> QED
      BY <2>1, <3>4, <3>5
  <2> QED
    BY <1>2, <2>2, <2>3, <2>4 DEF Analyze
<1> QED
  BY <1>1, <1>2, WorkflowMoves

(* Every step keeps every type.                                            *)
LEMMA TypesAreInductive ==
    ASSUME TypeOK, Numbered, [Next]_vars
    PROVE  TypeOK'
  BY RowIsTyped, AgentIsTyped, WorkflowIsTyped, ClientsAreTyped, NumberedIsInductive
     DEF TypeOK, ClientsTypeOK

-----------------------------------------------------------------------------
(* Cancellation.                                                           *)

(* Every failure of the database is counted, and they are never uncounted. *)
LEMMA FaultsGrow ==
    ASSUME TypeOK, [Next]_vars
    PROVE  faults \in Nat /\ faults' \in Nat /\ faults <= faults'
<1> USE DEF TypeOK, RowTypeOK
<1>1. faults \in Nat
  BY RunRowAssumption
<1>2. faults' = faults \/ faults' = faults + 1
  <2>1. ASSUME NEW e \in Executions, Process(e)
        PROVE  faults' = faults \/ faults' = faults + 1
    <3>1. CASE request = "agent" /\ Research(e)
      BY <3>1 DEF Research, CheckCancelled, PhaseRaises, BeginEvent, EndEvent, PersistReport,
                  Recorded, Fault, accidents
    <3>2. CASE request # "agent" /\ Analyze(e)
      BY <3>2 DEF Analyze, RejectPayload, CreateRun, SkipStep, BeginStep, EndStep, StepRaises,
                  FailRun, WriteFails, SucceedRun, Fault, accidents
    <3>3. CASE ~Execute(e)
      BY <2>1, <3>3 DEF Process, Claim, MarkRunRunning, MarkTaskSucceeded, MarkRunSucceeded,
                        MarkRunFailed, Announce, Crash, Recorded, Fault, accidents
    <3> QED
      BY <3>1, <3>2, <3>3 DEF Execute
  <2>2. CASE Create \/ Cancel
    BY <2>2 DEF Create, Cancel, AskToStop, SeesQueued, CancelRecords, CancelQueued, Recorded,
                Fault, accidents
  <2>3. CASE UNCHANGED vars
    BY <2>3 DEF vars, accidents
  <2> QED
    BY <2>1, <2>2, <2>3 DEF Next
<1> QED
  BY <1>1, <1>2

(* The row asks before the timeline tells, and neither takes it back.      *)
LEMMA AskedFirst ==
    ASSUME TypeOK, Cancelling, [Next]_vars
    PROVE  (requested \/ canceller = "requesting" => asked)'
<1> DEFINE First == requested \/ canceller = "requesting" => asked
<1>1. First
  BY DEF Cancelling
<1>2. CASE Cancel
  BY <1>1, <1>2 DEF Cancel, AskToStop, SeesQueued, CancelRecords, CancelQueued, agent, rowVars
<1>3. CASE ~Cancel
  <2>1. UNCHANGED canceller
    BY <1>3 DEF Next, Create, Process, Claim, MarkRunRunning, Execute, MarkTaskSucceeded,
                MarkRunSucceeded, MarkRunFailed, Announce, Crash, clients, vars
  <2>2. requested' = requested
    BY <1>3, AgentMoves DEF Cancel, CheckCancelled, EndEvent, PersistReport, agent
  <2>3. asked => asked'
    BY <1>3, AgentMoves DEF Cancel, CheckCancelled, EndEvent, PersistReport, rowVars
  <2> QED
    BY <1>1, <2>1, <2>2, <2>3
<1> QED
  BY <1>2, <1>3

(* Exchanging one more element changes the size of a set by one at most.   *)
LEMMA OneMore ==
    ASSUME NEW S, IsFiniteSet(S), NEW x, NEW y
    PROVE  /\ Cardinality(S \cup {x}) \in Nat
           /\ Cardinality(S \cup {y}) <= Cardinality(S \cup {x}) + 1
<1>1. Cardinality(S) \in Nat
  BY FS_CardinalityType
<1>2. /\ IsFiniteSet(S \cup {x})
      /\ Cardinality(S \cup {x}) = IF x \in S THEN Cardinality(S) ELSE Cardinality(S) + 1
  BY FS_AddElement
<1>3. Cardinality(S \cup {y}) = IF y \in S THEN Cardinality(S) ELSE Cardinality(S) + 1
  BY FS_AddElement
<1> QED
  BY <1>1, <1>2, <1>3

(* An execution that neither advances nor stores an event stays as it was. *)
LEMMA HeedingStays ==
    ASSUME NEW e \in Executions, Heeding(e), UNCHANGED <<late[e], at[e]>>,
           requested => requested', faults \in Nat, faults' \in Nat, faults <= faults'
    PROVE  Heeding(e)'
<1>1. Section(e)' = Section(e)
  BY DEF Section
<1>2. IsFiniteSet(late[e] \cup {Section(e)}) /\ Cardinality(late[e] \cup {Section(e)}) \in Nat
  BY FS_AddElement, FS_CardinalityType DEF Heeding
<1> QED
  BY <1>1, <1>2 DEF Heeding

(* Every step keeps what holds of agents behind a request to stop.         *)
LEMMA CancellingIsInductive ==
    ASSUME TypeOK, Cancelling, [Next]_vars
    PROVE  Cancelling'
<1>1. faults \in Nat /\ faults' \in Nat /\ faults <= faults'
  BY FaultsGrow
<1>2. SUFFICES ASSUME NEW d \in Executions PROVE Heeding(d)'
  BY AskedFirst DEF Cancelling
<1>3. Heeding(d) /\ IsFiniteSet(late[d]) /\ (requested => asked)
  BY DEF Cancelling, Heeding
<1>4. at \in [Executions -> 1..Len(Pipeline)] /\ late \in [Executions -> SUBSET Nat]
  BY DEF TypeOK, AgentTypeOK
<1>5. CASE UNCHANGED agent
  BY <1>1, <1>3, <1>5, HeedingStays DEF agent
<1>6. CASE CancelRecords
  <2>1. UNCHANGED <<at, late>>
    BY <1>6 DEF CancelRecords
  <2>2. requested => requested'
    BY <1>6, Zenon DEF CancelRecords
  <2> QED
    BY <1>1, <1>3, <2>1, <2>2, HeedingStays
<1>7. ASSUME NEW e \in Executions, CheckCancelled(e) \/ EndEvent(e) \/ PersistReport(e), d # e
      PROVE  Heeding(d)'
  <2>1. requested' = requested
    BY <1>7 DEF CheckCancelled, EndEvent, PersistReport
  <2>2. at' = at \/ at' = [at EXCEPT ![e] = @ + 1]
    BY <1>7 DEF CheckCancelled, EndEvent, PersistReport, Raises, Advance
  <2>3. late' = late \/ late' = [late EXCEPT ![e] = @ \cup {Section(e)}]
    BY <1>7 DEF CheckCancelled, EndEvent, PersistReport
  <2> QED
    BY <1>1, <1>3, <1>4, <1>7, <2>1, <2>2, <2>3, HeedingStays
<1>8. CASE PersistReport(d)
  BY <1>1, <1>3, <1>8, HeedingStays DEF PersistReport
<1>9. CASE CheckCancelled(d)
  <2>1. UNCHANGED <<late, requested>>
    BY <1>9 DEF CheckCancelled
  <2>2. CASE late[d] = {}
    BY <1>3, <2>1, <2>2 DEF Heeding
  <2>3. CASE late[d] # {} /\ at' = at
    BY <1>1, <1>3, <2>1, <2>3, HeedingStays
  <2>4. CASE late[d] # {} /\ at' # at
    <3>1. asked
      BY <1>3, <2>4 DEF Heeding
    <3>2. faults' = faults + 1
      BY <1>9, <2>4, <3>1 DEF CheckCancelled, Heeds, Raises, Fault
    <3>3. \A x, y : /\ Cardinality(late[d] \cup {x}) \in Nat
                    /\ Cardinality(late[d] \cup {y}) <= Cardinality(late[d] \cup {x}) + 1
      BY <1>3, OneMore
    <3>4. requested /\ Cardinality(late[d] \cup {Section(d)}) <= 1 + faults
      BY <1>3, <2>4 DEF Heeding
    <3>5. Cardinality(late[d] \cup {Section(d)'}) <= 1 + faults'
      <4>1. /\ Cardinality(late[d] \cup {Section(d)}) \in Nat
            /\ Cardinality(late[d] \cup {Section(d)'}) \in Nat
            /\ Cardinality(late[d] \cup {Section(d)'})
               <= Cardinality(late[d] \cup {Section(d)}) + 1
        BY <3>3
      <4> QED
        BY <1>1, <3>2, <3>4, <4>1
    <3> QED
      BY <1>3, <2>1, <3>4, <3>5 DEF Heeding
  <2> QED
    BY <2>2, <2>3, <2>4
<1>10. CASE EndEvent(d)
  <2>1. at' = [at EXCEPT ![d] = @ + 1] /\ Op(d) # "check" /\ requested' = requested
    BY <1>10 DEF EndEvent, Advance, Emits
  <2>2. Section(d)' = Section(d)
    <3>1. at[d] \in 1..13 /\ at'[d] = at[d] + 1
      BY <1>4, <2>1, PipelineEnds
    <3>2. {k \in 1..(at'[d] - 1) : Pipeline[k][2] = "check"}
          = {k \in 1..(at[d] - 1) : Pipeline[k][2] = "check"}
      BY <2>1, <3>1 DEF Op
    <3> QED
      BY <3>2 DEF Section
  <2>3. late'[d] = late[d] \/ (requested /\ late'[d] = late[d] \cup {Section(d)})
    BY <1>4, <1>10 DEF EndEvent
  <2>4. IsFiniteSet(late'[d])
    BY <1>3, <2>3, FS_AddElement
  <2>5. CASE late[d] = {} /\ late'[d] # {}
    <3>1. late'[d] \cup {Section(d)'} = {Section(d)}
      BY <2>2, <2>3, <2>5
    <3>2. Cardinality({Section(d)}) = 1
      BY FS_Singleton
    <3>3. Cardinality(late'[d] \cup {Section(d)'}) <= 1 + faults'
      BY <1>1, <3>1, <3>2
    <3>4. requested'
      BY <2>1, <2>3, <2>5
    <3> QED
      BY <2>4, <3>3, <3>4 DEF Heeding
  <2>6. CASE late[d] = {} /\ late'[d] = {}
    BY <2>4, <2>6 DEF Heeding
  <2>7. CASE late[d] # {}
    <3>1. late'[d] \cup {Section(d)'} = late[d] \cup {Section(d)}
      BY <2>2, <2>3
    <3>2. Cardinality(late[d] \cup {Section(d)}) \in Nat
      BY <1>3, FS_AddElement, FS_CardinalityType
    <3> QED
      BY <1>1, <1>3, <2>1, <2>4, <2>7, <3>1, <3>2 DEF Heeding
  <2> QED
    BY <2>5, <2>6, <2>7
<1> QED
  BY <1>5, <1>6, <1>7, <1>8, <1>9, <1>10, AgentMoves

-----------------------------------------------------------------------------
(* Outcomes.                                                               *)

(* Reports are never taken back, deaths never uncounted.                   *)
LEMMA CountersGrow ==
    ASSUME TypeOK, [Next]_vars
    PROVE  /\ reports \in Nat /\ reports' \in Nat /\ reports <= reports'
           /\ crashes \in Nat /\ crashes' \in Nat /\ crashes <= crashes'
<1>1. reports \in Nat /\ crashes \in Nat
  BY RunRowAssumption DEF TypeOK, AgentTypeOK, RowTypeOK
<1>2. reports' = reports \/ reports' = reports + 1
  BY AgentMoves DEF CheckCancelled, EndEvent, PersistReport, SaveReport, CancelRecords, agent
<1>3. crashes' = crashes \/ crashes' = crashes + 1
  <2>1. ASSUME NEW e \in Executions, Process(e)
        PROVE  crashes' = crashes \/ crashes' = crashes + 1
    <3>1. CASE request = "agent" /\ Research(e)
      BY <3>1 DEF Research, CheckCancelled, PhaseRaises, BeginEvent, EndEvent, PersistReport,
                  Recorded, Fault, accidents
    <3>2. CASE request # "agent" /\ Analyze(e)
      BY <3>2 DEF Analyze, RejectPayload, CreateRun, SkipStep, BeginStep, EndStep, StepRaises,
                  FailRun, WriteFails, SucceedRun, Fault, accidents
    <3>3. CASE ~Execute(e)
      BY <2>1, <3>3 DEF Process, Claim, MarkRunRunning, MarkTaskSucceeded, MarkRunSucceeded,
                        MarkRunFailed, Announce, Crash, Recorded, Fault, accidents
    <3> QED
      BY <3>1, <3>2, <3>3 DEF Execute
  <2>2. CASE Create \/ Cancel
    BY <2>2 DEF Create, Cancel, AskToStop, SeesQueued, CancelRecords, CancelQueued, Recorded,
                Fault, accidents
  <2>3. CASE UNCHANGED vars
    BY <2>3 DEF vars, accidents
  <2> QED
    BY <2>1, <2>2, <2>3 DEF Next
<1> QED
  BY <1>1, <1>2, <1>3

(* A sum stays positive when its terms grow.                               *)
LEMMA SumsGrow ==
    \A a, b, c, d \in Nat :
        a <= c /\ b <= d /\ (a + b > 0 \/ c = a + 1 \/ d = b + 1) => c + d > 0
  OBVIOUS

(* What the rows of a workflow say stays true while nobody writes them,    *)
(* unless the execution leaves a running workflow without an accident.     *)
LEMMA StepsStay ==
    ASSUME NEW e \in Executions, StepsTellRun(e), UNCHANGED <<request, own[e], steps[e]>>,
           faults \in Nat, faults' \in Nat, faults <= faults',
           own[e] = "running" /\ pc'[e] # "working" => faults' + crashes' > 0
    PROVE  StepsTellRun(e)'
<1>1. StepPlan' = StepPlan
  BY DEF StepPlan
<1>2. Finished(e)' = Finished(e) /\ InStep(e)' = InStep(e)
  BY <1>1 DEF Finished, InStep
<1>3. own[e]' = "failed" /\ faults' = 0 => own[e] = "failed" /\ faults = 0
  OBVIOUS
<1> QED
  BY <1>2, <1>3 DEF StepsTellRun

(* An execution that does not move keeps its stage and its outcome.        *)
LEMMA OutcomeStays ==
    ASSUME TypeOK, [Next]_vars, NEW e \in Executions, Staged(e), Outcome(e),
           UNCHANGED <<request, pc[e], result[e], own[e], steps[e]>>, moved => moved'
    PROVE  Staged(e)' /\ Outcome(e)'
<1>1. faults \in Nat /\ faults' \in Nat /\ faults <= faults'
  BY FaultsGrow
<1>2. /\ reports \in Nat /\ reports' \in Nat /\ reports <= reports'
      /\ crashes \in Nat /\ crashes' \in Nat /\ crashes <= crashes'
  BY CountersGrow
<1>3. Staged(e)'
  BY DEF Staged
<1>4. own[e] = "running" /\ pc'[e] # "working" => faults' + crashes' > 0
  <2>1. own[e] = "running" /\ pc[e] # "working" => faults + crashes > 0
    BY DEF Outcome, StepsTellRun
  <2> QED
    BY <1>1, <1>2, <2>1
<1>5. StepsTellRun(e)'
  BY <1>1, <1>4, StepsStay DEF Outcome
<1>6. reports + faults > 0 => reports' + faults' > 0
  BY <1>1, <1>2
<1> QED
  BY <1>3, <1>5, <1>6 DEF Outcome

(* A worker, outside the handler, leaves what the handler has written.     *)
LEMMA WorkerKeepsOutcome ==
    ASSUME TypeOK, [Next]_vars, NEW e \in Executions, Staged(e), Outcome(e), Process(e),
           ~Execute(e)
    PROVE  Staged(e)' /\ Outcome(e)'
<1>1. /\ faults \in Nat /\ faults' \in Nat /\ faults <= faults'
      /\ reports \in Nat /\ reports' \in Nat /\ reports <= reports'
      /\ crashes \in Nat /\ crashes' \in Nat /\ crashes <= crashes'
  BY FaultsGrow, CountersGrow
<1>2. UNCHANGED <<request, own, steps>>
  BY DEF Process, Claim, MarkRunRunning, MarkTaskSucceeded, MarkRunSucceeded, MarkRunFailed,
         Announce, Crash, workflow
<1>3. pc \in [Executions -> {"idle", "claimed", "starting", "working", "closing", "publishing",
                             "announcing", "ended", "dead"}]
      /\ result \in [Executions -> {"none", "succeeded", "failed", "retry"}]
  BY DEF TypeOK, RowTypeOK
<1>4. Staged(e)'
  <2>1. CASE Claim(e) \/ MarkRunRunning(e)
    BY <1>2, <1>3, <2>1 DEF Staged, Claim, MarkRunRunning, Goes
  <2>2. CASE MarkTaskSucceeded(e)
    <3>1. CASE pc' = [pc EXCEPT ![e] = "publishing"]
      BY <1>2, <1>3, <2>2, <3>1 DEF Staged, MarkTaskSucceeded, Goes, Returns
    <3>2. CASE pc' = [pc EXCEPT ![e] = "closing"]
      BY <1>2, <1>3, <3>2 DEF Staged
    <3> QED
      BY <2>2, <3>1, <3>2 DEF MarkTaskSucceeded, Goes, Returns
  <2>3. CASE MarkRunSucceeded(e) \/ MarkRunFailed(e)
    BY <1>2, <1>3, <2>3 DEF Staged, MarkRunSucceeded, MarkRunFailed, Goes, Returns
  <2>4. CASE Announce(e)
    BY <1>2, <1>3, <2>4 DEF Staged, Announce, GoesOn, Goes
  <2>5. CASE Crash(e)
    BY <1>2, <1>3, <2>5 DEF Staged, Crash, Goes
  <2> QED
    BY <2>1, <2>2, <2>3, <2>4, <2>5 DEF Process
<1>5. own[e] = "running" /\ pc'[e] # "working" => faults' + crashes' > 0
  <2>1. pc[e] = "working" => crashes' = crashes + 1
    BY DEF Process, Claim, MarkRunRunning, MarkTaskSucceeded, MarkRunSucceeded, MarkRunFailed,
           Announce, Crash
  <2>2. own[e] = "running" /\ pc[e] # "working" => faults + crashes > 0
    BY DEF Outcome, StepsTellRun
  <2> QED
    BY <1>1, <2>1, <2>2, SumsGrow
<1>6. StepsTellRun(e)'
  BY <1>1, <1>2, <1>5, StepsStay DEF Outcome
<1>7. result'[e] = result[e] \/ result'[e] = "retry"
  BY <1>3 DEF Process, Claim, MarkRunRunning, MarkTaskSucceeded, MarkRunSucceeded,
         MarkRunFailed, Announce, Crash, Returns
<1>8. reports + faults > 0 => reports' + faults' > 0
  BY <1>1, SumsGrow
<1> QED
  BY <1>2, <1>4, <1>6, <1>7, <1>8 DEF Outcome

(* The agent ends with a report, a failure of the database, or an error.   *)
LEMMA AgentKeepsOutcome ==
    ASSUME TypeOK, [Next]_vars, NEW e \in Executions, Staged(e), Outcome(e),
           request = "agent", Research(e), UNCHANGED workflow
    PROVE  Staged(e)' /\ Outcome(e)'
<1>1. /\ faults \in Nat /\ faults' \in Nat /\ faults <= faults'
      /\ reports \in Nat /\ reports' \in Nat /\ reports <= reports'
  BY FaultsGrow, CountersGrow
<1>2. own[e] = "none" /\ own'[e] = "none" /\ request' = "agent" /\ steps' = steps
  BY DEF Staged, workflow
<1>3. pc[e] = "working" /\ result[e] = "none"
  BY DEF Research, Staged
<1>4. /\ pc \in [Executions -> {"idle", "claimed", "starting", "working", "closing",
                                "publishing", "announcing", "ended", "dead"}]
      /\ result \in [Executions -> {"none", "succeeded", "failed", "retry"}]
  BY DEF TypeOK, RowTypeOK
<1>5. \/ pc'[e] = "working" /\ result'[e] = "none"
      \/ pc'[e] = "closing" /\ result'[e] = "retry"
      \/ pc'[e] = "closing" /\ result'[e] = "succeeded" /\ reports' + faults' > 0
  <2>1. CASE CheckCancelled(e)
    BY <1>3, <1>4, <2>1 DEF CheckCancelled, Raises, Returns, Goes, execVars
  <2>2. CASE PhaseRaises(e)
    BY <1>3, <1>4, <2>2 DEF PhaseRaises, Raises, Returns, Goes
  <2>3. CASE BeginEvent(e) \/ EndEvent(e)
    BY <1>3, <1>4, <2>3 DEF BeginEvent, EndEvent, execVars
  <2>4. CASE PersistReport(e)
    <3>1. reports' = reports + 1 \/ faults' = faults + 1
      BY <2>4 DEF PersistReport, SaveReport, Fault
    <3>2. pc'[e] = "closing" /\ result'[e] = "succeeded"
      BY <1>4, <2>4 DEF PersistReport, Returns, Goes
    <3> QED
      BY <1>1, <3>1, <3>2, SumsGrow
  <2> QED
    BY <2>1, <2>2, <2>3, <2>4 DEF Research
<1>6. StepsTellRun(e)'
  BY <1>1, <1>2, StepsStay DEF Outcome
<1> QED
  BY <1>2, <1>5, <1>6, Zenon DEF Staged, Outcome

(* No stage of the workflow is running or has failed.                      *)
Closed(e) == \A k \in 1..Len(steps[e]) : steps[e][k] \notin {"running", "failed"}

(* The steps and the status of the run a workflow made agree after every   *)
(* step of it.                                                             *)
LEMMA WorkflowKeepsSteps ==
    ASSUME TypeOK, [Next]_vars, NEW e \in Executions, Staged(e), StepsTellRun(e), Analyze(e)
    PROVE  StepsTellRun(e)'
<1>1. /\ faults \in Nat /\ faults' \in Nat /\ faults <= faults'
      /\ crashes \in Nat /\ crashes' \in Nat /\ crashes <= crashes'
  BY FaultsGrow, CountersGrow
<1>2. /\ own \in [Executions -> {"none", "running", "succeeded", "failed"}]
      /\ steps \in [Executions -> Seq(StepStatus)]
      /\ pc \in [Executions -> {"idle", "claimed", "starting", "working", "closing",
                                "publishing", "announcing", "ended", "dead"}]
  BY DEF TypeOK, WorkflowTypeOK, RowTypeOK
<1>3. pc[e] = "working"
  BY DEF Analyze
<1>4. request' = request /\ StepPlan' = StepPlan
  BY DEF Analyze, RejectPayload, CreateRun, SkipStep, BeginStep, EndStep, StepRaises, FailRun,
         WriteFails, SucceedRun, StepPlan
<1>5. ~InStep(e) /\ ~StepFailed(e) => Closed(e)
  <2>1. SUFFICES ASSUME ~InStep(e), ~StepFailed(e), NEW k \in 1..Len(steps[e])
                 PROVE  steps[e][k] \notin {"running", "failed"}
    BY DEF Closed
  <2>3. steps[e] # <<>>
    BY <1>2
  <2>4. steps[e][k] \in {"running", "failed"} => k = Len(steps[e])
    BY DEF StepsTellRun
  <2> QED
    BY <2>1, <2>3, <2>4 DEF InStep, StepFailed
<1>6. CASE CreateRun(e)
  <2>1. steps[e] = <<>> /\ steps' = steps
    BY <1>6 DEF CreateRun, Staged
  <2>2. (own'[e] = "running" /\ pc' = pc) \/ own'[e] = "none"
    BY <1>2, <1>6 DEF CreateRun, OwnRun, execVars
  <2> QED
    BY <1>3, <2>1, <2>2 DEF StepsTellRun
<1>7. CASE SkipStep(e) \/ BeginStep(e)
  <2>1. PICK status \in StepStatus : Adds(e, status)
    BY <1>7 DEF SkipStep, BeginStep, StepStatus
  <2>2. own' = own /\ pc' = pc /\ own[e] = "running" /\ Closed(e)
    BY <1>5, <1>7 DEF SkipStep, BeginStep, execVars
  <2>3. steps'[e] = Append(steps[e], status)
    BY <1>2, <2>1 DEF Adds
  <2>4. \A k \in 1..Len(steps'[e]) : steps'[e][k] \in {"running", "failed"} => k = Len(steps'[e])
    BY <1>2, <2>2, <2>3 DEF Closed
  <2> QED
    BY <1>3, <2>2, <2>4 DEF StepsTellRun
<1>8. CASE EndStep(e) \/ StepRaises(e)
  <2>1. PICK status \in StepStatus : Ends(e, status)
    BY <1>8 DEF EndStep, StepRaises, StepStatus
  <2>2. own' = own /\ pc' = pc /\ steps[e] # <<>>
    BY <1>8 DEF EndStep, StepRaises, InStep, execVars
  <2>3. own[e] = "running"
    BY <1>3, <2>2 DEF Staged
  <2>4. steps'[e] = [steps[e] EXCEPT ![Len(steps[e])] = status]
    BY <1>2, <2>1 DEF Ends
  <2>5. \A k \in 1..Len(steps[e]) : steps[e][k] \in {"running", "failed"} => k = Len(steps[e])
    BY DEF StepsTellRun
  <2>6. \A k \in 1..Len(steps'[e]) : steps'[e][k] \in {"running", "failed"} => k = Len(steps'[e])
    BY <1>2, <2>2, <2>4, <2>5, OutcomeReplaces
  <2> QED
    BY <1>3, <2>2, <2>3, <2>6 DEF StepsTellRun
<1>9. CASE FailRun(e)
  <2>1. own'[e] = "failed" /\ steps' = steps /\ ~InStep(e)
    BY <1>2, <1>9 DEF FailRun, FailsWorkflow, OwnRun
  <2>2. InStep(e)' = InStep(e)
    BY <2>1 DEF InStep
  <2> QED
    BY <2>1, <2>2 DEF StepsTellRun
<1>10. CASE WriteFails(e)
  <2>1. steps' = steps /\ faults' = faults + 1 /\ own[e] = "running"
    BY <1>10 DEF WriteFails, Fault
  <2>2. own'[e] \in {"running", "failed"}
    BY <1>2, <1>10, <2>1 DEF WriteFails, OwnRun
  <2>3. faults' + crashes' > 0
    BY <1>1, <2>1, SumsGrow
  <2>4. faults' # 0
    BY <1>1, <2>1
  <2> QED
    BY <2>1, <2>2, <2>3, <2>4 DEF StepsTellRun
<1>11. CASE SucceedRun(e)
  <2>1. own'[e] = "succeeded" /\ steps' = steps /\ Closed(e) /\ Finished(e)
    BY <1>2, <1>5, <1>11 DEF SucceedRun, OwnRun
  <2>2. Finished(e)'
    BY <1>4, <2>1 DEF Finished
  <2> QED
    BY <2>1, <2>2 DEF StepsTellRun, Closed
<1>12. CASE RejectPayload(e)
  <2>1. steps' = steps /\ own' = own /\ own[e] = "none" /\ steps[e] = <<>>
    BY <1>12 DEF RejectPayload, Staged
  <2> QED
    BY <2>1 DEF StepsTellRun
<1> QED
  BY <1>6, <1>7, <1>8, <1>9, <1>10, <1>11, <1>12 DEF Analyze

(* A workflow ends with the outcome its rows tell.                         *)
LEMMA WorkflowKeepsOutcome ==
    ASSUME TypeOK, [Next]_vars, NEW e \in Executions, Staged(e), Outcome(e),
           request # "agent", Analyze(e)
    PROVE  Staged(e)' /\ Outcome(e)'
<1>1. StepsTellRun(e)'
  BY WorkflowKeepsSteps DEF Outcome
<1>2. /\ own \in [Executions -> {"none", "running", "succeeded", "failed"}]
      /\ steps \in [Executions -> Seq(StepStatus)]
      /\ result \in [Executions -> {"none", "succeeded", "failed", "retry"}]
      /\ pc \in [Executions -> {"idle", "claimed", "starting", "working", "closing",
                                "publishing", "announcing", "ended", "dead"}]
  BY DEF TypeOK, WorkflowTypeOK, RowTypeOK
<1>3. pc[e] = "working" /\ result[e] = "none" /\ (own[e] = "none" => steps[e] = <<>>)
  BY DEF Analyze, Staged
<1>4. request' = request
  BY DEF Analyze, RejectPayload, CreateRun, SkipStep, BeginStep, EndStep, StepRaises, FailRun,
         WriteFails, SucceedRun
<1>5. \/ pc'[e] = "working" /\ result'[e] = "none" /\ own'[e] \in {"none", "running"}
      \/ pc'[e] = "closing" /\ result'[e] = "retry"
      \/ /\ pc'[e] = "closing" /\ result'[e] = "failed"
         /\ own'[e] = IF request = "invalid" THEN "none" ELSE "failed"
      \/ pc'[e] = "closing" /\ result'[e] = "succeeded" /\ own'[e] = "succeeded"
  <2>1. CASE CreateRun(e) \/ WriteFails(e)
    BY <1>2, <1>3, <2>1 DEF CreateRun, WriteFails, OwnRun, Returns, Goes, execVars,
                                  Staged
  <2>2. CASE SkipStep(e) \/ BeginStep(e) \/ EndStep(e) \/ StepRaises(e)
    BY <1>3, <2>2 DEF SkipStep, BeginStep, EndStep, StepRaises, Staged, execVars
  <2>3. CASE FailRun(e) \/ SucceedRun(e)
    BY <1>2, <2>3 DEF FailRun, FailsWorkflow, SucceedRun, OwnRun, Returns, Goes, Staged
  <2>4. CASE RejectPayload(e)
    BY <1>2, <2>4 DEF RejectPayload, Returns, Goes
  <2> QED
    BY <2>1, <2>2, <2>3, <2>4 DEF Analyze
<1>6. own'[e] = "none" => steps'[e] = <<>>
  <2>1. CASE CreateRun(e) \/ RejectPayload(e)
    BY <1>3, <2>1 DEF CreateRun, RejectPayload
  <2>2. CASE ~CreateRun(e) /\ ~RejectPayload(e)
    <3>1. own[e] # "none"
      BY <1>3, <2>2 DEF Analyze, SkipStep, BeginStep, EndStep, StepRaises, InStep, FailRun,
                        FailsWorkflow, WriteFails, SucceedRun
    <3>2. own'[e] = own[e] \/ own'[e] \in {"failed", "succeeded"}
      BY <1>2, <2>2 DEF Analyze, SkipStep, BeginStep, EndStep, StepRaises, FailRun, WriteFails,
                        SucceedRun, OwnRun
    <3> QED
      BY <3>1, <3>2
  <2> QED
    BY <2>1, <2>2
<1>7. own'[e] # "none" => request \notin {"agent", "invalid"}
  <2>1. CASE own'[e] = own[e]
    BY <2>1 DEF Staged
  <2>2. CASE own'[e] # own[e]
    <3>1. own[e] = "running" \/ request # "invalid"
      BY <2>2, Zenon DEF Analyze, RejectPayload, CreateRun, SkipStep, BeginStep, EndStep,
                         StepRaises, FailRun, FailsWorkflow, WriteFails, SucceedRun
    <3> QED
      BY <3>1 DEF Staged
  <2> QED
    BY <2>1, <2>2
<1> QED
  BY <1>1, <1>4, <1>5, <1>6, <1>7, Zenon DEF Staged, Outcome

(* The run is closed as a success only by an execution that has a result,  *)
(* and a workflow's result has moved the task to another run.              *)
LEMMA RunIsEarned ==
    ASSUME TypeOK, Told, [Next]_vars
    PROVE  run' = "succeeded" => reports' + faults' > 0
<1>1. /\ faults \in Nat /\ faults' \in Nat /\ faults <= faults'
      /\ reports \in Nat /\ reports' \in Nat /\ reports <= reports'
  BY FaultsGrow, CountersGrow
<1>2. reports + faults > 0 => reports' + faults' > 0
  BY <1>1, SumsGrow
<1>3. CASE run' = run \/ run' # "succeeded"
  BY <1>2, <1>3 DEF Told
<1>4. ASSUME NEW e \in Executions, MarkRunSucceeded(e)
      PROVE  run' = run \/ reports + faults > 0
  BY <1>4 DEF Told, Staged, Outcome, MarkRunSucceeded, CasOfTask
<1>5. ASSUME NEW e \in Executions, Process(e), ~MarkRunSucceeded(e)
      PROVE  run' = run \/ run' # "succeeded"
  <2>1. CASE Execute(e)
    <3>1. CASE Research(e)
      BY <3>1 DEF Research, CheckCancelled, PhaseRaises, BeginEvent, EndEvent, PersistReport,
                  rowVars
    <3>2. CASE Analyze(e)
      BY <3>2 DEF Analyze, RejectPayload, CreateRun, SkipStep, BeginStep, EndStep, StepRaises,
                  FailRun, WriteFails, SucceedRun, rowVars
    <3> QED
      BY <2>1, <3>1, <3>2 DEF Execute
  <2>2. CASE ~Execute(e)
    BY <1>5, <2>2 DEF Process, Claim, MarkRunRunning, MarkTaskSucceeded, MarkRunFailed,
                      CasOfTask, Cas, Announce, Crash, rowVars
  <2> QED
    BY <2>1, <2>2
<1>6. CASE Create \/ Cancel
  BY <1>3, <1>6 DEF Create, Cancel, AskToStop, SeesQueued, CancelRecords, CancelQueued, Cas,
                    rowVars
<1>7. CASE UNCHANGED vars
  BY <1>3, <1>7 DEF vars, rowVars
<1> QED
  BY <1>2, <1>3, <1>4, <1>5, <1>6, <1>7 DEF Next

(* Every step keeps what outcomes tell.                                    *)
LEMMA ToldIsInductive ==
    ASSUME TypeOK, Told, [Next]_vars
    PROVE  Told'
<1>1. SUFFICES ASSUME NEW d \in Executions PROVE Staged(d)' /\ Outcome(d)'
  BY RunIsEarned DEF Told
<1>2. Staged(d) /\ Outcome(d)
  BY DEF Told
<1>3. CASE Process(d)
  <2>1. CASE ~Execute(d)
    BY <1>2, <1>3, <2>1, WorkerKeepsOutcome
  <2>2. CASE request = "agent" /\ Research(d) /\ UNCHANGED <<workflow, clients>>
    BY <1>2, <2>2, AgentKeepsOutcome
  <2>3. CASE request # "agent" /\ Analyze(d)
    BY <1>2, <2>3, WorkflowKeepsOutcome
  <2> QED
    BY <2>1, <2>2, <2>3 DEF Execute
<1>4. CASE UNCHANGED <<request, pc[d], result[d], own[d], steps[d]>> /\ (moved => moved')
  BY <1>2, <1>4, OutcomeStays
<1>5. ASSUME NEW e \in Executions, Process(e), e # d
      PROVE  UNCHANGED <<request, pc[d], result[d], own[d], steps[d]>> /\ (moved => moved')
  <2>1. /\ own \in [Executions -> {"none", "running", "succeeded", "failed"}]
        /\ steps \in [Executions -> Seq(StepStatus)]
        /\ result \in [Executions -> {"none", "succeeded", "failed", "retry"}]
        /\ pc \in [Executions -> {"idle", "claimed", "starting", "working", "closing",
                                  "publishing", "announcing", "ended", "dead"}]
    BY DEF TypeOK, WorkflowTypeOK, RowTypeOK
  <2>2. CASE request = "agent" /\ Research(e) /\ UNCHANGED <<workflow, clients>>
    BY <1>5, <2>1, <2>2 DEF Research, CheckCancelled, PhaseRaises, BeginEvent, EndEvent,
       PersistReport, Raises, Returns, Goes, workflow, rowVars, execVars
  <2>3. CASE request # "agent" /\ Analyze(e)
    BY <1>5, <2>1, <2>3 DEF Analyze, RejectPayload, CreateRun, SkipStep, BeginStep, EndStep,
                            StepRaises, FailRun, WriteFails, SucceedRun, Adds, Ends, OwnRun,
                            Returns, Goes, rowVars, execVars
  <2>4. CASE ~Execute(e)
    <3>1. moved => moved'
      BY <1>5, <2>4, Zenon DEF Process, Claim, MarkRunRunning, MarkTaskSucceeded,
         MarkRunSucceeded, MarkRunFailed, Announce, Crash, rowVars
    <3>2. UNCHANGED workflow
      BY <1>5, <2>4 DEF Process, Claim, MarkRunRunning, MarkTaskSucceeded, MarkRunSucceeded,
         MarkRunFailed, Announce, Crash
    <3>3. pc' = pc \/ \E stage : pc' = [pc EXCEPT ![e] = stage]
      BY <1>5, <2>4 DEF Process, Claim, MarkRunRunning, MarkTaskSucceeded, MarkRunSucceeded,
         MarkRunFailed, Announce, GoesOn, Crash, Returns, Goes
    <3>4. result' = result \/ result' = [result EXCEPT ![e] = "retry"]
      BY <1>5, <2>4 DEF Process, Claim, MarkRunRunning, MarkTaskSucceeded, MarkRunSucceeded,
         MarkRunFailed, Announce, Crash, Returns
    <3> QED
      BY <1>5, <2>1, <3>1, <3>2, <3>3, <3>4 DEF workflow
  <2> QED
    BY <2>2, <2>3, <2>4 DEF Execute
<1>6. CASE Create \/ Cancel
  <2>1. UNCHANGED <<moved, execVars, workflow>>
    BY <1>6 DEF Create, Cancel, AskToStop, SeesQueued, CancelRecords, CancelQueued, rowVars
  <2> QED
    BY <1>4, <2>1 DEF execVars, workflow
<1>7. CASE UNCHANGED vars
  BY <1>4, <1>7 DEF vars, rowVars, execVars, workflow
<1> QED
  BY <1>3, <1>4, <1>5, <1>6, <1>7 DEF Next

(* The run of a finished workflow stays finished.                          *)
LEMMA FinishedStays ==
    ASSUME TypeOK, Told, [Next]_vars, NEW d \in Executions, own[d] = "succeeded"
    PROVE  own'[d] = "succeeded"
<1>1. CASE UNCHANGED workflow
  BY <1>1 DEF workflow
<1>2. ASSUME NEW e \in Executions, Analyze(e) PROVE own'[d] = "succeeded"
  <2>1. own \in [Executions -> {"none", "running", "succeeded", "failed"}]
    BY DEF TypeOK, WorkflowTypeOK
  <2>2. own' = own \/ \E status : own' = [own EXCEPT ![e] = status]
    BY <1>2 DEF Analyze, RejectPayload, CreateRun, SkipStep, BeginStep, EndStep, StepRaises,
                FailRun, WriteFails, SucceedRun, OwnRun
  <2>3. d # e
    BY <1>2 DEF Told, Staged, Analyze
  <2> QED
    BY <2>1, <2>2, <2>3
<1> QED
  BY <1>1, <1>2, WorkflowMoves

(* Every step keeps the run closed.                                        *)
LEMMA ClosedIsInductive ==
    ASSUME TypeOK, Told, RunGetsClosed, [Next]_vars
    PROVE  RunGetsClosed'
<1>1. /\ run \in RunStatus /\ moved \in BOOLEAN
      /\ pc \in [Executions -> {"idle", "claimed", "starting", "working", "closing",
                                "publishing", "announcing", "ended", "dead"}]
  BY DEF TypeOK, RowTypeOK
<1>2. /\ moved => moved'
      /\ run \notin Unfinished => run' \notin Unfinished
      /\ moved' => moved \/ \E e \in Executions : own[e] = "succeeded"
      /\ \A d \in Executions : pc'[d] \in {"announcing", "ended"} =>
            pc[d] \in {"announcing", "ended"} \/ run' \notin Unfinished \/ moved'
  <2>1. CASE Create \/ Cancel \/ UNCHANGED vars
    BY <2>1 DEF Create, Cancel, AskToStop, SeesQueued, CancelRecords, CancelQueued, Cas, vars,
                rowVars, execVars, Unfinished
  <2>2. ASSUME NEW e \in Executions, Process(e)
        PROVE  /\ moved => moved'
               /\ run \notin Unfinished => run' \notin Unfinished
               /\ moved' => moved \/ own[e] = "succeeded"
               /\ \A d \in Executions : pc'[d] \in {"announcing", "ended"} =>
                     pc[d] \in {"announcing", "ended"} \/ run' \notin Unfinished \/ moved'
    <3>1. CASE Claim(e) \/ Crash(e)
      BY <1>1, <3>1 DEF Claim, Crash, Goes, rowVars
    <3>2. CASE MarkRunRunning(e)
      BY <1>1, <3>2 DEF MarkRunRunning, CasOfTask, Cas, Goes, Unfinished
    <3>3. CASE Execute(e)
      <4>1. UNCHANGED rowVars
        BY <3>3 DEF Execute, Research, CheckCancelled, PhaseRaises, BeginEvent, EndEvent,
                    PersistReport, Analyze, RejectPayload, CreateRun, SkipStep, BeginStep,
                    EndStep, StepRaises, FailRun, WriteFails, SucceedRun
      <4>2. pc' = pc \/ pc' = [pc EXCEPT ![e] = "closing"]
        BY <3>3 DEF Execute, Research, CheckCancelled, PhaseRaises, BeginEvent, EndEvent,
                    PersistReport, Raises, Analyze, RejectPayload, CreateRun, SkipStep,
                    BeginStep, EndStep, StepRaises, FailRun, WriteFails, SucceedRun, Returns,
                    Goes, execVars
      <4> QED
        BY <1>1, <4>1, <4>2 DEF rowVars
    <3>4. CASE MarkTaskSucceeded(e)
      <4>1. pc' = [pc EXCEPT ![e] = "publishing"] \/ pc' = [pc EXCEPT ![e] = "closing"]
        BY <3>4 DEF MarkTaskSucceeded, Returns, Goes
      <4>2. run' = run /\ (moved => moved') /\ (moved' => moved \/ own[e] = "succeeded")
        <5>1. result[e] = "succeeded" /\ (request # "agent" => own[e] = "succeeded")
          BY <3>4 DEF MarkTaskSucceeded, Told, Outcome
        <5>2. run' = run
          BY <3>4 DEF MarkTaskSucceeded
        <5>3. CASE request = "agent"
          <6>1. moved' = moved
            <7>1. (moved \/ request # "agent") = moved
              BY <1>1, <5>3
            <7> QED
              BY <3>4, <7>1 DEF MarkTaskSucceeded
          <6> QED
            BY <5>2, <6>1
        <5>4. CASE request # "agent"
          <6>1. moved' = moved \/ moved' = TRUE
            <7>1. (moved \/ request # "agent") = TRUE
              BY <5>4
            <7> QED
              BY <3>4, <7>1 DEF MarkTaskSucceeded
          <6>2. moved => moved'
            BY <6>1
          <6> QED
            BY <5>1, <5>2, <5>4, <6>2
        <5> QED
          BY <5>3, <5>4
      <4> QED
        BY <1>1, <4>1, <4>2
    <3>5. CASE MarkRunSucceeded(e)
      BY <1>1, <3>5 DEF MarkRunSucceeded, CasOfTask, Cas, Returns, Goes, Unfinished
    <3>6. CASE MarkRunFailed(e)
      BY <1>1, <3>6 DEF MarkRunFailed, CasOfTask, Cas, Goes, Unfinished
    <3>7. CASE Announce(e)
      <4>1. \/ pc' = pc
            \/ pc[e] = "starting" /\ pc' = [pc EXCEPT ![e] = "working"]
            \/ pc[e] = "announcing" /\ pc' = [pc EXCEPT ![e] = "ended"]
        BY <3>7 DEF Announce, GoesOn, Goes
      <4>2. run' = run /\ moved' = moved
        BY <3>7 DEF Announce
      <4> QED
        BY <1>1, <4>1, <4>2
    <3> QED
      BY <2>2, <3>1, <3>2, <3>3, <3>4, <3>5, <3>6, <3>7 DEF Process
  <2> QED
    BY <2>1, <2>2 DEF Next
<1>3. moved' => \E e \in Executions : own'[e] = "succeeded"
  BY <1>2, FinishedStays DEF RunGetsClosed
<1>4. ASSUME NEW d \in Executions, pc'[d] \in {"announcing", "ended"}
      PROVE  run' \notin Unfinished \/ moved'
  BY <1>2, <1>4 DEF RunGetsClosed
<1> QED
  BY <1>3, <1>4 DEF RunGetsClosed, Unfinished

-----------------------------------------------------------------------------
(* The theorems.                                                           *)

(* The invariant holds in the beginning.                                   *)
LEMMA InitIsGood == Init => IInv
<1> SUFFICES ASSUME Init PROVE IInv
  OBVIOUS
<1>1. RowTypeOK
  <2>1. InitRow
    BY DEF Init
  <2>2. budget.faults \in Nat /\ budget.crashes \in Nat
    BY <2>1, RunRowAssumption DEF InitRow
  <2>3. 0 \in 0..budget.faults /\ 0 \in 0..budget.crashes
    BY <2>2
  <2>4. pc \in [Executions -> {"idle", "claimed", "starting", "working", "closing",
                               "publishing", "announcing", "ended", "dead"}]
    BY <2>1 DEF InitRow
  <2> QED
    BY <2>1, <2>3, <2>4 DEF InitRow, RowTypeOK, RunStatus, Unfinished
<1>2. TimelineTypeOK /\ Numbered
  <2>1. taken = {} /\ rows = 0 /\ number = [w \in Writers |-> 0] /\ refused = FALSE
    BY DEF Init, InitTimeline
  <2>2. 1..0 = {}
    OBVIOUS
  <2>3. TimelineTypeOK
    BY <2>1 DEF TimelineTypeOK
  <2>4. taken = 1..rows /\ \A w \in Writers : number[w] = 0
    BY <2>1, <2>2
  <2> QED
    BY <2>1, <2>3, <2>4 DEF Numbered
<1>3. AgentTypeOK
  <2>1. 1 \in 1..Len(Pipeline)
    BY PipelineEnds
  <2> QED
    BY <2>1 DEF Init, InitAgent, AgentTypeOK
<1> USE DEF Init, InitRow, InitAgent, InitWorkflow
<1>4. WorkflowTypeOK
  <2>1. <<>> \in Seq(StepStatus) /\ Len(<<>>) = 0
    OBVIOUS
  <2> QED
    BY <2>1, PlanIsFinite DEF WorkflowTypeOK
<1>5. Cancelling
  BY FS_EmptySet DEF Cancelling, Heeding
<1>6. Told
  BY DEF Told, Staged, Outcome, StepsTellRun, Finished, InStep
<1>7. RunGetsClosed
  BY DEF RunGetsClosed
<1> QED
  BY <1>1, <1>2, <1>3, <1>4, <1>5, <1>6, <1>7 DEF IInv, TypeOK

(* Every step keeps the invariant.                                         *)
LEMMA IInvIsInductive == IInv /\ [Next]_vars => IInv'
  BY TypesAreInductive, NumberedIsInductive, CancellingIsInductive, ToldIsInductive,
     ClosedIsInductive
     DEF IInv, TypeOK

(* The invariant holds of every behaviour.                                 *)
THEOREM IInvHolds == Spec => []IInv
  BY InitIsGood, IInvIsInductive, PTL DEF Spec

(* Rows, counters and stages hold what the code can put there.             *)
THEOREM TypeCorrect == Spec => []TypeOK
<1>1. IInv => TypeOK
  BY DEF IInv
<1> QED
  BY <1>1, IInvHolds, PTL

(* The timeline of a run has no gap, and where rows are locked no event is *)
(* dropped for a number that was taken.                                    *)
THEOREM TimelineStaysWhole == Spec => []TimelineIsWhole
<1>1. IInv => TimelineIsWhole
  BY DEF IInv, Numbered, TimelineIsWhole
<1> QED
  BY <1>1, IInvHolds, PTL

(* Behind a request to stop an agent finishes its section at most, unless  *)
(* the database fails a check.                                             *)
THEOREM CancelGetsHeeded == Spec => []CancelIsHeeded
<1>1. IInv => CancelIsHeeded
  <2> SUFFICES ASSUME IInv, NEW e \in Executions
               PROVE  Cardinality(late[e]) <= 1 + faults
    BY DEF CancelIsHeeded
  <2>1. faults \in Nat /\ Heeding(e)
    BY RunRowAssumption DEF IInv, TypeOK, RowTypeOK, Cancelling
  <2>2. CASE late[e] = {}
    BY <2>1, <2>2, FS_EmptySet
  <2>3. CASE late[e] # {}
    <3>1. /\ Cardinality(late[e]) \in Nat
          /\ Cardinality(late[e] \cup {Section(e)}) \in Nat
          /\ Cardinality(late[e]) <= Cardinality(late[e] \cup {Section(e)})
      <4>1. IsFiniteSet(late[e])
        BY <2>1 DEF Heeding
      <4>2. Cardinality(late[e]) \in Nat
        BY <4>1, FS_CardinalityType
      <4>3. Cardinality(late[e] \cup {Section(e)})
            = IF Section(e) \in late[e] THEN Cardinality(late[e]) ELSE Cardinality(late[e]) + 1
        BY <4>1, FS_AddElement
      <4> QED
        BY <4>2, <4>3
    <3>2. Cardinality(late[e] \cup {Section(e)}) <= 1 + faults
      BY <2>1, <2>3 DEF Heeding
    <3> QED
      BY <2>1, <3>1, <3>2
  <2> QED
    BY <2>2, <2>3
<1> QED
  BY <1>1, IInvHolds, PTL

(* The outcome of a task tells what was done for it.                       *)
THEOREM OutcomesStayTrue == Spec => []OutcomesTellWork
<1>1. IInv => OutcomesTellWork
  BY DEF IInv, Told, Outcome, RunGetsClosed, OutcomesTellWork
<1> QED
  BY <1>1, IInvHolds, PTL
-----------------------------------------------------------------------------
(* The length of an execution.                                             *)

Holding(e) == IF number[e] # 0 THEN 1 ELSE 0

(* The steps of a handler that has not begun: an agent takes two for each  *)
(* event of its pipeline, the workflow two for each row and two for its    *)
(* run;                                                                    *)
AllWork == IF request = "agent" THEN 2 * Len(Pipeline) ELSE 2 * Len(StepPlan) + 2

(* of one at work;                                                         *)
WorkLeft(e) ==
    IF request = "agent" THEN 2 * (Len(Pipeline) - at[e]) + 2 - Holding(e)
    ELSE IF own[e] = "none" THEN 2 * Len(StepPlan) + 2
    ELSE 2 * (Len(StepPlan) - Len(steps[e])) + (IF InStep(e) THEN 2 ELSE 1)

(* and of the execution around it.  A task that cannot be marked succeeded *)
(* is marked for a retry, so closing can happen twice.                     *)
StepsLeft(e) ==
    CASE pc[e] = "idle" -> AllWork + 9
      [] pc[e] = "claimed" -> AllWork + 8
      [] pc[e] = "starting" -> AllWork + 7 - Holding(e)
      [] pc[e] = "working" -> WorkLeft(e) + 5
      [] pc[e] = "closing" /\ result[e] = "succeeded" -> 5
      [] pc[e] = "publishing" -> 4
      [] pc[e] = "closing" /\ result[e] # "succeeded" -> 3
      [] pc[e] = "announcing" -> 2 - Holding(e)
      [] OTHER -> 0

(* No agent begins but at the start of its pipeline.                       *)
AtTheStart(e) == pc[e] \in {"idle", "claimed", "starting"} => at[e] = 1

(* What an execution has of its own.                                       *)
Mine(e) == <<pc[e], result[e], at[e], own[e], steps[e], number[e]>>

(* An execution numbers no event but its own.                              *)
LEMMA OwnNumber ==
    ASSUME NEW d \in Executions, Process(d)
    PROVE  UNCHANGED number \/ \E n : number' = [number EXCEPT ![d] = n]
<1>1. CASE request = "agent" /\ Research(d)
  BY <1>1 DEF Research, CheckCancelled, PhaseRaises, BeginEvent, EndEvent, PersistReport,
              Allocate, Recorded, Insert, Abandon, timeline
<1>2. CASE request # "agent" /\ Analyze(d) /\ UNCHANGED <<timeline, agent, clients>>
  BY <1>2 DEF timeline
<1>3. CASE ~Execute(d)
  BY <1>3 DEF Process, Claim, MarkRunRunning, MarkTaskSucceeded, MarkRunSucceeded,
              MarkRunFailed, Announce, Crash, Allocate, Recorded, Insert, Abandon, timeline
<1> QED
  BY <1>1, <1>2, <1>3 DEF Execute

(* What it has of its own, no other changes.                               *)
LEMMA OthersKeepMine ==
    ASSUME TypeOK, Next, NEW e \in Executions, ~Process(e)
    PROVE  UNCHANGED Mine(e)
<1> USE DEF TypeOK
<1>1. /\ pc = [d \in Executions |-> pc[d]] /\ result = [d \in Executions |-> result[d]]
      /\ at = [d \in Executions |-> at[d]] /\ own = [d \in Executions |-> own[d]]
      /\ steps = [d \in Executions |-> steps[d]] /\ number = [w \in Writers |-> number[w]]
      /\ e \in Writers /\ e # Creator /\ e # Canceller
  BY TimelineAssumption
     DEF RowTypeOK, AgentTypeOK, WorkflowTypeOK, TimelineTypeOK, Writers
<1>2. CASE Create
  BY <1>1, <1>2 DEF Create, Allocate, Recorded, Insert, Abandon, execVars, agent, workflow, Mine
<1>3. CASE Cancel
  <2>1. UNCHANGED <<execVars, at, own, steps>>
    BY <1>3 DEF Cancel, AskToStop, SeesQueued, CancelRecords, CancelQueued, execVars, agent,
                workflow
  <2>2. number'[e] = number[e]
    BY <1>1, <1>3 DEF Cancel, AskToStop, SeesQueued, CancelRecords, CancelQueued, timeline,
                      Allocate, Recorded, Insert, Abandon
  <2> QED
    BY <2>1, <2>2 DEF execVars, Mine
<1>4. ASSUME NEW d \in Executions \ {e}, Process(d)
      PROVE  UNCHANGED Mine(e)
  <2>1. number'[e] = number[e]
    BY <1>1, <1>4, OwnNumber
  <2>2. CASE request = "agent" /\ Research(d) /\ UNCHANGED workflow
    <3>1. UNCHANGED pc \/ \E stage : pc' = [pc EXCEPT ![d] = stage]
      BY <2>2 DEF Research, CheckCancelled, PhaseRaises, BeginEvent, EndEvent, PersistReport,
                  Raises, Returns, Goes, execVars
    <3>2. UNCHANGED result \/ \E how : result' = [result EXCEPT ![d] = how]
      BY <2>2 DEF Research, CheckCancelled, PhaseRaises, BeginEvent, EndEvent, PersistReport,
                  Raises, Returns, Goes, execVars
    <3>3. UNCHANGED at \/ \E k : at' = [at EXCEPT ![d] = k]
      BY <2>2 DEF Research, CheckCancelled, PhaseRaises, BeginEvent, EndEvent, PersistReport,
                  Raises, Advance, agent
    <3> QED
      BY <1>1, <1>4, <2>1, <2>2, <3>1, <3>2, <3>3 DEF workflow, Mine
  <2>3. CASE request # "agent" /\ Analyze(d) /\ UNCHANGED agent
    <3>1. UNCHANGED pc \/ \E stage : pc' = [pc EXCEPT ![d] = stage]
      BY <2>3 DEF Analyze, RejectPayload, CreateRun, SkipStep, BeginStep, EndStep, StepRaises,
                  FailRun, WriteFails, SucceedRun, Returns, Goes, execVars
    <3>2. UNCHANGED result \/ \E how : result' = [result EXCEPT ![d] = how]
      BY <2>3 DEF Analyze, RejectPayload, CreateRun, SkipStep, BeginStep, EndStep, StepRaises,
                  FailRun, WriteFails, SucceedRun, Returns, execVars
    <3>3. UNCHANGED own \/ \E status : own' = [own EXCEPT ![d] = status]
      BY <2>3 DEF Analyze, RejectPayload, CreateRun, SkipStep, BeginStep, EndStep, StepRaises,
                  FailRun, WriteFails, SucceedRun, OwnRun
    <3>4. UNCHANGED steps \/ \E rows0 : steps' = [steps EXCEPT ![d] = rows0]
      BY <2>3 DEF Analyze, RejectPayload, CreateRun, SkipStep, BeginStep, EndStep, StepRaises,
                  FailRun, WriteFails, SucceedRun, Adds, Ends
    <3> QED
      BY <1>1, <1>4, <2>1, <2>3, <3>1, <3>2, <3>3, <3>4 DEF agent, Mine
  <2>4. CASE ~Execute(d)
    <3>1. UNCHANGED <<agent, workflow>>
      BY <1>4, <2>4 DEF Process, Claim, MarkRunRunning, MarkTaskSucceeded, MarkRunSucceeded,
                        MarkRunFailed, Announce, Crash
    <3>2. UNCHANGED pc \/ \E stage : pc' = [pc EXCEPT ![d] = stage]
      BY <1>4, <2>4 DEF Process, Claim, MarkRunRunning, MarkTaskSucceeded, MarkRunSucceeded,
                        MarkRunFailed, Announce, GoesOn, Crash, Returns, Goes
    <3>3. UNCHANGED result \/ \E how : result' = [result EXCEPT ![d] = how]
      BY <1>4, <2>4 DEF Process, Claim, MarkRunRunning, MarkTaskSucceeded, MarkRunSucceeded,
                        MarkRunFailed, Announce, Crash, Returns
    <3> QED
      BY <1>1, <1>4, <2>1, <3>1, <3>2, <3>3 DEF agent, workflow, Mine
  <2> QED
    BY <1>4, <2>2, <2>3, <2>4 DEF Execute
<1> QED
  BY <1>2, <1>3, <1>4 DEF Next

(* What is counted are numbers, and small ones.                            *)
LEMMA CountsAreNumbers ==
    ASSUME TypeOK, NEW e \in Executions
    PROVE  /\ Holding(e) \in {0, 1}
           /\ AllWork \in Nat /\ AllWork <= 36
           /\ WorkLeft(e) \in Nat /\ WorkLeft(e) >= 1 /\ WorkLeft(e) <= 36
<1>1. Holding(e) \in {0, 1}
  BY DEF Holding
<1>2. PICK plan \in Nat : plan = Len(StepPlan) /\ plan <= 17
  BY PlanIsFinite
<1>3. AllWork \in Nat /\ AllWork <= 36
  BY <1>2, PipelineEnds DEF AllWork
<1>4. CASE request = "agent"
  <2>1. at[e] \in 1..13
    BY PipelineEnds DEF TypeOK, AgentTypeOK
  <2>2. WorkLeft(e) = 2 * (13 - at[e]) + 2 - Holding(e)
    BY <1>4, PipelineEnds DEF WorkLeft
  <2> QED
    BY <1>1, <1>3, <2>1, <2>2
<1>5. CASE request # "agent"
  <2>1. PICK count \in Nat : count = Len(steps[e]) /\ count <= plan
    <3>1. steps[e] \in Seq(StepStatus) /\ Len(steps[e]) <= Len(StepPlan)
      BY DEF TypeOK, WorkflowTypeOK
    <3> QED
      BY <1>2, <3>1
  <2>2. PICK last \in {1, 2} : last = IF InStep(e) THEN 2 ELSE 1
    OBVIOUS
  <2>3. WorkLeft(e) \in {2 * plan + 2, 2 * (plan - count) + last}
    BY <1>2, <1>5, <2>1, <2>2 DEF WorkLeft
  <2>4. plan \in Nat /\ plan <= 17 /\ count \in Nat /\ count <= plan /\ last \in {1, 2}
    BY <1>2, <2>1, <2>2
  <2> QED
    BY <1>1, <1>3, <2>3, <2>4
<1> QED
  BY <1>1, <1>3, <1>4, <1>5

LEMMA StepsLeftIsNumber ==
    ASSUME TypeOK, NEW e \in Executions
    PROVE  StepsLeft(e) \in 0..45
<1>1. PICK all \in Nat : all = AllWork /\ all <= 36
  BY CountsAreNumbers
<1>2. PICK work \in Nat : work = WorkLeft(e) /\ work <= 36
  BY CountsAreNumbers
<1>3. PICK held \in {0, 1} : held = Holding(e)
  BY CountsAreNumbers
<1>4. StepsLeft(e) \in {all + 9, all + 8, all + 7 - held, work + 5, 5, 4, 3, 2 - held, 0}
  BY <1>1, <1>2, <1>3 DEF StepsLeft
<1> QED
  BY <1>1, <1>2, <1>3, <1>4

(* Where each execution begins.                                            *)
LEMMA StartsAreKept ==
    ASSUME TypeOK, Next, NEW e \in Executions, AtTheStart(e)
    PROVE  AtTheStart(e)'
<1>1. pc[e] \in {"idle", "claimed", "starting", "working", "closing", "publishing",
                 "announcing", "ended", "dead"} /\ pc = [d \in Executions |-> pc[d]]
  BY DEF TypeOK, RowTypeOK
<1>2. CASE ~Process(e)
  BY <1>2, OthersKeepMine DEF Mine, AtTheStart
<1>3. CASE Process(e) /\ Execute(e)
  <2>1. pc[e] = "working"
    BY <1>3 DEF Execute, Research, Analyze
  <2>2. pc'[e] \in {"working", "closing"}
    BY <1>1, <1>3, <2>1
       DEF Execute, Research, CheckCancelled, PhaseRaises, BeginEvent, EndEvent, PersistReport,
           Raises, Analyze, RejectPayload, CreateRun, SkipStep, BeginStep, EndStep, StepRaises,
           FailRun, WriteFails, SucceedRun, Returns, Goes, execVars
  <2> QED
    BY <2>2 DEF AtTheStart
<1>4. CASE Process(e) /\ ~Execute(e)
  <2>1. UNCHANGED at
    BY <1>4 DEF Process, Claim, MarkRunRunning, MarkTaskSucceeded, MarkRunSucceeded,
                MarkRunFailed, Announce, Crash, agent
  <2>2. pc'[e] \in {"idle", "claimed", "starting"} => pc[e] \in {"idle", "claimed", "starting"}
    BY <1>1, <1>4 DEF Process, Claim, MarkRunRunning, MarkTaskSucceeded, MarkRunSucceeded,
                      MarkRunFailed, Announce, GoesOn, Crash, Returns, Goes
  <2> QED
    BY <2>1, <2>2 DEF AtTheStart
<1> QED
  BY <1>2, <1>3, <1>4

(* An event is numbered once and then stored or lost.                      *)
LEMMA HeldOnce ==
    ASSUME TypeOK, Numbered, NEW e \in Executions
    PROVE  /\ Allocate(e) => Holding(e) = 0 /\ Holding(e)' = 1
           /\ Recorded(e) => Holding(e) = 1 /\ Holding(e)' = 0
<1>1. e \in Writers /\ number \in [Writers -> Nat] /\ taken \subseteq Nat
  BY DEF Writers, TypeOK, TimelineTypeOK
<1>2. ASSUME Allocate(e) PROVE Holding(e) = 0 /\ Holding(e)' = 1
  <2>1. number[e] = 0 /\ number'[e] = Latest + 1
    BY <1>1, <1>2 DEF Allocate
  <2>2. Latest + 1 # 0
    BY LatestIsLast DEF TypeOK, TimelineTypeOK, Numbered
  <2> QED
    BY <2>1, <2>2 DEF Holding
<1>3. ASSUME Recorded(e) PROVE Holding(e) = 1 /\ Holding(e)' = 0
  <2>1. number[e] # 0 /\ number'[e] = 0
    BY <1>1, <1>3 DEF Recorded, Insert, Abandon
  <2> QED
    BY <2>1 DEF Holding
<1> QED
  BY <1>2, <1>3

(* Steps around the handler bring an execution nearer to its end,          *)
LEMMA WorkerDescends ==
    ASSUME IInv, Next, NEW e \in Executions, AtTheStart(e), Process(e), ~Execute(e)
    PROVE  StepsLeft(e)' < StepsLeft(e)
<1>1. /\ UNCHANGED <<request, at, own, steps>>
      /\ StepPlan' = StepPlan
  BY DEF Process, Claim, MarkRunRunning, MarkTaskSucceeded, MarkRunSucceeded, MarkRunFailed,
         Announce, Crash, agent, workflow, StepPlan
<1>2. AllWork' = AllWork /\ AllWork \in Nat
  BY <1>1, CountsAreNumbers DEF IInv, AllWork
<1>3. PICK held \in {0, 1} : held = Holding(e)
  BY DEF Holding
<1>4. pc \in [Executions -> {"idle", "claimed", "starting", "working", "closing", "publishing",
                             "announcing", "ended", "dead"}]
      /\ result \in [Executions -> {"none", "succeeded", "failed", "retry"}]
  BY DEF IInv, TypeOK, RowTypeOK
<1>5. CASE Claim(e)
  <2>1. pc[e] = "idle" /\ pc'[e] = "claimed"
    BY <1>4, <1>5 DEF Claim, Goes
  <2>2. StepsLeft(e) = AllWork + 9 /\ StepsLeft(e)' = AllWork + 8
    BY <1>2, <2>1 DEF StepsLeft
  <2> QED
    BY <1>2, <2>2
<1>6. CASE MarkRunRunning(e)
  <2>1. pc[e] = "claimed" /\ pc'[e] = "starting"
    BY <1>4, <1>6 DEF MarkRunRunning, Goes
  <2>2. Holding(e)' \in {0, 1}
    BY DEF Holding
  <2>3. StepsLeft(e) = AllWork + 8 /\ StepsLeft(e)' = AllWork + 7 - Holding(e)'
    BY <1>2, <2>1 DEF StepsLeft
  <2> QED
    BY <1>2, <2>2, <2>3
<1>7. CASE MarkTaskSucceeded(e)
  <2>1. StepsLeft(e) = 5
    BY <1>7 DEF MarkTaskSucceeded, StepsLeft
  <2>2. \/ pc'[e] = "publishing"
        \/ pc'[e] = "closing" /\ result'[e] = "retry"
    BY <1>4, <1>7 DEF MarkTaskSucceeded, Returns, Goes
  <2>3. StepsLeft(e)' \in {3, 4}
    BY <2>2 DEF StepsLeft
  <2> QED
    BY <2>1, <2>3
<1>8. CASE MarkRunSucceeded(e)
  <2>1. StepsLeft(e) = 4
    BY <1>8 DEF MarkRunSucceeded, StepsLeft
  <2>2. \/ pc'[e] = "announcing"
        \/ pc'[e] = "closing" /\ result'[e] = "retry"
    BY <1>4, <1>8 DEF MarkRunSucceeded, Returns, Goes
  <2>3. Holding(e)' \in {0, 1}
    BY DEF Holding
  <2>4. StepsLeft(e)' \in {3, 2 - Holding(e)'}
    BY <2>2 DEF StepsLeft
  <2> QED
    BY <2>1, <2>3, <2>4
<1>9. CASE MarkRunFailed(e)
  <2>1. StepsLeft(e) = 3
    BY <1>9 DEF MarkRunFailed, StepsLeft
  <2>2. pc'[e] = "announcing"
    BY <1>4, <1>9 DEF MarkRunFailed, Goes
  <2>3. Holding(e)' \in {0, 1}
    BY DEF Holding
  <2>4. StepsLeft(e)' = 2 - Holding(e)'
    BY <2>2 DEF StepsLeft
  <2> QED
    BY <2>1, <2>3, <2>4
<1>10. CASE Announce(e)
  <2>1. CASE Allocate(e) /\ UNCHANGED pc
    <3>1. held = 0 /\ Holding(e)' = 1
      BY <1>3, <2>1, HeldOnce DEF IInv
    <3>2. CASE pc[e] = "starting"
      <4>1. StepsLeft(e) = AllWork + 7 - held /\ StepsLeft(e)' = AllWork + 7 - 1
        BY <1>2, <1>3, <2>1, <3>1, <3>2 DEF StepsLeft
      <4> QED
        BY <1>2, <3>1, <4>1
    <3>3. CASE pc[e] = "announcing"
      <4>1. StepsLeft(e) = 2 - held /\ StepsLeft(e)' = 2 - 1
        BY <1>3, <2>1, <3>1, <3>3 DEF StepsLeft
      <4> QED
        BY <3>1, <4>1
    <3> QED
      BY <1>10, <3>2, <3>3 DEF Announce
  <2>2. CASE GoesOn(e)
    <3>1. CASE pc[e] = "starting"
      <4>1. pc'[e] = "working"
        BY <1>4, <2>2, <3>1 DEF GoesOn, Goes
      <4>2. own[e] = "none"
        BY <3>1 DEF IInv, Told, Staged
      <4>3. at[e] = 1
        BY <3>1 DEF AtTheStart
      <4>4. Holding(e)' = 0
        <5>1. CASE Recorded(e)
          BY <5>1, HeldOnce DEF IInv
        <5>2. CASE number[e] = 0 /\ UNCHANGED timeline
          BY <5>2 DEF timeline, Holding
        <5>3. ~(Allocate(e) /\ UNCHANGED pc)
          BY <3>1, <4>1
        <5> QED
          BY <1>10, <5>1, <5>2, <5>3 DEF Announce
      <4>5. WorkLeft(e)' = AllWork
        BY <1>1, <4>2, <4>3, <4>4, PipelineEnds DEF WorkLeft, AllWork
      <4>6. StepsLeft(e)' = AllWork + 5 /\ StepsLeft(e) = AllWork + 7 - held
        BY <1>3, <3>1, <4>1, <4>5 DEF StepsLeft
      <4> QED
        BY <1>2, <1>3, <4>6
    <3>2. CASE pc[e] = "announcing"
      <4>1. StepsLeft(e) = 2 - held
        BY <1>3, <3>2 DEF StepsLeft
      <4>2. pc'[e] = "ended"
        BY <1>4, <2>2, <3>2 DEF GoesOn, Goes
      <4>3. StepsLeft(e)' = 0
        BY <4>2 DEF StepsLeft
      <4> QED
        BY <1>3, <4>1, <4>3
    <3> QED
      BY <1>10, <3>1, <3>2 DEF Announce
  <2> QED
    BY <1>10, <2>1, <2>2 DEF Announce
<1>11. CASE Crash(e)
  <2>1. pc'[e] = "dead" /\ pc[e] \notin {"idle", "ended", "dead"}
    BY <1>4, <1>11 DEF Crash, Goes
  <2>2. StepsLeft(e)' = 0
    BY <2>1 DEF StepsLeft
  <2>3. pc[e] \in {"claimed", "starting", "working", "closing", "publishing", "announcing"}
    BY <1>4, <2>1
  <2>4. WorkLeft(e) \in Nat
    BY CountsAreNumbers DEF IInv
  <2>5. StepsLeft(e) \in {AllWork + 8, AllWork + 7 - held, WorkLeft(e) + 5, 5, 4, 3, 2 - held}
    BY <1>3, <2>3 DEF StepsLeft
  <2> QED
    BY <1>2, <1>3, <2>2, <2>4, <2>5
<1> QED
  BY <1>5, <1>6, <1>7, <1>8, <1>9, <1>10, <1>11 DEF Process

(* and so do those of the agent,                                           *)
LEMMA AgentDescends ==
    ASSUME IInv, IInv', NEW e \in Executions, request = "agent", Research(e),
           UNCHANGED workflow
    PROVE  StepsLeft(e)' < StepsLeft(e)
<1>1. request' = "agent"
  BY DEF workflow
<1>2. PICK k \in 1..13 : k = at[e]
  BY PipelineEnds DEF IInv, TypeOK, AgentTypeOK
<1>3. PICK held \in {0, 1} : held = Holding(e)
  BY DEF Holding
<1>4. pc[e] = "working" /\ StepsLeft(e) = 2 * (13 - k) + 2 - held + 5
  BY <1>2, <1>3, PipelineEnds DEF Research, StepsLeft, WorkLeft
<1>5. /\ pc = [d \in Executions |-> pc[d]] /\ result = [d \in Executions |-> result[d]]
      /\ at = [d \in Executions |-> at[d]]
  BY DEF IInv, TypeOK, RowTypeOK, AgentTypeOK
<1>6. CASE pc'[e] = "closing"
  <2>1. StepsLeft(e)' \in {3, 5}
    BY <1>6 DEF StepsLeft
  <2> QED
    BY <1>2, <1>3, <1>4, <2>1
<1>7. CASE UNCHANGED <<pc, at>> /\ Allocate(e)
  <2>1. held = 0 /\ Holding(e)' = 1
    BY <1>3, <1>7, HeldOnce DEF IInv
  <2>2. StepsLeft(e)' = 2 * (13 - k) + 2 - 1 + 5
    BY <1>1, <1>2, <1>4, <1>7, <2>1, PipelineEnds DEF StepsLeft, WorkLeft
  <2> QED
    BY <1>2, <1>4, <2>1, <2>2
<1>8. CASE UNCHANGED pc /\ Advance(e)
  <2>1. at'[e] = k + 1
    BY <1>2, <1>5, <1>8 DEF Advance
  <2>2. PICK kept \in {0, 1} : kept = Holding(e)'
    BY DEF Holding
  <2>3. StepsLeft(e)' = 2 * (13 - (k + 1)) + 2 - kept + 5
    BY <1>1, <1>4, <1>8, <2>1, <2>2, PipelineEnds DEF StepsLeft, WorkLeft
  <2>4. k + 1 <= 13
    BY <2>1, PipelineEnds DEF IInv, TypeOK, AgentTypeOK
  <2> QED
    BY <1>2, <1>3, <1>4, <2>2, <2>3, <2>4
<1> QED
  <2>1. CheckCancelled(e) \/ PhaseRaises(e) \/ BeginEvent(e) \/ EndEvent(e) \/ PersistReport(e)
    BY DEF Research
  <2>2. CheckCancelled(e) => pc'[e] = "closing" \/ (UNCHANGED pc /\ Advance(e))
    BY <1>5 DEF CheckCancelled, Raises, Returns, Goes, execVars
  <2>3. PhaseRaises(e) \/ PersistReport(e) => pc'[e] = "closing"
    BY <1>5 DEF PhaseRaises, PersistReport, Raises, Returns, Goes
  <2>4. BeginEvent(e) => UNCHANGED <<pc, at>> /\ Allocate(e)
    BY DEF BeginEvent, execVars, agent
  <2>5. EndEvent(e) => UNCHANGED pc /\ Advance(e)
    BY DEF EndEvent, execVars
  <2> QED
    BY <1>6, <1>7, <1>8, <2>1, <2>2, <2>3, <2>4, <2>5

(* and those of the workflow.                                              *)
LEMMA WorkflowDescends ==
    ASSUME IInv, NEW e \in Executions, request # "agent", Analyze(e)
    PROVE  StepsLeft(e)' < StepsLeft(e)
<1>1. request' = request /\ StepPlan' = StepPlan
  BY DEF Analyze, RejectPayload, CreateRun, SkipStep, BeginStep, EndStep, StepRaises, FailRun,
         WriteFails, SucceedRun, StepPlan
<1>2. PICK plan \in Nat : plan = Len(StepPlan)
  BY PlanIsFinite
<1>3. steps[e] \in Seq(StepStatus) /\ Len(steps[e]) <= plan
  BY <1>2 DEF IInv, TypeOK, WorkflowTypeOK
<1>4. PICK count \in Nat : count = Len(steps[e]) /\ count <= plan
  BY <1>3
<1>5. pc[e] = "working" /\ StepsLeft(e) = WorkLeft(e) + 5
  BY DEF Analyze, StepsLeft
<1>6. /\ pc = [d \in Executions |-> pc[d]] /\ result = [d \in Executions |-> result[d]]
      /\ own = [d \in Executions |-> own[d]] /\ steps = [d \in Executions |-> steps[d]]
  BY DEF IInv, TypeOK, RowTypeOK, WorkflowTypeOK
<1>7. Staged(e)
  BY DEF IInv, Told
<1>8. CASE pc'[e] = "closing"
  <2>1. StepsLeft(e)' \in {3, 5}
    BY <1>8 DEF StepsLeft
  <2>2. WorkLeft(e) \in Nat /\ WorkLeft(e) >= 1
    BY CountsAreNumbers DEF IInv
  <2> QED
    BY <1>5, <2>1, <2>2
<1>9. CASE CreateRun(e) /\ pc' = pc
  <2>1. own[e] = "none" /\ steps' = steps /\ steps[e] = <<>>
    BY <1>7, <1>9 DEF CreateRun, Staged
  <2>2. own'[e] = "running"
    BY <1>5, <1>6, <1>9 DEF CreateRun, OwnRun, Returns, Goes
  <2>3. WorkLeft(e) = 2 * plan + 2
    BY <1>2, <2>1 DEF WorkLeft
  <2>4. ~InStep(e)' /\ Len(steps'[e]) = 0
    BY <2>1 DEF InStep
  <2>5. WorkLeft(e)' = 2 * (plan - 0) + 1
    BY <1>1, <1>2, <2>2, <2>4 DEF WorkLeft
  <2>6. StepsLeft(e)' = WorkLeft(e)' + 5
    BY <1>5, <1>9 DEF StepsLeft
  <2> QED
    BY <1>5, <2>3, <2>5, <2>6
<1>10. CASE SkipStep(e) \/ BeginStep(e)
  <2>1. own[e] = "running" /\ ~InStep(e) /\ own' = own /\ pc' = pc
    BY <1>10 DEF SkipStep, BeginStep, execVars
  <2>2. WorkLeft(e) = 2 * (plan - count) + 1
    BY <1>2, <1>4, <2>1 DEF WorkLeft
  <2>3. PICK status \in StepStatus : steps'[e] = Append(steps[e], status)
    BY <1>6, <1>10 DEF SkipStep, BeginStep, Adds, StepStatus
  <2>4. Len(steps'[e]) = count + 1
    BY <1>3, <1>4, <2>3
  <2>5. PICK last \in {1, 2} : last = IF InStep(e)' THEN 2 ELSE 1
    OBVIOUS
  <2>6. WorkLeft(e)' = 2 * (plan - (count + 1)) + last
    BY <1>1, <1>2, <2>1, <2>4, <2>5 DEF WorkLeft
  <2>7. StepsLeft(e)' = WorkLeft(e)' + 5
    BY <1>5, <2>1 DEF StepsLeft
  <2>8. last \in {1, 2}
    BY <2>5
  <2> QED
    BY <1>4, <1>5, <2>2, <2>6, <2>7, <2>8
<1>11. CASE EndStep(e) \/ StepRaises(e)
  <2>1. InStep(e) /\ own' = own /\ pc' = pc
    BY <1>11 DEF EndStep, StepRaises, execVars
  <2>2. own[e] # "none" /\ steps[e] # <<>>
    BY <1>7, <2>1 DEF Staged, InStep
  <2>3. WorkLeft(e) = 2 * (plan - count) + 2
    BY <1>2, <1>4, <2>1, <2>2 DEF WorkLeft
  <2>4. PICK status \in {"succeeded", "failed"} :
           steps'[e] = [steps[e] EXCEPT ![Len(steps[e])] = status]
    BY <1>6, <1>11 DEF EndStep, StepRaises, Ends
  <2>5. Len(steps'[e]) = count /\ steps'[e][Len(steps'[e])] = status
    BY <1>3, <1>4, <2>2, <2>4, OutcomeReplaces DEF StepStatus
  <2>6. ~InStep(e)'
    BY <2>4, <2>5 DEF InStep
  <2>7. WorkLeft(e)' = 2 * (plan - count) + 1
    BY <1>1, <1>2, <2>1, <2>2, <2>5, <2>6 DEF WorkLeft
  <2>8. StepsLeft(e)' = WorkLeft(e)' + 5
    BY <1>5, <2>1 DEF StepsLeft
  <2> QED
    BY <1>4, <1>5, <2>3, <2>7, <2>8
<1> QED
  <2>1. CreateRun(e) => pc' = pc \/ pc'[e] = "closing"
    BY <1>6 DEF CreateRun, Returns, Goes, execVars
  <2>2. RejectPayload(e) \/ FailRun(e) \/ WriteFails(e) \/ SucceedRun(e) =>
           pc'[e] = "closing"
    BY <1>6 DEF RejectPayload, FailRun, WriteFails, SucceedRun, Returns, Goes
  <2> QED
    BY <1>8, <1>9, <1>10, <1>11, <2>1, <2>2 DEF Analyze

(* Every step of an execution brings it nearer to its end, from at most    *)
(* forty-five, and no other execution or request adds to what is left of   *)
(* it.  Handlers do not loop, events are not repeated when their number is *)
(* taken, and a failure is handled once more at most.                      *)
THEOREM EveryExecutionIsShort ==
    Spec => [][\A e \in Executions :
                  /\ StepsLeft(e) \in 0..45
                  /\ Process(e) => StepsLeft(e)' < StepsLeft(e)
                  /\ ~Process(e) => StepsLeft(e)' = StepsLeft(e)]_vars
<1> DEFINE Starts == \A e \in Executions : AtTheStart(e)
<1>1. Init => Starts
  BY DEF Init, InitAgent, AtTheStart
<1>2. IInv /\ Starts /\ [Next]_vars => Starts'
  <2>1. CASE Next
    BY <2>1, StartsAreKept DEF IInv
  <2>2. CASE UNCHANGED vars
    BY <2>2 DEF vars, execVars, agent, AtTheStart
  <2> QED
    BY <2>1, <2>2
<1>3. ASSUME IInv, IInv', Starts, Next, NEW e \in Executions
      PROVE  /\ StepsLeft(e) \in 0..45
             /\ Process(e) => StepsLeft(e)' < StepsLeft(e)
             /\ ~Process(e) => StepsLeft(e)' = StepsLeft(e)
  <2>1. StepsLeft(e) \in 0..45
    BY <1>3, StepsLeftIsNumber DEF IInv
  <2>2. ASSUME Process(e) PROVE StepsLeft(e)' < StepsLeft(e)
    <3>1. CASE ~Execute(e)
      BY <1>3, <2>2, <3>1, WorkerDescends
    <3>2. CASE Execute(e)
      BY <1>3, <3>2, AgentDescends, WorkflowDescends DEF Execute
    <3> QED
      BY <3>1, <3>2
  <2>3. ASSUME ~Process(e) PROVE StepsLeft(e)' = StepsLeft(e)
    <3>1. UNCHANGED Mine(e)
      BY <1>3, <2>3, OthersKeepMine DEF IInv
    <3>2. request' = request /\ StepPlan' = StepPlan
      <4>1. UNCHANGED workflow \/ \E d \in Executions : Analyze(d)
        BY <1>3, WorkflowMoves
      <4>2. request' = request
        BY <4>1 DEF workflow, Analyze, RejectPayload, CreateRun, SkipStep, BeginStep, EndStep,
                    StepRaises, FailRun, WriteFails, SucceedRun
      <4> QED
        BY <4>2 DEF StepPlan
    <3> QED
      BY <3>1, <3>2 DEF Mine, StepsLeft, WorkLeft, AllWork, Holding, InStep
  <2> QED
    BY <2>1, <2>2, <2>3
<1>4. IInv /\ IInv' /\ Starts /\ [Next]_vars =>
         [\A e \in Executions :
             /\ StepsLeft(e) \in 0..45
             /\ Process(e) => StepsLeft(e)' < StepsLeft(e)
             /\ ~Process(e) => StepsLeft(e)' = StepsLeft(e)]_vars
  BY <1>3
<1> QED
  BY <1>1, <1>2, <1>4, IInvHolds, PTL DEF Spec

-----------------------------------------------------------------------------
(* The lock on the run.                                                    *)

(* Where the next step of a writer stores its event, or loses it, and with *)
(* either gives the row of the run back.                                   *)
WillRecord(w) ==
    \/ w = Creator /\ creator = "recording"
    \/ w = Canceller /\ canceller \in {"requesting", "queuedSeen", "closing"}
    \/ /\ w \in Executions
       /\ \/ pc[w] \in {"starting", "announcing"}
          \/ pc[w] = "working" /\ request = "agent" /\ Emits(w)

LockIsReleased == \A w \in Writers : number[w] # 0 => WillRecord(w)

(* Clients keep their numbers, but for their own steps.                    *)
LEMMA ClientsKeepTheirs ==
    ASSUME TypeOK, Next
    PROVE  /\ ~Create => number'[Creator] = number[Creator] /\ creator' = creator
           /\ ~Cancel => number'[Canceller] = number[Canceller] /\ canceller' = canceller
<1> USE TimelineAssumption DEF TypeOK, TimelineTypeOK, Writers
<1>1. CASE Create
  BY <1>1 DEF Create, Allocate, Recorded, Insert, Abandon
<1>2. CASE Cancel
  BY <1>2 DEF Cancel, AskToStop, SeesQueued, CancelRecords, CancelQueued, Allocate, Recorded,
              Insert, Abandon, timeline
<1>3. ASSUME NEW d \in Executions, Process(d)
      PROVE  UNCHANGED <<number[Creator], number[Canceller], creator, canceller>>
  <2>1. UNCHANGED <<number[Creator], number[Canceller]>>
    BY <1>3, OwnNumber
  <2>2. UNCHANGED clients
    BY <1>3 DEF Process, Claim, MarkRunRunning, Execute, MarkTaskSucceeded, MarkRunSucceeded,
                MarkRunFailed, Announce, Crash
  <2> QED
    BY <2>1, <2>2 DEF clients
<1> QED
  BY <1>1, <1>2, <1>3 DEF Next

(* An execution that holds a number does nothing before it is stored.      *)
LEMMA HoldersRecordFirst ==
    ASSUME TypeOK, Numbered, NEW e \in Executions, Process(e),
           number[e] # 0 => WillRecord(e), number'[e] # 0
    PROVE  WillRecord(e)'
<1>1. /\ pc = [d \in Executions |-> pc[d]] /\ number \in [Writers -> Nat]
      /\ e \in Writers /\ e # Creator /\ e # Canceller
  BY TimelineAssumption DEF TypeOK, RowTypeOK, TimelineTypeOK, Writers
<1>2. ~Recorded(e) /\ ~Abandon(e)
  BY <1>1 DEF Recorded, Insert, Abandon
<1>3. CASE request = "agent" /\ Research(e) /\ UNCHANGED <<workflow, clients>>
  <2>1. pc[e] = "working" /\ request' = request
    BY <1>3 DEF Research, workflow
  <2>2. CASE BeginEvent(e)
    BY <1>3, <2>1, <2>2 DEF BeginEvent, execVars, agent, WillRecord, Emits, Op
  <2>3. ~EndEvent(e)
    BY <1>2 DEF EndEvent
  <2>4. CASE CheckCancelled(e) \/ PhaseRaises(e) \/ PersistReport(e)
    <3>1. number'[e] = number[e]
      BY <2>4 DEF CheckCancelled, PhaseRaises, PersistReport, timeline
    <3>2. Emits(e)
      BY <1>1, <2>1, <3>1 DEF WillRecord
    <3> QED
      BY <2>4, <3>1, <3>2 DEF CheckCancelled, PhaseRaises, PersistReport, Emits
  <2> QED
    BY <1>3, <2>2, <2>3, <2>4 DEF Research
<1>4. CASE request # "agent" /\ Analyze(e) /\ UNCHANGED <<timeline, agent, clients>>
  <2>1. number'[e] = number[e] /\ pc[e] = "working"
    BY <1>4 DEF timeline, Analyze
  <2> QED
    BY <1>1, <1>4, <2>1 DEF WillRecord
<1>5. CASE Announce(e)
  BY <1>1, <1>2, <1>5 DEF Announce, timeline, WillRecord
<1>6. CASE Claim(e) \/ MarkRunRunning(e) \/ MarkTaskSucceeded(e) \/ MarkRunSucceeded(e)
           \/ MarkRunFailed(e)
  <2>1. number'[e] = number[e]
    BY <1>6 DEF Claim, MarkRunRunning, MarkTaskSucceeded, MarkRunSucceeded, MarkRunFailed,
                timeline
  <2>2. pc[e] \in {"idle", "claimed", "closing", "publishing"}
    BY <1>6 DEF Claim, MarkRunRunning, MarkTaskSucceeded, MarkRunSucceeded, MarkRunFailed
  <2> QED
    BY <1>1, <2>1, <2>2 DEF WillRecord
<1>7. ~Crash(e)
  BY <1>2 DEF Crash
<1> QED
  BY <1>3, <1>4, <1>5, <1>6, <1>7 DEF Process, Execute

(* Whoever has numbered an event, and on PostgreSQL holds the lock on the  *)
(* run that updates of its status, cancellations and all other events wait *)
(* for, stores it next or dies: nobody keeps the lock across a phase of    *)
(* work, and by TimelineStaysWhole nobody else has it.                     *)
THEOREM LockGetsReleased == Spec => []LockIsReleased
<1>1. Init => LockIsReleased
  BY DEF Init, InitTimeline, LockIsReleased
<1>2. ASSUME IInv, LockIsReleased, [Next]_vars PROVE LockIsReleased'
  <2>1. CASE UNCHANGED vars
    BY <1>2, <2>1 DEF vars, execVars, timeline, agent, workflow, clients, LockIsReleased,
                      WillRecord, Emits, Op
  <2>2. CASE Next
    <3>1. ASSUME NEW e \in Executions, number'[e] # 0 PROVE WillRecord(e)'
      <4>1. CASE Process(e)
        BY <1>2, <3>1, <4>1, HoldersRecordFirst DEF IInv, LockIsReleased, Writers
      <4>2. CASE ~Process(e)
        <5>1. UNCHANGED Mine(e)
          BY <1>2, <2>2, <4>2, OthersKeepMine DEF IInv
        <5>2. request' = request
          <6>1. UNCHANGED workflow \/ \E d \in Executions : Analyze(d)
            BY <1>2, WorkflowMoves
          <6> QED
            BY <6>1 DEF workflow, Analyze, RejectPayload, CreateRun, SkipStep, BeginStep,
                        EndStep, StepRaises, FailRun, WriteFails, SucceedRun
        <5>3. e \in Writers /\ e # Creator /\ e # Canceller
          BY TimelineAssumption DEF Writers
        <5>4. WillRecord(e)
          BY <1>2, <3>1, <5>1, <5>3 DEF Mine, LockIsReleased
        <5> QED
          BY <5>1, <5>2, <5>3, <5>4 DEF Mine, WillRecord, Emits, Op
      <4> QED
        BY <4>1, <4>2
    <3>2. ASSUME number'[Creator] # 0 PROVE WillRecord(Creator)'
      <4>1. CASE Create
        BY <1>2, <3>2, <4>1 DEF Create, Recorded, Insert, Abandon, WillRecord, IInv, TypeOK,
                                TimelineTypeOK, Writers
      <4>2. CASE ~Create
        BY <1>2, <2>2, <3>2, <4>2, ClientsKeepTheirs, TimelineAssumption
           DEF IInv, LockIsReleased, WillRecord, Writers
      <4> QED
        BY <4>1, <4>2
    <3>3. ASSUME number'[Canceller] # 0 PROVE WillRecord(Canceller)'
      <4>1. CASE Cancel
        <5>1. number \in [Writers -> Nat] /\ Canceller \in Writers
          BY <1>2 DEF IInv, TypeOK, TimelineTypeOK, Writers
        <5>2. CASE CancelRecords
          BY <3>3, <5>1, <5>2 DEF CancelRecords, Recorded, Insert, Abandon, WillRecord
        <5>3. CASE AskToStop \/ SeesQueued \/ CancelQueued
          <6>1. number'[Canceller] = number[Canceller]
            BY <5>3 DEF AskToStop, SeesQueued, CancelQueued, timeline
          <6>2. canceller \in {"idle", "cancelling"}
            BY <5>3 DEF AskToStop, SeesQueued, CancelQueued
          <6> QED
            BY <1>2, <3>3, <5>1, <6>1, <6>2, TimelineAssumption DEF LockIsReleased, WillRecord
        <5> QED
          BY <4>1, <5>2, <5>3 DEF Cancel
      <4>2. CASE ~Cancel
        BY <1>2, <2>2, <3>3, <4>2, ClientsKeepTheirs, TimelineAssumption
           DEF IInv, LockIsReleased, WillRecord, Writers
      <4> QED
        BY <4>1, <4>2
    <3> QED
      BY <3>1, <3>2, <3>3 DEF LockIsReleased, Writers
  <2> QED
    BY <1>2, <2>1, <2>2
<1> QED
  BY <1>1, <1>2, IInvHolds, PTL DEF Spec

(* A client that polls with the last number it has seen misses nothing:    *)
(* events are never taken back, and each is numbered behind all that were  *)
(* there when it came, whoever writes at the same time.                    *)
THEOREM EventsComeInOrder ==
    Spec => [][/\ taken \subseteq taken'
               /\ \A n \in taken' \ taken : \A m \in taken : m < n]_vars
<1>1. ASSUME IInv, IInv', [Next]_vars
      PROVE  /\ taken \subseteq taken'
             /\ \A n \in taken' \ taken : \A m \in taken : m < n
  <2>1. taken \subseteq taken'
    BY <1>1, TimelineMoves DEF timeline, Moves, Allocate, Insert, Abandon
  <2>2. rows \in Nat /\ rows' \in Nat /\ taken = 1..rows /\ taken' = 1..rows'
    BY <1>1 DEF IInv, TypeOK, TimelineTypeOK, Numbered
  <2> QED
    BY <2>1, <2>2
<1>2. IInv /\ IInv' /\ [Next]_vars =>
         [/\ taken \subseteq taken'
          /\ \A n \in taken' \ taken : \A m \in taken : m < n]_vars
  BY <1>1
<1> QED
  BY <1>2, IInvHolds, PTL DEF Spec
=============================================================================
