------------------------ MODULE ResearchGraphProofs ------------------------
(***************************************************************************)
(* Theorems about ResearchGraph for every number of invocations, loop      *)
(* counts, strategies, reviewer actions, resumes and accidents.  IInv says *)
(* what any state of the graph is like that a node, a reviewer or a        *)
(* checkpoint can leave (Sound); that an invocation which plans again has  *)
(* rounds left (Right); as long as nothing is torn (no overlapping         *)
(* invocations, no lost and no deleted checkpoint), how the state of the   *)
(* one invocation continues the latest checkpoint (Calm); and without any  *)
(* accident, that the run finds the one report it has (ReportKnown).  The  *)
(* loop counter also bounds the steps an invocation has left (StepsLeft).  *)
(***************************************************************************)
EXTENDS ResearchGraph, TLAPS

(* Any state of the graph, in a checkpoint or in an invocation.            *)
Sound(st) ==
    /\ st.node = "none" => ~st.error
    /\ st.final => st.node = "finalize_report" /\ ~st.error
    /\ st.node = "finalize_report" => st.verdict # "none"
    /\ st.review \in {"pending", "reject", "override_p0"} =>
          st.node = "human_review" /\ ~st.error
    /\ st.review = "approve" => st.node \in {"human_review", "finalize_report"}
    /\ st.node = "human_review" /\ st.review = "approve" => st.verdict # "none"
    /\ st.node = "chief_gate" /\ ~st.error =>
          /\ st.decision \in {"PASS", "ADD_EVIDENCE", "HUMAN_REVIEW"}
          /\ st.decision = "PASS" => st.verdict # "none"
    /\ st.node = "chief_gate" /\ st.error => st.decision = "FAILED"

(* What an invocation leaves open of its search tasks.                     *)
AllClosed(st) ==
    /\ "planned" \notin st.tasks
    /\ "suspended" \in st.tasks => st.review = "pending"

(* An invocation: the loop counter keeps ahead of the rounds, so a node    *)
(* that plans again has rounds left, and tasks are open as far as the      *)
(* invocation has not come to its end.                                     *)
Right(st, step, round) ==
    /\ Sound(st)
    /\ round <= st.loop + 1 /\ round <= st.max + 1
    /\ step = "node" => NextNode(st) # "end"
    /\ (step = "node" \/ (step = "saving" /\ ~st.error)) /\ NextNode(st) = "plan_task" =>
          round <= st.loop /\ round <= st.max
    /\ step \in {"node", "saving", "closing"} => "suspended" \notin st.tasks
    /\ step \in {"savingLast", "reporting", "finishing"} => AllClosed(st)

InvocationsAreRight == \A i \in Invocations : Right(state[i], pc[i], rounds[i])

CheckpointsAreSound == Sound(saved) /\ Sound(snapshot)

(* Only a run that has begun has invocations and checkpoints.              *)
RunHasBegun ==
    run.status = "none" =>
        Active = {} /\ saved = NoCheckpoint /\ snapshot = NoCheckpoint

(* A state that was loaded from a checkpoint, with the reviewer's action.  *)
Loaded(st, from) ==
    /\ st.node = from.node /\ st.error = from.error /\ st.final = from.final
    /\ \/ /\ st.review = from.review /\ st.decision = from.decision
          /\ st.verdict = from.verdict
       \/ from.review = "pending"

Follows(old, new) ==
    \/ new = old
    \/ old = "drafting" /\ new \in {"cleared", "review"}
    \/ old = "review" /\ new \in {"drafting", "cleared", "rejected"}
    \/ old \in {"cleared", "review"} /\ new = "reported"

(* How an invocation continues the latest checkpoint.                      *)
Continues(st, step) ==
    /\ step = "node" => Loaded(st, saved)
    /\ step \in {"saving", "closing", "savingLast"} => Follows(Stage(saved), Stage(st))
    /\ step \in {"reporting", "finishing"} => st = saved

Calm ==
    /\ \A i, j \in Active : i = j
    /\ \A i \in Invocations : Continues(state[i], pc[i])

NothingTorn == mishaps \cap Torn = {}

(* The report of the run, as long as there was no accident of any kind.    *)
ReportKnown ==
    /\ reports <= 1
    /\ reports = 1 =>
          /\ saved.final
          /\ run.report # 0 \/ \E i \in Invocations : pc[i] = "finishing" /\ report[i] # 0
          /\ \A i \in Active :
                /\ state[i].final /\ pc[i] \in {"closing", "savingLast", "reporting", "finishing"}
                /\ pc[i] = "finishing" => report[i] # 0

IInv ==
    /\ TypeOK
    /\ InvocationsAreRight
    /\ CheckpointsAreSound
    /\ RunHasBegun
    /\ NothingTorn => Calm
    /\ mishaps = {} => ReportKnown

Steps == {"idle", "node", "saving", "closing", "savingLast", "reporting", "finishing"}

USE GraphAssumption

-----------------------------------------------------------------------------
(* Routing.                                                                *)

LEMMA PipelineOrder ==
    ASSUME NEW st, ~st.error
    PROVE  /\ st.node = "plan_task" => NextNode(st) = "build_evidence"
           /\ st.node = "build_evidence" => NextNode(st) = "editor1_draft"
           /\ st.node = "editor1_draft" => NextNode(st) = "chief_gate"
<1> DEFINE Place(node) == CHOOSE k \in 1..Len(Pipeline) : Pipeline[k] = node
<1>1. Len(Pipeline) = 4 /\ 1..Len(Pipeline) = {1, 2, 3, 4}
  BY DEF Pipeline
<1>2. /\ Pipeline[1] = "plan_task" /\ Pipeline[2] = "build_evidence"
      /\ Pipeline[3] = "editor1_draft" /\ Pipeline[4] = "chief_gate"
  BY DEF Pipeline
<1>3. Place("plan_task") = 1 /\ Place("build_evidence") = 2 /\ Place("editor1_draft") = 3
  BY <1>1, <1>2
<1> HIDE DEF Place
<1>4. /\ st.node = "plan_task" => NextNode(st) = Pipeline[Place("plan_task") + 1]
      /\ st.node = "build_evidence" => NextNode(st) = Pipeline[Place("build_evidence") + 1]
      /\ st.node = "editor1_draft" => NextNode(st) = Pipeline[Place("editor1_draft") + 1]
  BY DEF NextNode, Place
<1> QED
  BY <1>2, <1>3, <1>4

LEMMA AllNodes ==
    Nodes = {"plan_task", "build_evidence", "editor1_draft", "chief_gate", "human_review",
             "finalize_report"}
<1>1. 1..Len(Pipeline) = {1, 2, 3, 4}
  BY DEF Pipeline
<1> QED
  BY <1>1 DEF Nodes, Pipeline

(* Where each node leads.                                                  *)
LEMMA Routes ==
    ASSUME NEW st \in GraphState
    PROVE  /\ NextNode(st) \in Nodes \cup {"end"}
           /\ st.node = "none" => NextNode(st) = "plan_task"
           /\ st.node # "none" /\ st.error => NextNode(st) = st.node
           /\ st.node # "none" /\ ~st.error =>
                 /\ st.node = "plan_task" => NextNode(st) = "build_evidence"
                 /\ st.node = "build_evidence" => NextNode(st) = "editor1_draft"
                 /\ st.node = "editor1_draft" => NextNode(st) = "chief_gate"
                 /\ st.node = "chief_gate" => NextNode(st) = Decided(st.decision)
                 /\ st.node = "human_review" => NextNode(st) = Reviewed(st.review)
                 /\ st.node = "finalize_report" => NextNode(st) = "end"
<1>1. st.node \in Nodes \cup {"none"} /\ st.error \in BOOLEAN
  BY DEF GraphState
<1>2. st.node # "none" /\ ~st.error =>
         /\ st.node = "chief_gate" => NextNode(st) = Decided(st.decision)
         /\ st.node = "human_review" => NextNode(st) = Reviewed(st.review)
         /\ st.node = "finalize_report" => NextNode(st) = "end"
  BY DEF NextNode
<1>3. /\ st.node = "none" => NextNode(st) = "plan_task"
      /\ st.node # "none" /\ st.error => NextNode(st) = st.node
  BY DEF NextNode
<1>4. Decided(st.decision) \in Nodes /\ Reviewed(st.review) \in Nodes \cup {"end"}
  BY AllNodes DEF Decided, Reviewed
<1> QED
  BY <1>1, <1>2, <1>3, <1>4, PipelineOrder, AllNodes

-----------------------------------------------------------------------------
(* The states that nodes, reviewers and the end of an invocation make.     *)

LEMMA BlankIsSound ==
    ASSUME NEW max \in Nat, NEW strategy \in Strategies
    PROVE  /\ Blank(max, strategy) \in GraphState /\ Sound(Blank(max, strategy))
           /\ Blank(max, strategy).tasks = {}
           /\ Blank(max, strategy).node = "none" /\ ~Blank(max, strategy).error
           /\ Stage(Blank(max, strategy)) = "drafting"
<1>1. Blank(max, strategy) \in GraphState
  BY DEF Blank, GraphState
<1>2. Sound(Blank(max, strategy))
  BY DEF Blank, Sound
<1>3. Stage(Blank(max, strategy)) = "drafting"
  BY DEF Blank, Stage
<1> QED
  BY <1>1, <1>2, <1>3 DEF Blank

LEMMA UnusedIsSound ==
    Unused \in GraphState /\ Sound(Unused) /\ Stage(Unused) = "drafting" /\ Unused.tasks = {}
BY BlankIsSound DEF Unused

(* A state that goes on has nobody's refusal and no review left open.      *)
LEMMA GoesOn ==
    ASSUME NEW st \in GraphState, Sound(st), NextNode(st) # "end"
    PROVE  /\ st.review \notin {"pending", "reject", "override_p0"}
           /\ NextNode(st) \in Nodes
           /\ st.review = "approve" => NextNode(st) \in {"human_review", "finalize_report"}
           /\ NextNode(st) = "finalize_report" => st.verdict # "none"
           /\ ~st.final
<1>1. NextNode(st) \in Nodes
  BY Routes
<1>2. st.review \notin {"pending", "reject", "override_p0"}
  BY Routes DEF Sound, Reviewed
<1>3. st.review = "approve" => NextNode(st) \in {"human_review", "finalize_report"}
  BY Routes, AllNodes DEF Sound, Reviewed
<1>4. st.node \in Nodes \cup {"none"} /\ st.error \in BOOLEAN
      /\ st.review \in {"none", "pending"} \cup Actions
      /\ st.decision \in {"none", "PASS", "ADD_EVIDENCE", "REVISE_TEXT", "HUMAN_REVIEW", "FAILED"}
  BY DEF GraphState
<1>5. ASSUME NextNode(st) = "finalize_report" PROVE st.verdict # "none"
  <2>1. CASE st.node = "none" \/ st.error
    BY <1>5, <2>1, Routes DEF Sound
  <2>2. CASE st.node = "chief_gate" /\ ~st.error
    BY <1>5, <2>2, Routes DEF Sound, Decided
  <2>3. CASE st.node = "human_review" /\ ~st.error
    BY <1>5, <2>3, Routes DEF Sound, Reviewed
  <2>4. CASE st.node \notin {"none", "chief_gate", "human_review"} /\ ~st.error
    BY <1>4, <1>5, <2>4, Routes, AllNodes
  <2> QED
    BY <2>1, <2>2, <2>3, <2>4
<1>6. ~st.final
  BY Routes DEF Sound
<1> QED
  BY <1>1, <1>2, <1>3, <1>5, <1>6

LEMMA ActedType ==
    ASSUME NEW st \in GraphState, NEW action \in Actions,
           NEW decision \in {"PASS", "ADD_EVIDENCE", "REVISE_TEXT", "FAILED"},
           NEW verdict \in {"none", "gate", "human"}
    PROVE  [st EXCEPT !.review = action, !.decision = decision, !.verdict = verdict]
              \in GraphState
BY DEF GraphState

LEMMA GatedType ==
    ASSUME NEW st \in GraphState, NEW loop \in Nat, NEW verdict \in {"gate", "none"},
           NEW decision \in {"PASS", "ADD_EVIDENCE", "HUMAN_REVIEW"}
    PROVE  [st EXCEPT !.covered = TRUE, !.decision = decision, !.loop = loop,
                      !.verdict = verdict] \in GraphState
BY DEF GraphState

LEMMA LoopIsNumber == \A st \in GraphState : st.loop \in Nat /\ st.max \in Nat
BY DEF GraphState

LEMMA RetriedKeeps ==
    ASSUME NEW st \in GraphState
    PROVE  LET before == Retried(st)
           IN /\ before \in GraphState /\ ~before.error
              /\ before.node = st.node /\ before.loop = st.loop /\ before.max = st.max
              /\ before.review = st.review /\ before.final = st.final
              /\ before.tasks = st.tasks /\ before.verdict = st.verdict
<1>1. CASE st.error
  <2>1. Retried(st) = [st EXCEPT !.error = FALSE, !.decision = "none"]
    BY <1>1 DEF Retried
  <2> QED
    BY <2>1 DEF GraphState
<1>2. CASE ~st.error
  BY <1>2 DEF Retried, GraphState
<1> QED
  BY <1>1, <1>2 DEF GraphState

(* What a node may leave: of the next state, and of how it follows.        *)
Returned(new, st) ==
    /\ new \in GraphState /\ Sound(new) /\ ~new.error
    /\ new.node = NextNode(st) /\ new.max = st.max /\ new.loop >= st.loop
    /\ "suspended" \in new.tasks => "suspended" \in st.tasks
    /\ new.node = "chief_gate" /\ new.decision = "ADD_EVIDENCE" =>
          new.loop = st.loop + 1 /\ st.loop < st.max
    /\ IF new.node = "human_review" THEN new.review = "pending" ELSE new.review = st.review

LEMMA NodeReturns ==
    ASSUME NEW st \in GraphState, Sound(st), NextNode(st) # "end",
           NEW after \in Results(NextNode(st), Retried(st))
    PROVE  Returned([after EXCEPT !.node = NextNode(st)], st)
<1>1. PICK before \in GraphState : before = Retried(st)
  BY RetriedKeeps
<1>2. /\ ~before.error /\ before.loop = st.loop /\ before.max = st.max
      /\ before.review = st.review /\ before.final = st.final
      /\ before.tasks = st.tasks /\ before.verdict = st.verdict
  BY <1>1, RetriedKeeps
<1>3. PICK node \in Nodes : node = NextNode(st)
  BY GoesOn
<1>4. /\ st.review \notin {"pending", "reject", "override_p0"}
      /\ st.review = "approve" => node \in {"human_review", "finalize_report"}
      /\ node = "finalize_report" => st.verdict # "none"
      /\ ~st.final
  BY <1>3, GoesOn
<1>5. after \in Results(node, before)
  BY <1>1, <1>3
<1>6. PICK new : new = [after EXCEPT !.node = node]
  OBVIOUS
<1> SUFFICES Returned(new, st)
  BY <1>3, <1>6
<1>7. CASE node = "plan_task"
  <2>1. PICK loop \in Nat : /\ loop >= before.loop
                            /\ after = [before EXCEPT !.loop = loop, !.verdict = "none"]
    <3> DEFINE loop == IF before.strategy = "provider_backed" /\ before.covered
                       THEN before.loop + 1 ELSE before.loop
    <3>1. after = [before EXCEPT !.loop = loop, !.verdict = "none"]
      BY <1>5, <1>7 DEF Results, Plan
    <3>2. loop \in Nat /\ loop >= before.loop
      BY LoopIsNumber
    <3> QED
      BY <3>1, <3>2
  <2>2. /\ after \in GraphState /\ ~after.error /\ after.max = before.max
        /\ after.review = before.review
        /\ after.final = before.final
        /\ after.tasks = before.tasks
        /\ after.loop >= before.loop
        /\ after.verdict = "none"
    BY <1>1, <1>2, <2>1 DEF GraphState
  <2>3. new \in GraphState
    BY <1>6, <2>2 DEF GraphState
  <2>4. /\ new.node = node /\ ~new.error /\ new.max = st.max /\ new.loop = after.loop
        /\ new.decision = after.decision /\ new.review = after.review
        /\ new.final = after.final /\ new.tasks = after.tasks /\ new.verdict = after.verdict
    BY <1>2, <1>6, <2>2 DEF GraphState
  <2> QED
    BY <1>2, <1>3, <1>4, <1>7, <2>2, <2>3, <2>4, LoopIsNumber DEF Returned, Sound
<1>8. CASE node = "build_evidence"
  <2>1. PICK tasks \in SUBSET (before.tasks \cup {"planned"}) :
           after = [before EXCEPT !.tasks = tasks]
    BY <1>5, <1>8 DEF Results, Evidence, GraphState
  <2>2. /\ after \in GraphState /\ ~after.error /\ after.max = before.max
        /\ after.loop = before.loop
        /\ after.review = before.review
        /\ after.final = before.final
        /\ after.verdict = before.verdict
        /\ after.tasks \subseteq before.tasks \cup {"planned"}
    BY <1>1, <1>2, <2>1 DEF GraphState
  <2>3. new \in GraphState
    BY <1>6, <2>2 DEF GraphState
  <2>4. /\ new.node = node /\ ~new.error /\ new.max = st.max /\ new.loop = after.loop
        /\ new.decision = after.decision /\ new.review = after.review
        /\ new.final = after.final /\ new.tasks = after.tasks /\ new.verdict = after.verdict
    BY <1>2, <1>6, <2>2 DEF GraphState
  <2> QED
    BY <1>2, <1>3, <1>4, <1>8, <2>2, <2>3, <2>4, LoopIsNumber DEF Returned, Sound
<1>9. CASE node = "editor1_draft"
  <2>1. after = [before EXCEPT !.verdict = "none"]
    BY <1>5, <1>9 DEF Results
  <2>2. /\ after \in GraphState /\ ~after.error /\ after.max = before.max
        /\ after.loop = before.loop
        /\ after.review = before.review
        /\ after.final = before.final
        /\ after.tasks = before.tasks
        /\ after.verdict = "none"
    BY <1>1, <1>2, <2>1 DEF GraphState
  <2>3. new \in GraphState
    BY <1>6, <2>2 DEF GraphState
  <2>4. /\ new.node = node /\ ~new.error /\ new.max = st.max /\ new.loop = after.loop
        /\ new.decision = after.decision /\ new.review = after.review
        /\ new.final = after.final /\ new.tasks = after.tasks /\ new.verdict = after.verdict
    BY <1>2, <1>6, <2>2 DEF GraphState
  <2> QED
    BY <1>2, <1>3, <1>4, <1>9, <2>2, <2>3, <2>4, LoopIsNumber DEF Returned, Sound
<1>10. CASE node = "chief_gate"
  <2>1. PICK decision \in {"PASS", "ADD_EVIDENCE", "HUMAN_REVIEW"}, loop \in Nat,
             verdict \in {"gate", "none"} :
           /\ after = [before EXCEPT !.covered = TRUE, !.decision = decision, !.loop = loop,
                                     !.verdict = verdict]
           /\ IF decision = "ADD_EVIDENCE"
              THEN loop = before.loop + 1 /\ before.loop < before.max ELSE loop = before.loop
           /\ decision = "PASS" => verdict = "gate"
    <3>1. PICK coverage \in {"full", "half", "low"}, blocked \in BOOLEAN :
             after = Gate(before, coverage, blocked)
      BY <1>5, <1>10 DEF Results
    <3>2. PICK decision \in {"PASS", "ADD_EVIDENCE", "HUMAN_REVIEW"} :
             /\ after = [before EXCEPT !.covered = TRUE, !.decision = decision,
                            !.loop = IF decision = "ADD_EVIDENCE" THEN @ + 1 ELSE @,
                            !.verdict = IF decision = "PASS" THEN "gate" ELSE "none"]
             /\ decision = "ADD_EVIDENCE" => before.loop < before.max
      BY <3>1 DEF Gate
    <3> DEFINE loop == IF decision = "ADD_EVIDENCE" THEN before.loop + 1 ELSE before.loop
               verdict == IF decision = "PASS" THEN "gate" ELSE "none"
    <3>3. after = [before EXCEPT !.covered = TRUE, !.decision = decision, !.loop = loop,
                                 !.verdict = verdict]
      BY <3>2
    <3>4. loop \in Nat
      BY LoopIsNumber
    <3> QED
      BY <3>2, <3>3, <3>4
  <2>2. /\ after \in GraphState /\ ~after.error /\ after.max = before.max
        /\ after.review = before.review
        /\ after.final = before.final
        /\ after.tasks = before.tasks
        /\ after.decision \in {"PASS", "ADD_EVIDENCE", "HUMAN_REVIEW"}
        /\ IF after.decision = "ADD_EVIDENCE"
           THEN after.loop = before.loop + 1 /\ before.loop < before.max
           ELSE after.loop = before.loop
        /\ after.decision = "PASS" => after.verdict # "none"
    <3>1. after \in GraphState
      BY <1>1, <2>1, GatedType
    <3>2. /\ after.error = before.error /\ after.max = before.max /\ after.loop = loop
          /\ after.review = before.review /\ after.final = before.final
          /\ after.tasks = before.tasks /\ after.verdict = verdict /\ after.decision = decision
      BY <1>1, <2>1 DEF GraphState
    <3> QED
      BY <1>2, <2>1, <3>1, <3>2
  <2>3. new \in GraphState
    BY <1>6, <2>2 DEF GraphState
  <2>4. /\ new.node = node /\ ~new.error /\ new.max = st.max /\ new.loop = after.loop
        /\ new.decision = after.decision /\ new.review = after.review
        /\ new.final = after.final /\ new.tasks = after.tasks /\ new.verdict = after.verdict
    BY <1>2, <1>6, <2>2 DEF GraphState
  <2> QED
    BY <1>2, <1>3, <1>4, <1>10, <2>2, <2>3, <2>4, LoopIsNumber DEF Returned, Sound
<1>11. CASE node = "human_review"
  <2>1. after = [before EXCEPT !.review = "pending", !.decision = "HUMAN_REVIEW"]
    BY <1>5, <1>11 DEF Results
  <2>2. /\ after \in GraphState /\ ~after.error /\ after.max = before.max
        /\ after.loop = before.loop
        /\ after.final = before.final
        /\ after.tasks = before.tasks
        /\ after.verdict = before.verdict
        /\ after.review = "pending"
    BY <1>1, <1>2, <2>1 DEF GraphState
  <2>3. new \in GraphState
    BY <1>6, <2>2 DEF GraphState
  <2>4. /\ new.node = node /\ ~new.error /\ new.max = st.max /\ new.loop = after.loop
        /\ new.decision = after.decision /\ new.review = after.review
        /\ new.final = after.final /\ new.tasks = after.tasks /\ new.verdict = after.verdict
    BY <1>2, <1>6, <2>2 DEF GraphState
  <2> QED
    BY <1>2, <1>3, <1>4, <1>11, <2>2, <2>3, <2>4, LoopIsNumber DEF Returned, Sound
<1>12. CASE node = "finalize_report"
  <2>1. after = [before EXCEPT !.final = TRUE]
    BY <1>5, <1>12 DEF Results
  <2>2. /\ after \in GraphState /\ ~after.error /\ after.max = before.max
        /\ after.loop = before.loop
        /\ after.review = before.review
        /\ after.tasks = before.tasks
        /\ after.verdict = before.verdict
        /\ after.final
    BY <1>1, <1>2, <2>1 DEF GraphState
  <2>3. new \in GraphState
    BY <1>6, <2>2 DEF GraphState
  <2>4. /\ new.node = node /\ ~new.error /\ new.max = st.max /\ new.loop = after.loop
        /\ new.decision = after.decision /\ new.review = after.review
        /\ new.final = after.final /\ new.tasks = after.tasks /\ new.verdict = after.verdict
    BY <1>2, <1>6, <2>2 DEF GraphState
  <2> QED
    BY <1>2, <1>3, <1>4, <1>12, <2>2, <2>3, <2>4, LoopIsNumber DEF Returned, Sound
<1> QED
  BY <1>7, <1>8, <1>9, <1>10, <1>11, <1>12, AllNodes

(* What a node leaves that raises.                                         *)
Failed(new, st) ==
    /\ new \in GraphState /\ Sound(new) /\ new.error
    /\ new.node = NextNode(st) /\ new.max = st.max /\ new.loop = st.loop
    /\ new.tasks = st.tasks /\ new.review = st.review

LEMMA NodeFails ==
    ASSUME NEW st \in GraphState, Sound(st), NextNode(st) # "end"
    PROVE  Failed([Retried(st) EXCEPT !.node = NextNode(st), !.error = TRUE,
                                      !.decision = "FAILED"], st)
<1>1. PICK before \in GraphState : before = Retried(st)
  BY RetriedKeeps
<1>2. /\ before.loop = st.loop /\ before.max = st.max /\ before.review = st.review
      /\ before.final = st.final /\ before.tasks = st.tasks /\ before.verdict = st.verdict
  BY <1>1, RetriedKeeps
<1>3. PICK node \in Nodes : node = NextNode(st)
  BY GoesOn
<1>4. PICK new : new = [before EXCEPT !.node = node, !.error = TRUE, !.decision = "FAILED"]
  OBVIOUS
<1>5. new \in GraphState
  BY <1>4 DEF GraphState
<1>6. Sound(new)
  BY <1>2, <1>3, <1>4, GoesOn, AllNodes DEF Sound, GraphState
<1> QED
  BY <1>1, <1>2, <1>3, <1>4, <1>5, <1>6 DEF Failed, GraphState

(* A reviewer's action, and what a resume loads.                           *)
LEMMA ReopenedKeeps ==
    ASSUME NEW st \in GraphState
    PROVE  /\ Reopened(st) \in GraphState /\ "suspended" \notin Reopened(st).tasks
           /\ Reopened(st).node = st.node /\ Reopened(st).error = st.error
           /\ Reopened(st).decision = st.decision /\ Reopened(st).review = st.review
           /\ Reopened(st).final = st.final /\ Reopened(st).verdict = st.verdict
<1>1. PICK tasks \in {{}, {"planned"}} : Reopened(st) = [st EXCEPT !.tasks = tasks]
  BY DEF Reopened
<1> QED
  BY <1>1 DEF GraphState

Resumed(old, max, strategy, action) ==
    LET loaded == [old EXCEPT !.max = max, !.strategy = strategy]
    IN Reopened(IF action = "none" THEN loaded ELSE WithAction(loaded, action))

LEMMA ResumedState ==
    ASSUME NEW old \in GraphState, Sound(old), NEW max \in Nat, NEW strategy \in Strategies,
           NEW action \in Actions \cup {"none"},
           NEW new, new = Resumed(old, max, strategy, action)
    PROVE  /\ new \in GraphState /\ Sound(new) /\ "suspended" \notin new.tasks
           /\ Loaded(new, old) /\ Follows(Stage(old), Stage(new)) /\ new.final = old.final
<1> PICK loaded : loaded = [old EXCEPT !.max = max, !.strategy = strategy]
  OBVIOUS
<1>1. loaded \in GraphState
  BY DEF GraphState
<1>2. PICK told : told = IF action = "none" THEN loaded ELSE WithAction(loaded, action)
  OBVIOUS
<1> new = Reopened(told)
  BY <1>2 DEF Resumed
<1>3. CASE action = "none" \/ old.review # "pending"
  <2>1. told = loaded
    BY <1>2, <1>3 DEF WithAction, GraphState
  <2>2. new \in GraphState /\ "suspended" \notin new.tasks
    BY <1>1, <1>2, <2>1, ReopenedKeeps
  <2>3. /\ new.node = old.node /\ new.error = old.error /\ new.decision = old.decision
        /\ new.review = old.review /\ new.final = old.final /\ new.verdict = old.verdict
    <3>1. new = Reopened(loaded)
      BY <1>2, <2>1
    <3>2. /\ new.node = loaded.node /\ new.error = loaded.error
          /\ new.decision = loaded.decision /\ new.review = loaded.review
          /\ new.final = loaded.final /\ new.verdict = loaded.verdict
      BY <1>1, <3>1, ReopenedKeeps
    <3> QED
      BY <3>2 DEF GraphState
  <2>4. Stage(new) = Stage(old)
    BY <2>3 DEF Stage
  <2> QED
    BY <2>2, <2>3, <2>4 DEF Sound, Loaded, Follows
<1>4. CASE action # "none" /\ old.review = "pending"
  <2>1. PICK decision \in {"PASS", "ADD_EVIDENCE", "REVISE_TEXT", "FAILED"} :
           told = [loaded EXCEPT !.review = action, !.decision = decision,
                     !.verdict = IF action \in {"approve", "override_p0"} THEN "human" ELSE @]
    <3>1. loaded.review = "pending"
      BY <1>4 DEF GraphState
    <3> QED
      BY <1>2, <1>4, <3>1 DEF WithAction
  <2>2. /\ told \in GraphState /\ told.node = old.node /\ told.error = old.error
        /\ told.final = old.final /\ told.review = action
        /\ told.verdict = IF action \in {"approve", "override_p0"} THEN "human" ELSE old.verdict
    <3>1. loaded.node = old.node /\ loaded.error = old.error /\ loaded.final = old.final
          /\ loaded.verdict = old.verdict
      BY DEF GraphState
    <3>2. action \in Actions
      BY <1>4
    <3>3. told \in GraphState
      <4>1. PICK verdict \in {"none", "gate", "human"} :
               told = [loaded EXCEPT !.review = action, !.decision = decision,
                                     !.verdict = verdict]
        <5>1. CASE action \in {"approve", "override_p0"}
          BY <2>1, <5>1
        <5>2. CASE action \notin {"approve", "override_p0"}
          <6>1. loaded.verdict \in {"none", "gate", "human"}
            BY <1>1 DEF GraphState
          <6> QED
            BY <2>1, <5>2, <6>1
        <5> QED
          BY <5>1, <5>2
      <4>2. [loaded EXCEPT !.review = action, !.decision = decision, !.verdict = verdict]
               \in GraphState
        BY <1>1, <3>2, ActedType
      <4> QED
        BY <4>1, <4>2
    <3>4. /\ told.node = loaded.node /\ told.error = loaded.error /\ told.final = loaded.final
          /\ told.review = action
          /\ told.verdict = IF action \in {"approve", "override_p0"} THEN "human"
                            ELSE loaded.verdict
      BY <1>1, <1>2, <2>1 DEF GraphState
    <3> QED
      BY <3>1, <3>3, <3>4
  <2>3. old.node = "human_review" /\ ~old.error
    BY <1>4 DEF Sound
  <2>4. /\ new \in GraphState /\ "suspended" \notin new.tasks
        /\ new.node = old.node /\ new.error = old.error /\ new.final = old.final
        /\ new.review = action
        /\ new.verdict = IF action \in {"approve", "override_p0"} THEN "human" ELSE old.verdict
    <3>1. /\ new \in GraphState /\ "suspended" \notin new.tasks
          /\ new.node = told.node /\ new.error = told.error /\ new.final = told.final
          /\ new.review = told.review /\ new.verdict = told.verdict
      BY <2>2, ReopenedKeeps
    <3> QED
      BY <2>2, <3>1
  <2>5. Sound(new)
    BY <2>3, <2>4 DEF Sound
  <2>6. Stage(old) = "review" /\ Stage(new) \in {"review", "rejected", "cleared"}
    BY <1>4, <2>3, <2>4 DEF Stage
  <2> QED
    BY <1>4, <2>4, <2>5, <2>6 DEF Loaded, Follows
<1> QED
  BY <1>3, <1>4

LEMMA ClosedKeeps ==
    ASSUME NEW st \in GraphState, Sound(st), "suspended" \notin st.tasks
    PROVE  LET new == Closed(st)
           IN /\ new \in GraphState /\ Sound(new) /\ AllClosed(new)
              /\ Stage(new) = Stage(st) /\ new.final = st.final
              /\ new.loop = st.loop /\ new.max = st.max
<1>1. PICK tasks \in SUBSET {"planned", "suspended"} :
         /\ Closed(st) = [st EXCEPT !.tasks = tasks]
         /\ "planned" \notin tasks
         /\ "suspended" \in tasks => st.review = "pending"
  <2>1. st.tasks \in SUBSET {"planned", "suspended"}
    BY DEF GraphState
  <2>2. CASE st.review = "pending" /\ ~st.error /\ st.tasks # {}
    <3>1. Closed(st) = [st EXCEPT !.tasks = {"suspended"}]
      BY <2>2 DEF Closed
    <3> QED
      BY <2>2, <3>1
  <2>3. CASE ~(st.review = "pending" /\ ~st.error /\ st.tasks # {})
    <3>1. Closed(st) = [st EXCEPT !.tasks = st.tasks \ {"planned"}]
      BY <2>3 DEF Closed
    <3>2. st.tasks \ {"planned"} \in SUBSET {"planned", "suspended"}
      BY <2>1
    <3> QED
      BY <3>1, <3>2
  <2> QED
    BY <2>2, <2>3
<1>2. PICK new : new = Closed(st)
  OBVIOUS
<1>3. new \in GraphState
  BY <1>1, <1>2 DEF GraphState
<1>4. /\ new.node = st.node /\ new.error = st.error /\ new.decision = st.decision
      /\ new.loop = st.loop /\ new.max = st.max /\ new.review = st.review
      /\ new.final = st.final /\ new.verdict = st.verdict /\ new.tasks = tasks
  BY <1>1, <1>2 DEF GraphState
<1>5. Sound(new)
  BY <1>4 DEF Sound
<1>6. Stage(new) = Stage(st)
  BY <1>4 DEF Stage
<1> QED
  BY <1>1, <1>2, <1>3, <1>4, <1>5, <1>6 DEF AllClosed

(* A node, returning or raising, takes the run along the flow.             *)
LEMMA NodeFollows ==
    ASSUME NEW old \in GraphState, NEW st \in GraphState, NEW new \in GraphState,
           Sound(old), Sound(st), NextNode(st) # "end", Loaded(st, old),
           Returned(new, st) \/ Failed(new, st)
    PROVE  Follows(Stage(old), Stage(new))
<1>1. /\ new.node = NextNode(st) /\ Sound(new)
      /\ IF new.node = "human_review" /\ ~new.error THEN new.review = "pending"
         ELSE new.review = st.review
      /\ new.error \in BOOLEAN /\ st.error \in BOOLEAN
  BY DEF Returned, Failed, GraphState
<1>2. st.review \notin {"pending", "reject", "override_p0"}
  BY GoesOn
<1>3. old.node = st.node /\ old.error = st.error
  BY DEF Loaded
<1>4. old.node # "human_review" \/ old.error =>
         old.review = st.review /\ old.decision = st.decision /\ old.verdict = st.verdict
  BY DEF Loaded, Sound
<1>5. CASE new.node \in {"plan_task", "build_evidence", "editor1_draft"}
  <2>1. Stage(new) = "drafting"
    BY <1>5 DEF Stage
  <2>2. Stage(old) \in {"drafting", "review"}
    <3>1. CASE st.node \in {"none", "plan_task", "build_evidence", "editor1_draft"}
      BY <1>3, <3>1 DEF Stage
    <3>2. CASE st.node = "chief_gate"
      <4>1. st.decision # "PASS"
        BY <1>1, <1>5, <3>2, Routes DEF Decided, Sound
      <4> QED
        BY <1>3, <1>4, <3>2, <4>1 DEF Stage
    <3>3. CASE st.node = "human_review"
      <4>1. ~st.error
        BY <1>1, <1>5, <3>3, Routes
      <4>2. old.review \in {"pending", st.review}
        BY DEF Loaded
      <4> QED
        BY <1>2, <1>3, <3>3, <4>2 DEF Stage
    <3>4. st.node # "finalize_report"
      BY <1>1, <1>5, Routes
    <3> QED
      BY <3>1, <3>2, <3>3, <3>4, AllNodes DEF GraphState
  <2> QED
    BY <2>1, <2>2 DEF Follows
<1>6. CASE new.node = "chief_gate"
  <2>1. Stage(new) \in {"drafting", "cleared", "review"}
    BY <1>6 DEF Stage
  <2>2. st.node = "editor1_draft" \/ (st.node = "chief_gate" /\ st.error)
    <3>1. NextNode(st) = "chief_gate"
      BY <1>1, <1>6
    <3>2. Decided(st.decision) # "chief_gate" /\ Reviewed(st.review) # "chief_gate"
      BY DEF Decided, Reviewed
    <3>3. st.node \in Nodes \cup {"none"}
      BY DEF GraphState
    <3>4. CASE st.node = "none" \/ st.error
      BY <3>1, <3>4, Routes
    <3>5. CASE st.node # "none" /\ ~st.error
      <4>1. /\ st.node # "plan_task" /\ st.node # "build_evidence"
            /\ st.node # "chief_gate" /\ st.node # "human_review"
            /\ st.node # "finalize_report"
        BY <3>1, <3>2, <3>5, Routes
      <4> QED
        BY <3>3, <3>5, <4>1, AllNodes
    <3> QED
      BY <1>1, <3>4, <3>5
  <2>3. Stage(old) = "drafting"
    BY <1>3, <2>2 DEF Stage, Sound
  <2> QED
    BY <2>1, <2>3 DEF Follows
<1>7. CASE new.node = "human_review"
  <2>1. Stage(new) = "review"
    BY <1>1, <1>2, <1>7 DEF Stage
  <2>2. \/ st.node = "chief_gate" /\ st.decision = "HUMAN_REVIEW"
        \/ st.node = "human_review" /\ st.error
    BY <1>1, <1>7, Routes, AllNodes DEF GraphState, Decided, Reviewed
  <2>3. Stage(old) = "review"
    BY <1>2, <1>3, <1>4, <2>2 DEF Stage
  <2> QED
    BY <2>1, <2>3 DEF Follows
<1>8. CASE new.node = "finalize_report"
  <2>1. Stage(new) \in {"cleared", "reported"}
    BY <1>1, <1>8 DEF Stage, Sound
  <2>2. \/ st.node = "chief_gate" /\ ~st.error
        \/ st.node = "human_review" /\ ~st.error
        \/ st.node = "finalize_report" /\ st.error
    BY <1>1, <1>8, Routes, AllNodes DEF GraphState
  <2>3. CASE st.node = "chief_gate" /\ ~st.error
    <3>1. st.decision = "PASS"
      BY <1>1, <1>8, <2>3, Routes DEF Decided, Sound
    <3>2. Stage(old) = "cleared"
      BY <1>3, <1>4, <2>3, <3>1 DEF Stage
    <3> QED
      BY <2>1, <3>2 DEF Follows
  <2>4. CASE st.node = "human_review" /\ ~st.error
    <3>1. old.review \in {"pending", st.review}
      BY DEF Loaded
    <3>2. Stage(old) = "review"
      BY <1>2, <1>3, <2>4, <3>1 DEF Stage
    <3>3. st.review = "approve"
      BY <1>1, <1>8, <2>4, Routes DEF Reviewed
    <3>4. ~new.error \/ new.error
      BY <1>1
    <3> QED
      BY <2>1, <3>2 DEF Follows
  <2>5. CASE st.node = "finalize_report" /\ st.error
    <3>1. Stage(old) = "cleared"
      BY <1>3, <2>5 DEF Stage, Sound
    <3> QED
      BY <2>1, <3>1 DEF Follows
  <2> QED
    BY <2>2, <2>3, <2>4, <2>5
<1> QED
  BY <1>1, <1>5, <1>6, <1>7, <1>8, AllNodes, GoesOn

-----------------------------------------------------------------------------
(* Preservation.                                                           *)

LEMMA InitEstablishesIInv == Init => IInv
<1> SUFFICES ASSUME Init PROVE IInv
  OBVIOUS
<1>1. PICK unused \in GraphState : unused = Unused
  BY UnusedIsSound
<1>2. Sound(unused) /\ unused.tasks = {} /\ NextNode(unused) = "plan_task"
      /\ unused.loop \in Nat /\ unused.max \in Nat
  <2>1. unused.node = "none"
    BY <1>1 DEF Unused, Blank
  <2> QED
    BY <1>1, <2>1, UnusedIsSound, LoopIsNumber DEF NextNode
<1>3. TypeOK
  <2>1. run \in [status : {"none", "running", "succeeded", "failed"}, report : 0..reports]
        /\ reports \in Nat /\ report \in [Invocations -> 0..reports]
    <3>1. reports = 0 /\ 0 \in 0..0
      BY DEF Init
    <3> QED
      BY <3>1 DEF Init
  <2>2. /\ {saved, snapshot} \subseteq GraphState
        /\ state \in [Invocations -> GraphState]
    BY <1>1 DEF Init, NoCheckpoint
  <2>3. /\ pc \in [Invocations -> Steps] /\ rounds \in [Invocations -> Nat]
        /\ outrun \subseteq Invocations /\ compiled \subseteq Invocations
        /\ abandoned \in BOOLEAN
        /\ mishaps \subseteq {"overlap", "lost", "compacted", "unfinished"}
    BY DEF Init, Steps
  <2>4. budget \in [{"resumes", "accidents"} -> Nat]
    <3>1. MaxResumes \in Nat /\ MaxAccidents \in Nat
      OBVIOUS
    <3> QED
      BY <3>1 DEF Init
  <2> QED
    BY <2>1, <2>2, <2>3, <2>4 DEF TypeOK, Steps
<1>4. InvocationsAreRight
  BY <1>1, <1>2 DEF Init, InvocationsAreRight, Right
<1>5. CheckpointsAreSound
  BY <1>1, <1>2 DEF Init, CheckpointsAreSound, NoCheckpoint
<1>6. RunHasBegun /\ Calm
  BY DEF Init, RunHasBegun, Calm, Active, Continues
<1>7. ReportKnown
  BY DEF Init, ReportKnown
<1> QED
  BY <1>3, <1>4, <1>5, <1>6, <1>7 DEF IInv

(* One invocation moves, whatever it does.                                 *)
LEMMA MoveKeeps ==
    ASSUME TypeOK, InvocationsAreRight, NEW i \in Invocations,
           NEW new \in GraphState, NEW step \in Steps, NEW round \in Nat,
           Right(new, step, round),
           state' = [state EXCEPT ![i] = new], pc' = [pc EXCEPT ![i] = step],
           rounds' = [rounds EXCEPT ![i] = round]
    PROVE  /\ state' \in [Invocations -> GraphState]
           /\ pc' \in [Invocations -> Steps]
           /\ rounds' \in [Invocations -> Nat]
           /\ InvocationsAreRight'
<1>1. /\ state' \in [Invocations -> GraphState] /\ pc' \in [Invocations -> Steps]
      /\ rounds' \in [Invocations -> Nat]
  BY DEF TypeOK, Steps
<1>2. ASSUME NEW j \in Invocations PROVE Right(state'[j], pc'[j], rounds'[j])
  <2>1. CASE j = i
    BY <2>1 DEF TypeOK
  <2>2. CASE j # i
    <3>1. state'[j] = state[j] /\ pc'[j] = pc[j] /\ rounds'[j] = rounds[j]
      BY <2>2 DEF TypeOK
    <3> QED
      BY <3>1 DEF InvocationsAreRight
  <2> QED
    BY <2>1, <2>2
<1> QED
  BY <1>1, <1>2 DEF InvocationsAreRight

(* The only invocation moves.                                              *)
LEMMA CalmMoves ==
    ASSUME TypeOK, NEW i \in Invocations, Active \subseteq {i},
           NEW new \in GraphState, NEW step \in Steps, Continues(new, step)',
           state' = [state EXCEPT ![i] = new], pc' = [pc EXCEPT ![i] = step]
    PROVE  Calm'
<1>1. ASSUME NEW j \in Invocations, j # i PROVE pc'[j] = "idle"
  BY <1>1 DEF TypeOK, Active
<1>2. Active' \subseteq {i}
  BY <1>1 DEF Active
<1>3. ASSUME NEW j \in Invocations PROVE Continues(state[j], pc[j])'
  <2>1. CASE j = i
    <3>1. state'[j] = new /\ pc'[j] = step
      BY <2>1 DEF TypeOK
    <3> QED
      BY <3>1 DEF Continues
  <2>2. CASE j # i
    BY <1>1, <2>2 DEF Continues
  <2> QED
    BY <2>1, <2>2
<1> QED
  BY <1>2, <1>3 DEF Calm

(* One that is active is the only one, while nothing is torn.              *)
LEMMA OnlyOne ==
    ASSUME IInv, NEW i \in Invocations, pc[i] # "idle", mishaps \subseteq mishaps',
           NothingTorn'
    PROVE  /\ NothingTorn /\ Calm /\ Active \subseteq {i} /\ i \in Active
           /\ Continues(state[i], pc[i])
BY DEF IInv, NothingTorn, Calm, Active

LEMMA StartKeeps == ASSUME IInv, NEW i \in Invocations, Start(i) PROVE IInv'
<1>1. PICK max \in LoopCounts, strategy \in Strategies :
         state' = [state EXCEPT ![i] = Blank(max, strategy)]
  BY DEF Start
<1>2. PICK new \in GraphState : new = Blank(max, strategy)
  BY BlankIsSound
<1>3. Sound(new) /\ new.tasks = {} /\ new.node = "none" /\ ~new.error /\ ~new.final
      /\ new.review = "none" /\ new.decision = "none" /\ new.verdict = "none"
  BY <1>2, BlankIsSound DEF Blank
<1>4. Right(new, "node", 0)
  BY <1>3, Routes, LoopIsNumber, AllNodes DEF Right
<1>5. Active = {} /\ saved = Unused
  BY DEF Start, IInv, RunHasBegun, NoCheckpoint
<1>6. /\ state' = [state EXCEPT ![i] = new] /\ pc' = [pc EXCEPT ![i] = "node"]
      /\ rounds' = [rounds EXCEPT ![i] = 0]
  BY <1>1, <1>2 DEF Start, Go
<1>7. /\ state' \in [Invocations -> GraphState] /\ pc' \in [Invocations -> Steps]
      /\ rounds' \in [Invocations -> Nat] /\ InvocationsAreRight'
  BY <1>4, <1>6, MoveKeeps DEF IInv, Steps
<1>8. TypeOK'
  BY <1>7 DEF Start, IInv, TypeOK, Steps
<1>9. CheckpointsAreSound' /\ RunHasBegun'
  BY DEF Start, IInv, TypeOK, CheckpointsAreSound, RunHasBegun
<1>10. Calm'
  <2>1. Continues(new, "node")'
    <3>1. /\ saved.node = "none" /\ ~saved.error /\ ~saved.final /\ saved.review = "none"
          /\ saved.decision = "none" /\ saved.verdict = "none"
      BY <1>5 DEF Unused, Blank
    <3>2. Loaded(new, saved)
      BY <1>3, <1>5, <3>1, UnusedIsSound DEF Loaded, GraphState
    <3> QED
      BY <3>2 DEF Start, Continues
  <2> QED
    BY <1>5, <1>6, <2>1, CalmMoves DEF IInv, Steps
<1>11. mishaps' = {} => ReportKnown'
  <2>1. ~saved.final
    BY <1>5 DEF Unused, Blank
  <2>2. mishaps' = mishaps /\ reports' = reports
    BY DEF Start
  <2> QED
    BY <2>1, <2>2 DEF IInv, ReportKnown
<1> QED
  BY <1>7, <1>8, <1>9, <1>10, <1>11 DEF IInv

LEMMA ResumeKeeps == ASSUME IInv, NEW i \in Invocations, Resume(i) PROVE IInv'
<1>1. PICK max \in LoopCounts, strategy \in Strategies, action \in Actions \cup {"none"} :
         state' = [state EXCEPT ![i] = Resumed(saved, max, strategy, action)]
  BY DEF Resume, Resumed
<1>2. PICK new : new = Resumed(saved, max, strategy, action)
  OBVIOUS
<1>3. state' = [state EXCEPT ![i] = new]
  BY <1>1, <1>2
<1>4. /\ new \in GraphState /\ Sound(new) /\ "suspended" \notin new.tasks
      /\ Loaded(new, saved) /\ Follows(Stage(saved), Stage(new)) /\ new.final = saved.final
  <2>1. PICK old \in GraphState : old = saved /\ Sound(old)
    BY DEF IInv, TypeOK, CheckpointsAreSound
  <2>2. max \in Nat /\ new = Resumed(old, max, strategy, action)
    BY <1>2, <2>1
  <2>3. /\ new \in GraphState /\ Sound(new) /\ "suspended" \notin new.tasks
        /\ Loaded(new, old) /\ Follows(Stage(old), Stage(new)) /\ new.final = old.final
    BY <2>1, <2>2, ResumedState
  <2> QED
    BY <2>1, <2>3
<1>5. state'[i] = new
  BY <1>3 DEF IInv, TypeOK
<1>6. PICK step \in {"node", "closing"} :
         step = IF NextNode(new) = "end" THEN "closing" ELSE "node"
  OBVIOUS
<1>7. pc' = [pc EXCEPT ![i] = step] /\ rounds' = [rounds EXCEPT ![i] = 0]
  BY <1>5, <1>6 DEF Resume, Go
<1>8. Right(new, step, 0)
  BY <1>4, <1>6, LoopIsNumber DEF Right
<1>9. /\ state' \in [Invocations -> GraphState] /\ pc' \in [Invocations -> Steps]
      /\ rounds' \in [Invocations -> Nat] /\ InvocationsAreRight'
  <2>1. TypeOK /\ InvocationsAreRight /\ step \in Steps /\ 0 \in Nat
    BY DEF IInv, Steps
  <2> QED
    BY <1>3, <1>4, <1>7, <1>8, <2>1, MoveKeeps
<1>10. /\ budget' \in [{"resumes", "accidents"} -> Nat]
       /\ mishaps' \subseteq {"overlap", "lost", "compacted", "unfinished"}
       /\ mishaps \subseteq mishaps'
       /\ Active # {} => "overlap" \in mishaps'
  <2>1. /\ budget.resumes \in Nat /\ budget.accidents \in Nat
        /\ mishaps \subseteq {"overlap", "lost", "compacted", "unfinished"}
    BY DEF IInv, TypeOK
  <2>2. PICK overlap \in {0, 1} :
           /\ budget.resumes > 0 /\ budget.accidents >= overlap
           /\ budget' = [resumes |-> budget.resumes - 1, accidents |-> budget.accidents - overlap]
    BY DEF Resume
  <2>3. budget.resumes - 1 \in Nat /\ budget.accidents - overlap \in Nat
    BY <2>1, <2>2
  <2>4. budget' \in [{"resumes", "accidents"} -> Nat]
    BY <2>2, <2>3
  <2>5. IF Active = {} THEN mishaps' = mishaps ELSE mishaps' = mishaps \cup {"overlap"}
    BY DEF Resume, Mishap
  <2> QED
    BY <2>1, <2>4, <2>5
<1>11. TypeOK'
  BY <1>9, <1>10 DEF Resume, IInv, TypeOK, Steps, shared
<1>12. CheckpointsAreSound' /\ RunHasBegun'
  BY DEF Resume, IInv, CheckpointsAreSound, RunHasBegun, shared
<1>13. ASSUME NothingTorn' PROVE Calm'
  <2>1. Active = {}
    BY <1>10, <1>13 DEF NothingTorn, Torn
  <2>2. Continues(new, step)'
    BY <1>4, <1>6 DEF Resume, Continues, shared
  <2> QED
    BY <1>3, <1>4, <1>6, <1>7, <2>1, <2>2, CalmMoves DEF IInv, Steps
<1>14. ASSUME mishaps' = {} PROVE ReportKnown'
  <2>1. Active = {} /\ ReportKnown
    BY <1>10, <1>14 DEF IInv
  <2>2. run' = run /\ reports' = reports /\ saved' = saved /\ report' = report
    BY DEF Resume, shared
  <2>3. /\ pc'[i] = step /\ state'[i] = new
        /\ \A j \in Invocations : j # i => pc'[j] = "idle"
        /\ \A j \in Invocations : pc[j] = "idle"
    BY <1>5, <1>6, <1>7, <2>1 DEF IInv, TypeOK, Active
  <2>4. Active' \subseteq {i}
    BY <2>3 DEF Active
  <2>5. ASSUME reports = 1 PROVE new.final /\ step = "closing"
    <3>1. new.final
      BY <1>4, <2>1, <2>5 DEF ReportKnown
    <3>2. NextNode(new) = "end"
      BY <1>4, <3>1, GoesOn
    <3> QED
      BY <1>6, <3>1, <3>2
  <2> QED
    BY <2>1, <2>2, <2>3, <2>4, <2>5 DEF ReportKnown
<1> QED
  BY <1>9, <1>11, <1>12, <1>13, <1>14 DEF IInv

LEMMA RunNodeKeeps == ASSUME IInv, NEW i \in Invocations, RunNode(i) PROVE IInv'
<1>1. PICK st \in GraphState : st = state[i]
  BY DEF IInv, TypeOK
<1>2. pc[i] = "node" /\ Right(st, "node", rounds[i])
  BY <1>1 DEF RunNode, IInv, InvocationsAreRight
<1>3. Sound(st) /\ NextNode(st) # "end"
  BY <1>2 DEF Right
<1>4. PICK new : /\ state' = [state EXCEPT ![i] = new]
                 /\ Returned(new, st) \/ Failed(new, st)
  <2>1. CASE \E after \in Results(NextNode(st), Retried(st)) :
               state' = [state EXCEPT ![i] = [after EXCEPT !.node = NextNode(st)]]
    BY <1>3, <2>1, NodeReturns
  <2>2. CASE state' = [state EXCEPT ![i] = [Retried(st) EXCEPT !.node = NextNode(st),
                                              !.error = TRUE, !.decision = "FAILED"]]
    BY <1>3, <2>2, NodeFails
  <2> QED
    BY <1>1, <2>1, <2>2 DEF RunNode
<1>5. PICK round \in Nat :
         /\ rounds' = [rounds EXCEPT ![i] = round]
         /\ round = IF NextNode(st) = "plan_task" THEN rounds[i] + 1 ELSE rounds[i]
  <2>1. rounds[i] \in Nat /\ rounds[i] + 1 \in Nat /\ rounds = [rounds EXCEPT ![i] = rounds[i]]
    BY DEF IInv, TypeOK
  <2>2. Retried(st).max = st.max
    BY RetriedKeeps
  <2>3. ~(rounds[i] > st.max + 1)
    BY <1>2, <2>1, LoopIsNumber DEF Right
  <2>4. rounds' = IF NextNode(st) = "plan_task" THEN [rounds EXCEPT ![i] = rounds[i] + 1]
                  ELSE rounds
    BY <1>1, <2>2, <2>3 DEF RunNode
  <2> QED
    BY <2>1, <2>4
<1>6. /\ new \in GraphState /\ Sound(new) /\ new.error \in BOOLEAN
      /\ new.node = NextNode(st) /\ new.max = st.max /\ new.loop >= st.loop
      /\ "suspended" \notin new.tasks
  BY <1>2, <1>4, LoopIsNumber DEF Right, Returned, Failed, GraphState
<1>7. ASSUME ~new.error, NextNode(new) = "plan_task" PROVE round <= new.loop /\ round <= new.max
  <2>1. Returned(new, st)
    BY <1>4, <1>7 DEF Failed
  <2>2. new.node = "chief_gate" /\ new.decision = "ADD_EVIDENCE"
    <3>1. new.node \in Nodes
      BY <1>3, <1>6, GoesOn
    <3>2. new.node = "human_review" => Reviewed(new.review) = "end"
      BY <2>1 DEF Returned, Reviewed
    <3>3. Decided(new.decision) = "plan_task" => new.decision = "ADD_EVIDENCE"
      BY DEF Decided
    <3>4. new.node # "none" /\ NextNode(new) # "end"
      BY <1>7, <3>1, AllNodes
    <3>5. new.node = "chief_gate"
      BY <1>6, <1>7, <3>1, <3>2, <3>4, Routes, AllNodes
    <3> QED
      BY <1>6, <1>7, <3>3, <3>4, <3>5, Routes
  <2>3. new.loop = st.loop + 1 /\ st.loop < st.max
    BY <2>1, <2>2 DEF Returned
  <2>4. round = rounds[i] /\ rounds[i] <= st.loop + 1
    BY <1>2, <1>5, <1>6, <2>2 DEF Right
  <2> QED
    BY <1>6, <2>3, <2>4, LoopIsNumber
<1>8. round <= new.loop + 1 /\ round <= new.max + 1
  <2>1. /\ rounds[i] \in Nat
        /\ rounds[i] <= st.loop + 1 /\ rounds[i] <= st.max + 1
        /\ NextNode(st) = "plan_task" => rounds[i] <= st.loop /\ rounds[i] <= st.max
    BY <1>2 DEF Right, IInv, TypeOK
  <2> QED
    BY <1>5, <1>6, <2>1, LoopIsNumber
<1>9. Right(new, "saving", round)
  BY <1>6, <1>7, <1>8 DEF Right
<1>10. pc' = [pc EXCEPT ![i] = "saving"]
  BY DEF RunNode, Go
<1>11. /\ state' \in [Invocations -> GraphState] /\ pc' \in [Invocations -> Steps]
       /\ rounds' \in [Invocations -> Nat] /\ InvocationsAreRight'
  BY <1>4, <1>5, <1>6, <1>9, <1>10, MoveKeeps DEF IInv, Steps
<1>12. budget' \in [{"resumes", "accidents"} -> Nat]
  BY DEF RunNode, Spend, IInv, TypeOK
<1>13. TypeOK'
  BY <1>11, <1>12 DEF RunNode, IInv, TypeOK, Steps, shared
<1>14. CheckpointsAreSound' /\ RunHasBegun'
  BY <1>2 DEF RunNode, IInv, CheckpointsAreSound, RunHasBegun, Active, shared
<1>15. ASSUME NothingTorn' PROVE Calm'
  <2>1. Active \subseteq {i} /\ Continues(st, "node")
    BY <1>1, <1>2, <1>15, OnlyOne DEF RunNode
  <2>2. saved \in GraphState /\ Sound(saved) /\ Loaded(st, saved)
    BY <2>1 DEF IInv, TypeOK, CheckpointsAreSound, Continues
  <2>3. Follows(Stage(saved), Stage(new))
    BY <1>3, <1>4, <1>6, <2>2, NodeFollows
  <2>4. Continues(new, "saving")'
    BY <2>3 DEF RunNode, Continues, shared
  <2> QED
    BY <1>4, <1>6, <1>10, <2>1, <2>4, CalmMoves DEF IInv, Steps
<1>16. ASSUME mishaps' = {} PROVE ReportKnown'
  <2>1. reports # 1 /\ reports <= 1
    BY <1>2, <1>16 DEF RunNode, IInv, ReportKnown, Active
  <2> QED
    BY <2>1 DEF RunNode, ReportKnown, shared
<1> QED
  BY <1>11, <1>13, <1>14, <1>15, <1>16 DEF IInv

(* A checkpoint, in the course of an invocation or at its end.             *)
LEMMA SaveKeeps ==
    ASSUME IInv, NEW i \in Invocations, pc[i] \in {"saving", "savingLast"},
           NEW next \in {"node", "closing", "reporting"}, Save(i, next),
           Right(state[i], next, rounds[i]), pc[i] = "savingLast" => next = "reporting"
    PROVE  IInv'
<1>1. PICK st \in GraphState : st = state[i]
  BY DEF IInv, TypeOK
<1>2. PICK round \in Nat : round = rounds[i]
  BY DEF IInv, TypeOK
<1>3. /\ state' = [state EXCEPT ![i] = st] /\ rounds' = [rounds EXCEPT ![i] = round]
      /\ pc' = [pc EXCEPT ![i] = next]
  BY <1>1, <1>2 DEF Save, Go, IInv, TypeOK
<1>4. /\ state' \in [Invocations -> GraphState] /\ pc' \in [Invocations -> Steps]
      /\ rounds' \in [Invocations -> Nat] /\ InvocationsAreRight'
  BY <1>1, <1>2, <1>3, MoveKeeps DEF IInv, Steps
<1>5. /\ budget' \in [{"resumes", "accidents"} -> Nat]
      /\ mishaps' \subseteq {"overlap", "lost", "compacted", "unfinished"}
      /\ mishaps \subseteq mishaps'
      /\ saved' \in GraphState /\ Sound(saved')
      /\ outrun' \subseteq Invocations
      /\ saved' = st \/ "lost" \in mishaps'
  <2>1. CASE saved' = state[i] /\ UNCHANGED <<mishaps, budget>>
               /\ outrun' = {j \in Invocations \ {i} : pc[j] \in {"saving", "savingLast"}}
    BY <1>1, <2>1 DEF IInv, TypeOK, Right
  <2>2. CASE (budget' = budget \/ Spend("accidents")) /\ Mishap("lost")
               /\ UNCHANGED <<saved, outrun>>
    <3>1. budget' \in [{"resumes", "accidents"} -> Nat]
      BY <2>2 DEF Spend, IInv, TypeOK
    <3> QED
      BY <2>2, <3>1 DEF Mishap, IInv, TypeOK, CheckpointsAreSound
  <2> QED
    BY <2>1, <2>2 DEF Save
<1>6. TypeOK'
  BY <1>4, <1>5 DEF Save, IInv, TypeOK, Steps
<1>7. CheckpointsAreSound' /\ RunHasBegun'
  BY <1>5 DEF Save, IInv, CheckpointsAreSound, RunHasBegun, Active
<1>8. ASSUME NothingTorn' PROVE saved' = st /\ Active \subseteq {i} /\ Calm'
  <2>1. Active \subseteq {i} /\ saved' = st
    BY <1>5, <1>8, OnlyOne DEF NothingTorn, Torn
  <2>2. Continues(st, next)'
    BY <2>1 DEF Continues, Loaded, Follows
  <2> QED
    BY <1>1, <1>3, <2>1, <2>2, CalmMoves DEF IInv, Steps
<1>9. ASSUME mishaps' = {} PROVE ReportKnown'
  <2>1. saved' = st /\ Active \subseteq {i} /\ ReportKnown /\ i \in Active
    BY <1>5, <1>8, <1>9 DEF NothingTorn, IInv, Active
  <2>2. run' = run /\ reports' = reports /\ report' = report /\ state' = state
    BY DEF Save
  <2>3. ASSUME reports = 1 PROVE st.final /\ next = "reporting" /\ run.report # 0
    BY <1>1, <2>1, <2>3 DEF ReportKnown, Active
  <2>4. pc'[i] = next /\ (\A j \in Invocations : j # i => pc'[j] = "idle")
    BY <1>3, <2>1 DEF IInv, TypeOK, Active
  <2>5. Active' \subseteq {i}
    BY <2>4 DEF Active
  <2> QED
    BY <1>1, <2>1, <2>2, <2>3, <2>4, <2>5 DEF ReportKnown
<1> QED
  BY <1>4, <1>6, <1>7, <1>8, <1>9 DEF IInv

LEMMA SaveCheckpointKeeps == ASSUME IInv, NEW i \in Invocations, SaveCheckpoint(i) PROVE IInv'
<1>1. PICK next \in {"node", "closing"} :
         next = IF state[i].error \/ NextNode(state[i]) = "end" THEN "closing" ELSE "node"
  OBVIOUS
<1>2. pc[i] = "saving" /\ Save(i, next)
  BY <1>1 DEF SaveCheckpoint
<1>3. Right(state[i], next, rounds[i])
  BY <1>1, <1>2 DEF IInv, InvocationsAreRight, Right
<1> QED
  BY <1>2, <1>3, SaveKeeps

LEMMA SaveLastKeeps == ASSUME IInv, NEW i \in Invocations, SaveLast(i) PROVE IInv'
<1>1. pc[i] = "savingLast" /\ Save(i, "reporting")
  BY DEF SaveLast
<1>2. Right(state[i], "reporting", rounds[i])
  BY <1>1 DEF IInv, InvocationsAreRight, Right
<1> QED
  BY <1>1, <1>2, SaveKeeps

LEMMA CloseKeeps == ASSUME IInv, NEW i \in Invocations, Close(i) PROVE IInv'
<1>1. PICK st \in GraphState : st = state[i]
  BY DEF IInv, TypeOK
<1>2. PICK round \in Nat : round = rounds[i]
  BY DEF IInv, TypeOK
<1>3. pc[i] = "closing" /\ Right(st, "closing", round)
  BY <1>1, <1>2 DEF Close, IInv, InvocationsAreRight
<1>4. PICK new : new = Closed(st)
  OBVIOUS
<1>5. /\ new \in GraphState /\ Sound(new) /\ AllClosed(new) /\ Stage(new) = Stage(st)
      /\ new.final = st.final /\ new.loop = st.loop /\ new.max = st.max
  BY <1>3, <1>4, ClosedKeeps DEF Right
<1>6. Right(new, "savingLast", round)
  BY <1>3, <1>5 DEF Right
<1>7. /\ state' = [state EXCEPT ![i] = new] /\ rounds' = [rounds EXCEPT ![i] = round]
      /\ pc' = [pc EXCEPT ![i] = "savingLast"]
  BY <1>1, <1>2, <1>4 DEF Close, Go, IInv, TypeOK
<1>8. /\ state' \in [Invocations -> GraphState] /\ pc' \in [Invocations -> Steps]
      /\ rounds' \in [Invocations -> Nat] /\ InvocationsAreRight'
  BY <1>5, <1>6, <1>7, MoveKeeps DEF IInv, Steps
<1>9. TypeOK'
  BY <1>8 DEF Close, IInv, TypeOK, Steps, shared
<1>10. CheckpointsAreSound' /\ RunHasBegun'
  BY <1>3 DEF Close, IInv, CheckpointsAreSound, RunHasBegun, Active, shared
<1>11. ASSUME NothingTorn' PROVE Calm'
  <2>1. Active \subseteq {i} /\ Continues(st, "closing")
    BY <1>1, <1>3, <1>11, OnlyOne DEF Close
  <2>2. Continues(new, "savingLast")'
    BY <1>5, <2>1 DEF Close, Continues, shared
  <2> QED
    BY <1>5, <1>7, <2>1, <2>2, CalmMoves DEF IInv, Steps
<1>12. ASSUME mishaps' = {} PROVE ReportKnown'
  <2>1. Active \subseteq {i} /\ ReportKnown /\ i \in Active
    BY <1>3, <1>12, OnlyOne DEF Close, IInv, NothingTorn
  <2>2. run' = run /\ reports' = reports /\ report' = report /\ saved' = saved
    BY DEF Close, shared
  <2>3. /\ pc'[i] = "savingLast" /\ state'[i] = new
        /\ \A j \in Invocations : j # i => pc'[j] = "idle"
    BY <1>7, <2>1 DEF IInv, TypeOK, Active
  <2>4. Active' \subseteq {i}
    BY <2>3 DEF Active
  <2>5. ASSUME reports = 1 PROVE new.final /\ run.report # 0
    BY <1>1, <1>3, <1>5, <2>1, <2>5 DEF ReportKnown, Active
  <2> QED
    BY <2>1, <2>2, <2>3, <2>4, <2>5 DEF ReportKnown
<1> QED
  BY <1>8, <1>9, <1>10, <1>11, <1>12 DEF IInv

LEMMA SaveReportKeeps == ASSUME IInv, NEW i \in Invocations, SaveReport(i) PROVE IInv'
<1>1. PICK st \in GraphState : st = state[i]
  BY DEF IInv, TypeOK
<1>2. PICK round \in Nat : round = rounds[i]
  BY DEF IInv, TypeOK
<1>3. pc[i] = "reporting" /\ Right(st, "reporting", round)
  BY <1>1, <1>2 DEF SaveReport, IInv, InvocationsAreRight
<1>4. Right(st, "finishing", round)
  BY <1>3 DEF Right
<1>5. /\ state' = [state EXCEPT ![i] = st] /\ rounds' = [rounds EXCEPT ![i] = round]
      /\ pc' = [pc EXCEPT ![i] = "finishing"]
  BY <1>1, <1>2 DEF SaveReport, Go, IInv, TypeOK
<1>6. /\ state' \in [Invocations -> GraphState] /\ pc' \in [Invocations -> Steps]
      /\ rounds' \in [Invocations -> Nat] /\ InvocationsAreRight'
  BY <1>4, <1>5, MoveKeeps DEF IInv, Steps
<1>7. PICK id : report' = [report EXCEPT ![i] = id] /\ id \in 0..reports' /\ reports' \in Nat
                /\ reports' >= reports
                /\ \/ /\ reports' = reports /\ id = 0 /\ (st.error \/ ~st.final)
                   \/ /\ reports' = reports /\ id = run.report /\ run.report # 0
                   \/ /\ reports' = reports + 1 /\ id # 0 /\ run.report = 0
                      /\ ~st.error /\ st.final
  <2>1. reports \in Nat /\ run.report \in 0..reports
    BY DEF IInv, TypeOK
  <2>2. CASE report' = [report EXCEPT ![i] = 0] /\ reports' = reports /\ (st.error \/ ~st.final)
    <3>1. 0 \in 0..reports' /\ reports' \in Nat /\ reports' >= reports
      BY <2>1, <2>2
    <3> QED
      BY <2>2, <3>1
  <2>3. CASE /\ report' = [report EXCEPT ![i] = run.report] /\ reports' = reports
             /\ run.report # 0
    <3>1. run.report \in 0..reports' /\ reports' \in Nat /\ reports' >= reports
      BY <2>1, <2>3
    <3> QED
      BY <2>3, <3>1
  <2>4. CASE /\ report' = [report EXCEPT ![i] = reports'] /\ reports' = reports + 1
             /\ run.report = 0 /\ ~st.error /\ st.final
    <3>1. reports' \in 0..reports' /\ reports' \in Nat /\ reports' >= reports /\ reports' # 0
      BY <2>1, <2>4
    <3> QED
      BY <2>4, <3>1
  <2> QED
    BY <1>1, <2>2, <2>3, <2>4 DEF SaveReport, HasReport
<1>8. TypeOK'
  <2>1. report' \in [Invocations -> 0..reports'] /\ run.report \in 0..reports'
    <3>1. 0..reports \subseteq 0..reports'
      BY <1>7 DEF IInv, TypeOK
    <3> QED
      BY <1>7, <3>1 DEF IInv, TypeOK
  <2>2. run' \in [status : {"none", "running", "succeeded", "failed"}, report : 0..reports']
    BY <2>1 DEF SaveReport, IInv, TypeOK
  <2> QED
    BY <1>6, <1>7, <2>1, <2>2 DEF SaveReport, IInv, TypeOK, Steps
<1>9. CheckpointsAreSound' /\ RunHasBegun'
  BY <1>3 DEF SaveReport, IInv, CheckpointsAreSound, RunHasBegun, Active
<1>10. ASSUME NothingTorn' PROVE Active \subseteq {i} /\ st = saved /\ Calm'
  <2>1. Active \subseteq {i} /\ Continues(st, "reporting")
    BY <1>1, <1>3, <1>10, OnlyOne DEF SaveReport
  <2>2. Continues(st, "finishing")' /\ st = saved
    BY <2>1 DEF SaveReport, Continues
  <2> QED
    BY <1>5, <2>1, <2>2, CalmMoves DEF IInv, Steps
<1>11. ASSUME mishaps' = {} PROVE ReportKnown'
  <2>1. Active \subseteq {i} /\ ReportKnown /\ i \in Active /\ st = saved
    BY <1>3, <1>10, <1>11 DEF SaveReport, IInv, NothingTorn, Active
  <2>2. run' = run /\ saved' = saved
    BY DEF SaveReport
  <2>3. /\ pc'[i] = "finishing" /\ state'[i] = st /\ report'[i] = id
        /\ \A j \in Invocations : j # i => pc'[j] = "idle"
    BY <1>5, <1>7, <2>1 DEF IInv, TypeOK, Active
  <2>4. Active' \subseteq {i}
    BY <2>3 DEF Active
  <2>5. reports = 1 => run.report # 0 /\ st.final
    BY <1>1, <1>3, <2>1 DEF ReportKnown, Active
  <2>6. reports \in {0, 1} /\ run.report \in 0..reports /\ (st.final => ~st.error)
    BY <1>3, <2>1 DEF ReportKnown, IInv, TypeOK, Right, Sound
  <2>7. reports' = 1 => id # 0 /\ st.final
    BY <1>7, <2>5, <2>6
  <2>8. reports' <= 1
    BY <1>7, <2>5, <2>6
  <2> QED
    BY <2>1, <2>2, <2>3, <2>4, <2>7, <2>8 DEF ReportKnown
<1> QED
  BY <1>6, <1>8, <1>9, <1>10, <1>11 DEF IInv

(* The end of an invocation: it finishes the run, or it dies.              *)
LEMMA LeaveKeeps ==
    ASSUME IInv, NEW i \in Invocations, pc[i] # "idle", Leave(i),
           UNCHANGED <<reports, saved, snapshot>>,
           run' \in [status : {"running", "succeeded", "failed"}, report : 0..reports],
           mishaps \subseteq mishaps',
           mishaps' \subseteq {"overlap", "lost", "compacted", "unfinished"},
           budget' \in [{"resumes", "accidents"} -> Nat], abandoned' \in BOOLEAN,
           mishaps' = {} /\ reports = 1 => run'.report # 0
    PROVE  IInv'
<1>1. PICK new \in GraphState : new = Unused
  BY UnusedIsSound
<1>2. Sound(new) /\ new.tasks = {}
  BY <1>1, UnusedIsSound
<1>3. Right(new, "idle", 0)
  BY <1>2, LoopIsNumber DEF Right
<1>4. /\ state' = [state EXCEPT ![i] = new] /\ rounds' = [rounds EXCEPT ![i] = 0]
      /\ pc' = [pc EXCEPT ![i] = "idle"]
  BY <1>1 DEF Leave, Go
<1>5. /\ state' \in [Invocations -> GraphState] /\ pc' \in [Invocations -> Steps]
      /\ rounds' \in [Invocations -> Nat] /\ InvocationsAreRight'
  BY <1>3, <1>4, MoveKeeps DEF IInv, Steps
<1>6. /\ report' \in [Invocations -> 0..reports] /\ outrun' \subseteq Invocations
      /\ compiled' \subseteq Invocations
  <2>1. 0 \in 0..reports
    BY DEF IInv, TypeOK
  <2> QED
    BY <2>1 DEF Leave, IInv, TypeOK
<1>7. TypeOK'
  BY <1>5, <1>6 DEF IInv, TypeOK, Steps
<1>8. CheckpointsAreSound' /\ RunHasBegun'
  BY DEF IInv, CheckpointsAreSound, RunHasBegun
<1>9. ASSUME NothingTorn' PROVE Calm' /\ Active' = {}
  <2>1. Active \subseteq {i}
    BY <1>9, OnlyOne
  <2>2. Continues(new, "idle")'
    BY DEF Continues
  <2>3. Calm'
    BY <1>4, <2>1, <2>2, CalmMoves DEF IInv, Steps
  <2>4. \A j \in Invocations : pc'[j] = "idle"
    BY <1>4, <2>1 DEF IInv, TypeOK, Active
  <2> QED
    BY <2>3, <2>4 DEF Active
<1>10. ASSUME mishaps' = {} PROVE ReportKnown'
  <2>1. ReportKnown /\ Active' = {}
    BY <1>9, <1>10 DEF IInv, NothingTorn
  <2> QED
    BY <1>10, <2>1 DEF ReportKnown
<1> QED
  BY <1>5, <1>7, <1>8, <1>9, <1>10 DEF IInv

LEMMA FinishKeeps == ASSUME IInv, NEW i \in Invocations, Finish(i) PROVE IInv'
<1>1. pc[i] = "finishing"
  BY DEF Finish
<1>2. report[i] \in 0..reports
  BY DEF IInv, TypeOK
<1>3. run' \in [status : {"running", "succeeded", "failed"}, report : 0..reports]
  BY <1>2 DEF Finish
<1>4. ASSUME mishaps' = {}, reports = 1 PROVE run'.report # 0
  <2>1. report[i] # 0
    BY <1>1, <1>4 DEF Finish, IInv, ReportKnown, Active
  <2> QED
    BY <2>1 DEF Finish
<1>5. /\ mishaps \subseteq mishaps'
      /\ mishaps' \subseteq {"overlap", "lost", "compacted", "unfinished"}
      /\ budget' \in [{"resumes", "accidents"} -> Nat]
      /\ UNCHANGED <<reports, saved, snapshot>> /\ Leave(i) /\ pc[i] # "idle"
      /\ abandoned' \in BOOLEAN
  BY <1>1 DEF Finish, IInv, TypeOK
<1> QED
  BY <1>3, <1>4, <1>5, LeaveKeeps

LEMMA CrashKeeps == ASSUME IInv, NEW i \in Invocations, Crash(i) PROVE IInv'
<1>1. pc[i] # "idle" /\ i \in Active
  BY DEF Crash, Active
<1>2. run.status # "none"
  BY <1>1 DEF IInv, RunHasBegun
<1>3. run' = run /\ run \in [status : {"running", "succeeded", "failed"}, report : 0..reports]
  <2>1. run \in [status : {"none", "running", "succeeded", "failed"}, report : 0..reports]
    BY DEF IInv, TypeOK
  <2> QED
    BY <1>2, <2>1 DEF Crash, shared
<1>4. budget' \in [{"resumes", "accidents"} -> Nat]
  BY DEF Crash, Spend, IInv, TypeOK
<1>5. /\ mishaps \subseteq mishaps'
      /\ mishaps' \subseteq {"overlap", "lost", "compacted", "unfinished"}
      /\ pc[i] = "finishing" => mishaps' # {}
      /\ abandoned' \in BOOLEAN
  BY DEF Crash, Mishap, IInv, TypeOK
<1>6. ASSUME mishaps' = {}, reports = 1 PROVE run.report # 0
  <2>1. Active \subseteq {i} /\ ReportKnown
    BY <1>1, <1>5, <1>6, OnlyOne DEF NothingTorn, IInv
  <2> QED
    BY <1>5, <1>6, <2>1 DEF ReportKnown, Active
<1> QED
  BY <1>1, <1>3, <1>4, <1>5, <1>6, LeaveKeeps DEF Crash, shared

LEMMA EscapeKeeps == ASSUME IInv, NEW i \in Invocations, Escape(i) PROVE IInv'
<1>1. /\ pc[i] \in {"node", "closing"} /\ Leave(i) /\ i \in Active
      /\ state[i].node = "build_evidence" \/ state[i].error
      /\ UNCHANGED <<run, reports, saved, snapshot, mishaps, budget>> /\ abandoned' = TRUE
  BY DEF Escape, Overrun, shared, Active
<1>2. run.status # "none"
  BY <1>1 DEF IInv, RunHasBegun
<1>3. run \in [status : {"running", "succeeded", "failed"}, report : 0..reports]
  <2>1. run \in [status : {"none", "running", "succeeded", "failed"}, report : 0..reports]
    BY DEF IInv, TypeOK
  <2> QED
    BY <1>2, <2>1
<1>4. ~state[i].final
  BY <1>1 DEF IInv, InvocationsAreRight, Right, Sound
<1>5. ~(mishaps' = {} /\ reports = 1)
  BY <1>1, <1>4 DEF IInv, ReportKnown
<1>6. /\ mishaps' \subseteq {"overlap", "lost", "compacted", "unfinished"}
      /\ budget' \in [{"resumes", "accidents"} -> Nat]
  BY <1>1 DEF IInv, TypeOK
<1> QED
  BY <1>1, <1>3, <1>5, <1>6, LeaveKeeps

LEMMA CompactionKeeps == ASSUME IInv, CompactReads \/ CompactDeletes PROVE IInv'
<1>1. UNCHANGED <<run, reports, locals, abandoned, rounds>>
  BY DEF CompactReads, CompactDeletes
<1>2. /\ saved' \in {saved, snapshot} /\ snapshot' \in {saved, NoCheckpoint}
      /\ mishaps \subseteq mishaps'
      /\ mishaps' \subseteq {"overlap", "lost", "compacted", "unfinished"}
      /\ saved' = saved \/ "compacted" \in mishaps'
      /\ budget' \in [{"resumes", "accidents"} -> Nat]
  <2>1. CASE CompactReads
    BY <2>1 DEF CompactReads, Spend, IInv, TypeOK
  <2>2. CASE CompactDeletes
    BY <2>2 DEF CompactDeletes, Mishap, IInv, TypeOK
  <2> QED
    BY <2>1, <2>2
<1>3. TypeOK'
  BY <1>1, <1>2, UnusedIsSound DEF IInv, TypeOK, locals, NoCheckpoint
<1>4. InvocationsAreRight' /\ RunHasBegun'
  BY <1>1, <1>2 DEF IInv, InvocationsAreRight, RunHasBegun, Active, locals
<1>5. CheckpointsAreSound'
  BY <1>2, UnusedIsSound DEF IInv, CheckpointsAreSound, NoCheckpoint
<1>6. ASSUME NothingTorn' PROVE saved' = saved /\ NothingTorn
  BY <1>2, <1>6 DEF NothingTorn, Torn
<1>7. ASSUME NothingTorn' PROVE Calm'
  BY <1>1, <1>6, <1>7 DEF IInv, Calm, Active, Continues, locals
<1>8. ASSUME mishaps' = {} PROVE ReportKnown'
  BY <1>1, <1>2, <1>6, <1>8 DEF IInv, NothingTorn, ReportKnown, Active, locals
<1> QED
  BY <1>3, <1>4, <1>5, <1>7, <1>8 DEF IInv

THEOREM Invariance == Spec => []IInv
<1>1. IInv /\ [Next]_vars => IInv'
  <2> SUFFICES ASSUME IInv, [Next]_vars PROVE IInv'
    OBVIOUS
  <2>1. CASE Next
    BY <2>1, StartKeeps, ResumeKeeps, RunNodeKeeps, SaveCheckpointKeeps, CloseKeeps,
       SaveLastKeeps, SaveReportKeeps, FinishKeeps, EscapeKeeps, CrashKeeps,
       CompactionKeeps
       DEF Next, Proceed
  <2>2. CASE UNCHANGED vars
    BY <2>2 DEF vars, shared, locals, IInv, TypeOK, InvocationsAreRight, CheckpointsAreSound,
                RunHasBegun, NothingTorn, Calm, Continues, ReportKnown, Active
  <2> QED
    BY <2>1, <2>2
<1> QED
  BY <1>1, InitEstablishesIInv, PTL DEF Spec

-----------------------------------------------------------------------------
(* What follows from the invariant.                                        *)

(* Type correctness of the run, its checkpoints and its invocations.       *)
THEOREM TypeCorrect == Spec => []TypeOK
<1>1. IInv => TypeOK
  BY DEF IInv
<1> QED
  BY <1>1, Invariance, PTL

(* No invocation plans evidence more often than its bound on rounds        *)
(* allows, one round aside.                                                *)
THEOREM RoundsStayBounded == Spec => []RoundsBounded
<1>1. IInv => RoundsBounded
  BY DEF IInv, InvocationsAreRight, Right, RoundsBounded
<1> QED
  BY <1>1, Invariance, PTL

(* The store is closed once nobody is at work on a run that was neither    *)
(* abandoned nor torn.                                                     *)
Settled == AtWork = {} /\ ~abandoned /\ NothingTorn => AllClosed(saved)

(* A step that the store does not depend on.                               *)
LEMMA RestKeeps ==
    ASSUME Settled, AtWork' = AtWork, abandoned' = abandoned, mishaps \subseteq mishaps',
           saved' = saved
    PROVE  Settled'
BY DEF Settled, NothingTorn, AllClosed

LEMMA SettledKeeps == ASSUME IInv, Settled, [Next]_vars PROVE Settled'
<1>1. ASSUME NEW i \in Invocations,
             Start(i) \/ Resume(i) \/ RunNode(i) \/ SaveCheckpoint(i) \/ Close(i)
      PROVE  Settled'
  <2>1. pc'[i] \in {"node", "saving", "closing", "savingLast"}
    <3>1. PICK step \in {"node", "saving", "closing", "savingLast"} :
             pc' = [pc EXCEPT ![i] = step]
      BY <1>1 DEF Start, Resume, RunNode, SaveCheckpoint, Save, Close, Go
    <3> QED
      BY <3>1 DEF IInv, TypeOK
  <2>2. i \in AtWork'
    BY <2>1 DEF AtWork
  <2> QED
    BY <2>2 DEF Settled
<1>2. ASSUME NEW i \in Invocations, SaveLast(i), NothingTorn' PROVE Settled'
  <2>1. AllClosed(state[i])
    BY <1>2 DEF SaveLast, IInv, InvocationsAreRight, Right
  <2>2. saved' = state[i]
    BY <1>2 DEF SaveLast, Save, Mishap, NothingTorn, Torn
  <2> QED
    BY <2>1, <2>2 DEF Settled, AllClosed
<1>3. ASSUME NEW i \in Invocations, SaveReport(i) \/ Finish(i) PROVE Settled'
  <2>1. pc[i] \in {"reporting", "finishing"}
        /\ \E step \in {"finishing", "idle"} : pc' = [pc EXCEPT ![i] = step]
    BY <1>3 DEF SaveReport, Finish, Leave, Go
  <2>2. AtWork' = AtWork
    BY <2>1 DEF AtWork, IInv, TypeOK
  <2>3. UNCHANGED <<saved, abandoned, mishaps>>
    BY <1>3 DEF SaveReport, Finish
  <2> QED
    BY <2>2, <2>3, RestKeeps
<1>4. ASSUME NEW i \in Invocations, Escape(i) PROVE Settled'
  BY <1>4 DEF Escape, Settled
<1>5. ASSUME NEW i \in Invocations, Crash(i), ~abandoned' PROVE Settled'
  <2>1. /\ pc[i] \in {"reporting", "finishing"} /\ pc' = [pc EXCEPT ![i] = "idle"]
        /\ abandoned' = abandoned /\ saved' = saved /\ mishaps \subseteq mishaps'
    BY <1>5 DEF Crash, Leave, Go, Mishap, shared, IInv, TypeOK
  <2>2. AtWork' = AtWork
    BY <2>1 DEF AtWork, IInv, TypeOK
  <2> QED
    BY <2>1, <2>2, RestKeeps
<1>6. ASSUME CompactReads \/ CompactDeletes, NothingTorn' PROVE Settled'
  <2>1. /\ saved' = saved /\ pc' = pc /\ abandoned' = abandoned
        /\ mishaps \subseteq mishaps'
    BY <1>6 DEF CompactReads, CompactDeletes, Mishap, NothingTorn, Torn, locals
  <2>2. AtWork' = AtWork
    BY <2>1 DEF AtWork
  <2> QED
    BY <2>1, <2>2, RestKeeps
<1>7. ASSUME UNCHANGED vars PROVE Settled'
  BY <1>7, RestKeeps DEF vars, shared, locals, AtWork
<1>8. ~NothingTorn' \/ abandoned' => Settled'
  BY DEF Settled
<1> QED
  BY <1>1, <1>2, <1>3, <1>4, <1>5, <1>6, <1>7, <1>8 DEF Next, Proceed

(* Whenever nobody is at work on a run that was neither abandoned nor torn *)
(* its latest checkpoint has no planned search task, and suspended ones    *)
(* only for a reviewer.                                                    *)
THEOREM TasksGetClosed == Spec => []TasksAreClosed
<1>1. Init => Settled
  BY UnusedIsSound DEF Init, NoCheckpoint, Settled, AllClosed
<1>2. IInv /\ Settled /\ [Next]_vars => Settled'
  BY SettledKeeps
<1>3. Settled => TasksAreClosed
  BY DEF Settled, TasksAreClosed, NothingTorn, AllClosed
<1> QED
  BY <1>1, <1>2, <1>3, Invariance, PTL DEF Spec

(* Only a cleared draft is reported, and only accidents give a run a       *)
(* second report.                                                          *)
THEOREM ReportsGetEarned == Spec => ReportsAreEarned
<1>1. IInv => (reports > 1 => mishaps # {})
  BY DEF IInv, TypeOK, ReportKnown
<1>2. ASSUME IInv, [Next]_vars, reports' > reports
      PROVE  \E i \in Invocations : /\ pc[i] = "reporting" /\ pc'[i] = "finishing"
                                    /\ state[i].verdict # "none"
  <2>1. reports \in Nat
    BY <1>2 DEF IInv, TypeOK
  <2>2. PICK i \in Invocations : SaveReport(i)
    <3>1. ~UNCHANGED reports
      BY <1>2, <2>1
    <3>2. ASSUME NEW i \in Invocations, \/ Start(i) \/ Resume(i) \/ RunNode(i)
                                        \/ SaveCheckpoint(i) \/ SaveLast(i) \/ Close(i)
                                        \/ Finish(i) \/ Escape(i) \/ Crash(i)
          PROVE  UNCHANGED reports
      BY <3>2 DEF Start, Resume, RunNode, SaveCheckpoint, SaveLast, Save, Close, Finish, Escape,
                  Crash, shared
    <3>3. CompactReads \/ CompactDeletes \/ UNCHANGED vars => UNCHANGED reports
      BY DEF CompactReads, CompactDeletes, vars, shared
    <3>4. Next
      BY <1>2, <3>1, <3>3
    <3> QED
      BY <3>1, <3>2, <3>3, <3>4 DEF Next, Proceed
  <2>3. pc[i] = "reporting" /\ pc'[i] = "finishing"
    BY <1>2, <2>2 DEF SaveReport, Go, IInv, TypeOK
  <2>4. state[i].final
    BY <1>2, <2>1, <2>2 DEF SaveReport
  <2>5. Sound(state[i])
    BY <1>2 DEF IInv, InvocationsAreRight, Right
  <2> QED
    BY <2>3, <2>4, <2>5 DEF Sound
<1>3. IInv /\ [Next]_vars =>
         [reports' > reports =>
             \E i \in Invocations : /\ pc[i] = "reporting" /\ pc'[i] = "finishing"
                                    /\ state[i].verdict # "none"]_vars
  BY <1>2
<1> QED
  BY <1>1, <1>3, Invariance, PTL DEF Spec, ReportsAreEarned

(* Unless something is torn, the chain of checkpoints implements           *)
(* ResearchFlow, whatever fails, crashes and is resumed.                   *)
LEMMA StepFollows == IInv /\ [Next]_vars => [mishaps' \cap Torn = {} => RF!Next]_RF!vars
<1> SUFFICES ASSUME IInv, [Next]_vars, NothingTorn', Stage(saved)' # Stage(saved) PROVE RF!Next
  BY DEF RF!vars, NothingTorn
<1>1. PICK i \in Invocations : \/ SaveCheckpoint(i) /\ pc[i] = "saving"
                               \/ SaveLast(i) /\ pc[i] = "savingLast"
  <2>1. saved' # saved
    OBVIOUS
  <2>2. ~CompactDeletes
    BY <2>1 DEF CompactDeletes, Mishap, NothingTorn, Torn
  <2> QED
    BY <2>1, <2>2 DEF Next, Start, Resume, Proceed, RunNode, SaveCheckpoint, SaveLast,
                      SaveReport, Close, Finish, Escape, Crash, CompactReads, shared, vars
<1>2. PICK next : Save(i, next)
  BY <1>1 DEF SaveCheckpoint, SaveLast
<1>3. saved' = state[i] /\ mishaps' = mishaps
  BY <1>2 DEF Save, Mishap, NothingTorn, Torn
<1>4. Follows(Stage(saved), Stage(state[i]))
  BY <1>1, <1>3 DEF IInv, NothingTorn, Calm, Continues
<1> QED
  BY <1>3, <1>4 DEF Follows, RF!Next, RF!Gate, RF!Human, RF!Report

THEOREM FlowIsFollowed == Spec => FollowsResearchFlow
<1>1. Init => RF!Init
  BY UnusedIsSound DEF Init, NoCheckpoint, RF!Init
<1> QED
  BY <1>1, StepFollows, Invariance, PTL DEF Spec, FollowsResearchFlow

-----------------------------------------------------------------------------
(* The length of an invocation.                                            *)

(* The evidence rounds that the loop counter still allows,                 *)
RoundsLeft(st) == IF st.loop < st.max THEN st.max - st.loop ELSE 0

(* the most nodes that can follow,                                         *)
NodesLeft(st) ==
    LET next == NextNode(st)
    IN CASE next = "plan_task" -> 4 * RoundsLeft(st) + 5
         [] next = "build_evidence" -> 4 * RoundsLeft(st) + 4
         [] next = "editor1_draft" -> 4 * RoundsLeft(st) + 3
         [] next = "chief_gate" -> 4 * RoundsLeft(st) + 2
         [] next \in {"human_review", "finalize_report"} -> 1
         [] OTHER -> 0

(* and the steps: each node has one and its checkpoint another.            *)
StepsOf(step, st) ==
    CASE step = "node" -> 2 * NodesLeft(st) + 4
      [] step = "saving" /\ ~st.error -> 2 * NodesLeft(st) + 5
      [] step = "saving" /\ st.error -> 5
      [] step = "closing" -> 4
      [] step = "savingLast" -> 3
      [] step = "reporting" -> 2
      [] step = "finishing" -> 1
      [] OTHER -> 0

StepsLeft(i) == StepsOf(pc[i], state[i])

LEMMA RoundsLeftIs ==
    ASSUME NEW st \in GraphState
    PROVE  RoundsLeft(st) \in Nat /\ RoundsLeft(st) <= st.max
<1>1. st.loop \in Nat /\ st.max \in Nat
  BY LoopIsNumber
<1> QED
  BY <1>1 DEF RoundsLeft

LEMMA NodesLeftIs ==
    ASSUME NEW st \in GraphState
    PROVE  /\ NodesLeft(st) \in Nat
           /\ NodesLeft(st) <= 4 * st.max + 5
           /\ NextNode(st) # "end" => NodesLeft(st) >= 1
<1>1. PICK next \in Nodes \cup {"end"} : next = NextNode(st)
  BY Routes
<1>2. PICK left \in Nat : left = RoundsLeft(st)
  BY RoundsLeftIs
<1>3. left <= st.max /\ st.max \in Nat
  BY <1>2, RoundsLeftIs, LoopIsNumber
<1>4. NodesLeft(st) = CASE next = "plan_task" -> 4 * left + 5
                        [] next = "build_evidence" -> 4 * left + 4
                        [] next = "editor1_draft" -> 4 * left + 3
                        [] next = "chief_gate" -> 4 * left + 2
                        [] next \in {"human_review", "finalize_report"} -> 1
                        [] OTHER -> 0
  BY <1>1, <1>2 DEF NodesLeft
<1>5. next \in {"plan_task", "build_evidence", "editor1_draft", "chief_gate", "human_review",
                "finalize_report", "end"}
  BY AllNodes
<1> QED
  BY <1>1, <1>3, <1>4, <1>5

(* A node that returns brings the end nearer: going round again costs one  *)
(* of the rounds, because the gate counts it.                              *)
LEMMA NodesGetFewer ==
    ASSUME NEW st \in GraphState, Sound(st), NextNode(st) # "end",
           NEW new, Returned(new, st)
    PROVE  NodesLeft(new) < NodesLeft(st)
<1>1. /\ new \in GraphState /\ ~new.error /\ Sound(new)
      /\ new.node = NextNode(st) /\ new.max = st.max /\ new.loop >= st.loop
  BY DEF Returned
<1>2. PICK node \in Nodes : node = NextNode(st) /\ new.node = node
  BY <1>1, GoesOn
<1>3. node # "none"
  BY AllNodes
<1>4. PICK left \in Nat : left = RoundsLeft(st)
  BY RoundsLeftIs
<1>5. PICK fewer \in Nat : fewer = RoundsLeft(new)
  BY <1>1, RoundsLeftIs
<1>6. /\ st.loop \in Nat /\ st.max \in Nat /\ new.loop \in Nat
  BY <1>1, LoopIsNumber
<1>7. fewer <= left
  BY <1>1, <1>4, <1>5, <1>6 DEF RoundsLeft
<1>8. CASE node = "plan_task"
  <2>1. NextNode(new) = "build_evidence"
    BY <1>1, <1>2, <1>3, <1>8, Routes
  <2>2. NodesLeft(new) = 4 * fewer + 4 /\ NodesLeft(st) = 4 * left + 5
    BY <1>2, <1>4, <1>5, <1>8, <2>1 DEF NodesLeft
  <2> QED
    BY <1>7, <2>2
<1>9. CASE node = "build_evidence"
  <2>1. NextNode(new) = "editor1_draft"
    BY <1>1, <1>2, <1>3, <1>9, Routes
  <2>2. NodesLeft(new) = 4 * fewer + 3 /\ NodesLeft(st) = 4 * left + 4
    BY <1>2, <1>4, <1>5, <1>9, <2>1 DEF NodesLeft
  <2> QED
    BY <1>7, <2>2
<1>10. CASE node = "editor1_draft"
  <2>1. NextNode(new) = "chief_gate"
    BY <1>1, <1>2, <1>3, <1>10, Routes
  <2>2. NodesLeft(new) = 4 * fewer + 2 /\ NodesLeft(st) = 4 * left + 3
    BY <1>2, <1>4, <1>5, <1>10, <2>1 DEF NodesLeft
  <2> QED
    BY <1>7, <2>2
<1>11. CASE node = "chief_gate"
  <2>1. NextNode(new) = Decided(new.decision)
    BY <1>1, <1>2, <1>3, <1>11, Routes
  <2>2. NodesLeft(st) = 4 * left + 2
    BY <1>2, <1>4, <1>11 DEF NodesLeft
  <2>3. new.decision \in {"PASS", "ADD_EVIDENCE", "HUMAN_REVIEW"}
    BY <1>1, <1>2, <1>11 DEF Sound
  <2>4. CASE new.decision = "ADD_EVIDENCE"
    <3>1. new.loop = st.loop + 1 /\ st.loop < st.max
      BY <1>2, <1>11, <2>4 DEF Returned
    <3>2. fewer + 1 = left
      BY <1>1, <1>4, <1>5, <1>6, <3>1 DEF RoundsLeft
    <3>3. NodesLeft(new) = 4 * fewer + 5
      BY <1>5, <2>1, <2>4 DEF Decided, NodesLeft
    <3> QED
      BY <2>2, <3>2, <3>3
  <2>5. CASE new.decision # "ADD_EVIDENCE"
    <3>1. NodesLeft(new) = 1
      BY <2>1, <2>3, <2>5 DEF Decided, NodesLeft
    <3> QED
      BY <2>2, <3>1
  <2> QED
    BY <2>4, <2>5
<1>12. CASE node \in {"human_review", "finalize_report"}
  <2>1. node = "human_review" => new.review = "pending"
    BY <1>2 DEF Returned
  <2>2. NextNode(new) = "end"
    BY <1>1, <1>2, <1>3, <1>12, <2>1, Routes DEF Reviewed
  <2>3. NodesLeft(new) = 0 /\ NodesLeft(st) = 1
    BY <1>2, <1>12, <2>2 DEF NodesLeft
  <2> QED
    BY <2>3
<1> QED
  BY <1>8, <1>9, <1>10, <1>11, <1>12, AllNodes

LEMMA StepsAreNumbers ==
    ASSUME NEW st \in GraphState, NEW step \in Steps
    PROVE  StepsOf(step, st) \in Nat
<1>1. PICK nodes \in Nat : nodes = NodesLeft(st)
  BY NodesLeftIs
<1>2. st.error \in BOOLEAN
  BY DEF GraphState
<1> QED
  BY <1>1, <1>2 DEF StepsOf, Steps

(* An invocation moves, and no other does.                                 *)
Moves(i, step, new) ==
    /\ pc'[i] = step /\ state'[i] = new
    /\ \A j \in Invocations \ {i} : pc'[j] = pc[j] /\ state'[j] = state[j]

LEMMA MovesAlone ==
    ASSUME TypeOK, NEW i \in Invocations, NEW step, NEW new,
           pc' = [pc EXCEPT ![i] = step], state' = [state EXCEPT ![i] = new]
    PROVE  Moves(i, step, new)
BY DEF TypeOK, Moves

(* What a node leaves,                                                     *)
LEMMA NodeMoves ==
    ASSUME IInv, NEW i \in Invocations, RunNode(i)
    PROVE  \E new \in GraphState :
              Moves(i, "saving", new) /\ StepsOf("saving", new) < StepsLeft(i)
<1>1. PICK st \in GraphState : st = state[i]
  BY DEF IInv, TypeOK
<1>2. pc[i] = "node" /\ Sound(st) /\ NextNode(st) # "end"
  BY <1>1 DEF RunNode, IInv, InvocationsAreRight, Right
<1>3. PICK new : /\ state' = [state EXCEPT ![i] = new]
                 /\ Returned(new, st) \/ Failed(new, st)
  <2>1. CASE \E after \in Results(NextNode(st), Retried(st)) :
               state' = [state EXCEPT ![i] = [after EXCEPT !.node = NextNode(st)]]
    BY <1>2, <2>1, NodeReturns
  <2>2. CASE state' = [state EXCEPT ![i] = [Retried(st) EXCEPT !.node = NextNode(st),
                                              !.error = TRUE, !.decision = "FAILED"]]
    BY <1>2, <2>2, NodeFails
  <2> QED
    BY <1>1, <2>1, <2>2 DEF RunNode
<1>4. Moves(i, "saving", new) /\ new \in GraphState
  BY <1>3, MovesAlone DEF IInv, RunNode, Go, Returned, Failed
<1>5. PICK before \in Nat : before = NodesLeft(st) /\ before >= 1
  BY <1>2, NodesLeftIs
<1>6. StepsLeft(i) = 2 * before + 4
  BY <1>1, <1>2, <1>5 DEF StepsLeft, StepsOf
<1>7. CASE Returned(new, st)
  <2>1. new \in GraphState /\ ~new.error
    BY <1>7 DEF Returned
  <2>2. PICK nodes \in Nat : nodes = NodesLeft(new)
    BY <2>1, NodesLeftIs
  <2>3. nodes < before
    BY <1>2, <1>5, <1>7, <2>2, NodesGetFewer
  <2>4. StepsOf("saving", new) = 2 * nodes + 5
    BY <2>1, <2>2 DEF StepsOf
  <2>5. StepsOf("saving", new) < StepsLeft(i)
    BY <1>5, <1>6, <2>2, <2>3, <2>4
  <2> QED
    BY <1>4, <2>5
<1>8. CASE Failed(new, st)
  <2>1. StepsOf("saving", new) = 5
    BY <1>8 DEF Failed, StepsOf
  <2> QED
    BY <1>4, <1>5, <1>6, <2>1
<1> QED
  BY <1>3, <1>7, <1>8

(* a checkpoint,                                                           *)
LEMMA CheckpointMoves ==
    ASSUME IInv, NEW i \in Invocations, SaveCheckpoint(i)
    PROVE  \E step \in Steps : /\ Moves(i, step, state[i])
                               /\ StepsOf(step, state[i]) < StepsLeft(i)
<1>1. PICK st \in GraphState : st = state[i]
  BY DEF IInv, TypeOK
<1>2. PICK step \in {"closing", "node"} :
         step = IF st.error \/ NextNode(st) = "end" THEN "closing" ELSE "node"
  OBVIOUS
<1>3. pc[i] = "saving" /\ pc' = [pc EXCEPT ![i] = step] /\ state' = state
  BY <1>1, <1>2 DEF SaveCheckpoint, Save, Go
<1>4. Moves(i, step, state[i])
  BY <1>3 DEF IInv, TypeOK, Moves
<1>5. PICK nodes \in Nat : nodes = NodesLeft(st)
  BY NodesLeftIs
<1>6. StepsOf(step, st) < StepsLeft(i)
  <2>1. CASE st.error
    <3>1. StepsOf(step, st) = 4 /\ StepsLeft(i) = 5
      BY <1>1, <1>2, <1>3, <2>1 DEF StepsLeft, StepsOf
    <3> QED
      BY <3>1
  <2>2. CASE ~st.error
    <3>1. StepsLeft(i) = 2 * nodes + 5
      BY <1>1, <1>3, <1>5, <2>2 DEF StepsLeft, StepsOf
    <3>2. StepsOf(step, st) \in {4, 2 * nodes + 4}
      BY <1>2, <1>5 DEF StepsOf
    <3> QED
      BY <3>1, <3>2
  <2> QED
    BY <2>1, <2>2
<1> QED
  BY <1>1, <1>2, <1>4, <1>6 DEF Steps

(* and every other step but the first bring an invocation nearer its end.  *)
LEMMA EndMoves ==
    ASSUME IInv, NEW i \in Invocations,
           Close(i) \/ SaveLast(i) \/ SaveReport(i) \/ Finish(i) \/ Escape(i)
    PROVE  \E step \in Steps, new \in GraphState :
              Moves(i, step, new) /\ StepsOf(step, new) < StepsLeft(i)
<1>0. state[i] \in GraphState /\ Unused \in GraphState
  BY UnusedIsSound DEF IInv, TypeOK
<1>1. CASE Close(i)
  <2>1. Moves(i, "savingLast", Closed(state[i]))
    BY <1>1, MovesAlone DEF Close, Go, IInv
  <2>2. StepsOf("savingLast", Closed(state[i])) = 3 /\ StepsLeft(i) = 4
    BY <1>1 DEF Close, StepsLeft, StepsOf
  <2>3. Closed(state[i]) \in GraphState
    BY <1>0, <1>1, ClosedKeeps DEF Close, IInv, InvocationsAreRight, Right
  <2> QED
    BY <2>1, <2>2, <2>3 DEF Steps
<1>2. CASE SaveLast(i)
  <2>1. Moves(i, "reporting", state[i])
    BY <1>2 DEF SaveLast, Save, Go, IInv, TypeOK, Moves
  <2>2. StepsOf("reporting", state[i]) = 2 /\ StepsLeft(i) = 3
    BY <1>2 DEF SaveLast, StepsLeft, StepsOf
  <2> QED
    BY <1>0, <2>1, <2>2 DEF Steps
<1>3. CASE SaveReport(i)
  <2>1. Moves(i, "finishing", state[i])
    BY <1>3 DEF SaveReport, Go, IInv, TypeOK, Moves
  <2>2. StepsOf("finishing", state[i]) = 1 /\ StepsLeft(i) = 2
    BY <1>3 DEF SaveReport, StepsLeft, StepsOf
  <2> QED
    BY <1>0, <2>1, <2>2 DEF Steps
<1>4. CASE Finish(i)
  <2>1. Moves(i, "idle", Unused)
    BY <1>4, MovesAlone DEF Finish, Leave, Go, IInv
  <2>2. StepsOf("idle", Unused) = 0 /\ StepsLeft(i) = 1
    BY <1>4 DEF Finish, StepsLeft, StepsOf
  <2> QED
    BY <1>0, <2>1, <2>2 DEF Steps
<1>5. CASE Escape(i)
  <2>1. Moves(i, "idle", Unused)
    BY <1>5, MovesAlone DEF Escape, Leave, Go, IInv
  <2>2. PICK nodes \in Nat : nodes = NodesLeft(state[i])
    BY <1>0, NodesLeftIs
  <2>3. StepsOf("idle", Unused) = 0 /\ StepsLeft(i) \in {4, 2 * nodes + 4}
    BY <1>5, <2>2 DEF Escape, StepsLeft, StepsOf
  <2>4. StepsOf("idle", Unused) < StepsLeft(i)
    BY <2>3
  <2> QED
    BY <1>0, <2>1, <2>4 DEF Steps
<1> QED
  BY <1>1, <1>2, <1>3, <1>4, <1>5

(* The first step.                                                         *)
LEMMA EntryMoves ==
    ASSUME IInv, NEW i \in Invocations, Start(i) \/ Resume(i)
    PROVE  \E step \in Steps, new \in GraphState :
              Moves(i, step, new) /\ StepsOf(step, new) <= 8 * new.max + 14
<1>1. PICK step \in {"node", "closing"}, new \in GraphState :
         state' = [state EXCEPT ![i] = new] /\ pc' = [pc EXCEPT ![i] = step]
  <2>1. CASE Start(i)
    <3>1. PICK max \in LoopCounts, strategy \in Strategies :
             state' = [state EXCEPT ![i] = Blank(max, strategy)]
      BY <2>1 DEF Start
    <3>2. Blank(max, strategy) \in GraphState
      BY BlankIsSound
    <3> QED
      BY <2>1, <3>1, <3>2 DEF Start, Go
  <2>2. CASE Resume(i)
    <3>1. PICK max \in LoopCounts, strategy \in Strategies, action \in Actions \cup {"none"} :
             state' = [state EXCEPT ![i] = Resumed(saved, max, strategy, action)]
      BY <2>2 DEF Resume, Resumed
    <3>2. saved \in GraphState /\ Sound(saved) /\ max \in Nat
      BY DEF IInv, TypeOK, CheckpointsAreSound
    <3>3. Resumed(saved, max, strategy, action) \in GraphState
      BY <3>2, ResumedState
    <3>4. PICK step \in {"node", "closing"} :
             step = IF NextNode(state'[i]) = "end" THEN "closing" ELSE "node"
      OBVIOUS
    <3>5. pc' = [pc EXCEPT ![i] = step]
      BY <2>2, <3>4 DEF Resume, Go
    <3> QED
      BY <3>1, <3>3, <3>5
  <2> QED
    BY <2>1, <2>2
<1>2. Moves(i, step, new)
  BY <1>1, MovesAlone DEF IInv
<1>3. PICK nodes \in Nat : nodes = NodesLeft(new)
  BY NodesLeftIs
<1>4. nodes <= 4 * new.max + 5 /\ new.max \in Nat
  BY <1>3, NodesLeftIs, LoopIsNumber
<1>5. StepsOf(step, new) \in {4, 2 * nodes + 4}
  BY <1>3 DEF StepsOf
<1>6. StepsOf(step, new) <= 8 * new.max + 14
  BY <1>4, <1>5
<1> QED
  BY <1>2, <1>6 DEF Steps

(* An invocation is short.  When it starts or resumes a run it is at most  *)
(* 8 * max_loop_count + 14 steps from its end: five nodes, four for every  *)
(* further round of evidence, a checkpoint after each, and the close of    *)
(* the run.  Every step it takes brings it nearer, and nothing that other  *)
(* invocations, a compaction or a crash do adds to what is left of it.     *)
THEOREM EveryInvocationIsShort ==
    Spec => [][\A i \in Invocations :
                  /\ Proceed(i) => StepsLeft(i)' < StepsLeft(i)
                  /\ Start(i) \/ Resume(i) => StepsLeft(i)' <= 8 * state'[i].max + 14
                  /\ StepsLeft(i)' <= StepsLeft(i) \/ Start(i) \/ Resume(i)]_vars
<1>1. ASSUME IInv, NEW i \in Invocations, Proceed(i)
      PROVE  \E step \in Steps, new \in GraphState :
              Moves(i, step, new) /\ StepsOf(step, new) < StepsLeft(i)
  <2>1. state[i] \in GraphState
    BY <1>1 DEF IInv, TypeOK
  <2>2. CASE RunNode(i)
    BY <1>1, <2>2, NodeMoves DEF Steps
  <2>3. CASE SaveCheckpoint(i)
    BY <1>1, <2>1, <2>3, CheckpointMoves
  <2> QED
    BY <1>1, <2>2, <2>3, EndMoves DEF Proceed
<1>2. ASSUME IInv, NEW i \in Invocations PROVE StepsLeft(i) \in Nat
  BY <1>2, StepsAreNumbers DEF IInv, TypeOK, Steps, StepsLeft
<1>3. ASSUME IInv, Next, NEW i \in Invocations,
             ~Start(i), ~Resume(i), ~Proceed(i)
      PROVE  StepsLeft(i)' <= StepsLeft(i)
  <2>1. StepsLeft(i) \in Nat
    BY <1>2, <1>3
  <2>2. CASE Crash(i)
    <3>1. Moves(i, "idle", Unused)
      BY <1>3, <2>2, MovesAlone DEF Crash, Leave, Go, IInv
    <3>2. StepsLeft(i)' = 0
      BY <3>1 DEF Moves, StepsLeft, StepsOf
    <3> QED
      BY <2>1, <3>2
  <2>3. CASE CompactReads \/ CompactDeletes
    <3>1. StepsLeft(i)' = StepsLeft(i)
      BY <2>3 DEF CompactReads, CompactDeletes, locals, StepsLeft
    <3> QED
      BY <2>1, <3>1
  <2>4. ASSUME NEW j \in Invocations \ {i},
               Start(j) \/ Resume(j) \/ Proceed(j) \/ Crash(j)
        PROVE  StepsLeft(i)' <= StepsLeft(i)
    <3>1. PICK step, new : Moves(j, step, new)
      <4>1. Crash(j) => Moves(j, "idle", Unused)
        BY <1>3, MovesAlone DEF Crash, Leave, Go, IInv
      <4> QED
        BY <1>1, <1>3, <2>4, <4>1, EntryMoves
    <3>2. StepsLeft(i)' = StepsLeft(i)
      BY <3>1 DEF Moves, StepsLeft
    <3> QED
      BY <2>1, <3>2
  <2> QED
    BY <1>3, <2>2, <2>3, <2>4 DEF Next
<1>4. ASSUME IInv, Next, NEW i \in Invocations
      PROVE  /\ Proceed(i) => StepsLeft(i)' < StepsLeft(i)
             /\ Start(i) \/ Resume(i) => StepsLeft(i)' <= 8 * state'[i].max + 14
             /\ StepsLeft(i)' <= StepsLeft(i) \/ Start(i) \/ Resume(i)
  <2>1. ASSUME Proceed(i) PROVE StepsLeft(i)' < StepsLeft(i)
    BY <1>1, <1>4, <2>1 DEF Moves, StepsLeft
  <2>2. ASSUME Start(i) \/ Resume(i) PROVE StepsLeft(i)' <= 8 * state'[i].max + 14
    BY <1>4, <2>2, EntryMoves DEF Moves, StepsLeft
  <2>3. ASSUME Proceed(i) PROVE StepsLeft(i)' <= StepsLeft(i)
    <3>1. PICK step \in Steps, new \in GraphState :
             Moves(i, step, new) /\ StepsOf(step, new) < StepsLeft(i)
      BY <1>1, <1>4, <2>3
    <3>2. StepsLeft(i)' = StepsOf(step, new) /\ StepsLeft(i)' < StepsLeft(i)
      BY <3>1 DEF Moves, StepsLeft
    <3>3. StepsLeft(i) \in Nat /\ StepsOf(step, new) \in Nat
      BY <1>2, <1>4, <3>1, StepsAreNumbers
    <3> QED
      BY <3>1, <3>2, <3>3
  <2> QED
    BY <1>3, <1>4, <2>1, <2>2, <2>3
<1>5. IInv /\ [Next]_vars =>
         [\A i \in Invocations :
             /\ Proceed(i) => StepsLeft(i)' < StepsLeft(i)
             /\ Start(i) \/ Resume(i) => StepsLeft(i)' <= 8 * state'[i].max + 14
             /\ StepsLeft(i)' <= StepsLeft(i) \/ Start(i) \/ Resume(i)]_vars
  BY <1>4
<1> QED
  BY <1>5, Invariance, PTL DEF Spec
=============================================================================
