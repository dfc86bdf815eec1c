-------------------------- MODULE TaskQueueProofs --------------------------
(***************************************************************************)
(* Theorems about TaskQueue for every number of tasks, workers, clients,   *)
(* attempts, retries and crashes.  The bounds on attempts rest on counting *)
(* what can still make a task run: its place in the queue, the attempts    *)
(* that workers carry, and the requeues they have decided on.  IInv says   *)
(* that together with what has been done these never outnumber the         *)
(* requests of clients (OneExecution, AttemptsLeft).  The last part is     *)
(* what liveness rests on: somebody works on every running task, and no    *)
(* attempt goes on for ever.                                               *)
(***************************************************************************)
EXTENDS TaskQueue, FiniteSetTheorems, SequenceTheorems, TLAPS

(* Attempts of a task that succeeded or are carried, and those whose       *)
(* worker is about to requeue the task.                                    *)
Carries(w, t, n) == job[w] = <<t, n>>
Live(t) == {n \in 1..Len(attempts[t]) :
              attempts[t][n] = "succeeded" \/ \E w \in Workers : Carries(w, t, n)}
Planned(t) == {n \in 1..Len(attempts[t]) :
                 \E w \in Workers : Carries(w, t, n) /\ plan[w] = "queued"}
InQueue(t) == IF status[t] = "queued" THEN 1 ELSE 0

OneCarrier == \A v, w \in Workers : job[v] = job[w] /\ job[v] # NoJob => v = w

PlanIsMade == \A w \in Workers : pc[w] = "closing" <=> plan[w] # "none"

SuccessIsKept ==
    \A w \in Workers : pc[w] = "taskSucceeded" => attempts[TaskOf(w)][AttemptOf(w)] = "succeeded"

RunHasEnded ==
    \A w \in Workers : pc[w] = "closing" =>
        runStatus[TaskOf(w)] \in RunTerminal \/ moved[TaskOf(w)]

OneExecution == \A t \in Tasks : Cardinality(Live(t)) + InQueue(t) <= 1 + retries[t]

AttemptsLeft ==
    \A t \in Tasks :
        Len(attempts[t]) + Cardinality(Planned(t)) + InQueue(t) <= MaxAttempts + retries[t]

LossesCounted == IsFiniteSet(Lost) /\ AttemptsAreClosed

Carrying == TypeOK /\ OneCarrier /\ PlanIsMade /\ SuccessIsKept

IInv ==
    /\ Carrying
    /\ RunHasEnded
    /\ TaskEndsRun
    /\ OneExecution
    /\ AttemptsLeft
    /\ LossesCounted

USE QueueAssumption

-----------------------------------------------------------------------------
(* Attempts, and the sets of their numbers.                                *)

LEMMA PairsAreJobs == \A t, n : <<t, n>> # NoJob
BY DEF NoJob

LEMMA CarriedAttempt ==
    ASSUME TypeOK, NEW w \in Workers, pc[w] # "idle"
    PROVE  /\ TaskOf(w) \in Tasks /\ AttemptOf(w) \in 1..Len(attempts[TaskOf(w)])
           /\ job[w] = <<TaskOf(w), AttemptOf(w)>> /\ job[w] # NoJob
<1>1. job[w] \in Tasks \X Nat
  BY DEF TypeOK
<1> QED
  BY <1>1 DEF TypeOK, TaskOf, AttemptOf

(* The flush of an attempt's status changes that attempt only.             *)
LEMMA AttemptSetFacts ==
    ASSUME TypeOK, NEW w \in Workers, pc[w] # "idle", NEW s \in AttemptStatus,
           attempts' = AttemptSet(w, s)
    PROVE  /\ attempts' \in [Tasks -> Seq(AttemptStatus)]
           /\ \A t \in Tasks :
                 /\ Len(attempts'[t]) = Len(attempts[t])
                 /\ \A n \in 1..Len(attempts[t]) :
                       attempts'[t][n] = IF job[w] = <<t, n>> THEN s ELSE attempts[t][n]
<1> DEFINE task == TaskOf(w)
           number == AttemptOf(w)
           row == [attempts[task] EXCEPT ![number] = s]
<1>1. task \in Tasks /\ number \in 1..Len(attempts[task]) /\ job[w] = <<task, number>>
  BY CarriedAttempt
<1>2. attempts \in [Tasks -> Seq(AttemptStatus)] /\ attempts[task] \in Seq(AttemptStatus)
  BY <1>1 DEF TypeOK
<1>3. attempts' = [attempts EXCEPT ![task] = row]
  BY DEF AttemptSet
<1>4. /\ row \in Seq(AttemptStatus) /\ Len(row) = Len(attempts[task])
      /\ \A n \in 1..Len(attempts[task]) : row[n] = IF n = number THEN s ELSE attempts[task][n]
  BY <1>1, <1>2, ExceptSeq
<1> HIDE DEF row
<1>5. \A t \in Tasks : attempts'[t] = IF t = task THEN row ELSE attempts[t]
  BY <1>2, <1>3
<1>6. attempts' \in [Tasks -> Seq(AttemptStatus)]
  BY <1>2, <1>3, <1>4
<1> HIDE DEF task, number
<1> QED
  BY <1>1, <1>4, <1>5, <1>6

LEMMA OneMore ==
    ASSUME NEW S, IsFiniteSet(S), NEW x, NEW T \in SUBSET (S \cup {x})
    PROVE  /\ IsFiniteSet(T) /\ Cardinality(T) \in Nat /\ Cardinality(S) \in Nat
           /\ Cardinality(T) <= Cardinality(S) + 1
<1>1. IsFiniteSet(S \cup {x})
      /\ Cardinality(S \cup {x}) = IF x \in S THEN Cardinality(S) ELSE Cardinality(S) + 1
  BY FS_AddElement
<1>2. IsFiniteSet(T) /\ Cardinality(T) <= Cardinality(S \cup {x})
  BY <1>1, FS_Subset
<1>3. Cardinality(T) \in Nat /\ Cardinality(S) \in Nat
  BY <1>2, FS_CardinalityType
<1> QED
  BY <1>1, <1>2, <1>3

LEMMA OneLess ==
    ASSUME NEW S, IsFiniteSet(S), NEW x \in S, NEW T \in SUBSET (S \ {x})
    PROVE  /\ IsFiniteSet(T) /\ Cardinality(T) \in Nat /\ Cardinality(S) \in Nat
           /\ Cardinality(T) + 1 <= Cardinality(S)
<1>1. IsFiniteSet(S \ {x}) /\ Cardinality(S \ {x}) = Cardinality(S) - 1
  BY FS_RemoveElement
<1>2. IsFiniteSet(T) /\ Cardinality(T) <= Cardinality(S \ {x})
  BY <1>1, FS_Subset
<1>3. Cardinality(T) \in Nat /\ Cardinality(S) \in Nat
  BY <1>2, FS_CardinalityType
<1> QED
  BY <1>1, <1>2, <1>3

LEMMA NumbersAreFinite ==
    ASSUME TypeOK, NEW t \in Tasks, NEW S \in SUBSET (1..Len(attempts[t]))
    PROVE  IsFiniteSet(S) /\ Cardinality(S) \in Nat
<1>1. Len(attempts[t]) \in Nat
  BY DEF TypeOK
<1>2. IsFiniteSet(1..Len(attempts[t]))
  BY <1>1, FS_Interval
<1> QED
  BY <1>2, FS_Subset, FS_CardinalityType

-----------------------------------------------------------------------------
(* Steps.                                                                  *)

ClientStep(c, t) ==
    \/ CancelSeesQueuedRun(c, t)
    \/ CancelRun(c, t)
    \/ CancelFindsTask(c, t)
    \/ CancelReadsTask(c, t)
    \/ RetryReadsTask(c, t)

(* A worker that ends a run has an attempt to close, and requeues its task *)
(* only if it has counted attempts left.                                   *)
Ends(w, to, next) ==
    /\ pc[w] \in {"executing", "taskSucceeded"}
    /\ to \in {"failed", "cancelled"}
    /\ next \in {"queued", "failed", "dead_letter", "cancelled"}
    /\ next = "queued" => Len(attempts[TaskOf(w)]) < MaxAttempts
    /\ EndRun(w, to, next)
    /\ refused' = IF pc[w] = "executing" THEN refused
                  ELSE [refused EXCEPT ![TaskOf(w)] = @ + 1]

LEMMA RunIsEnded ==
    ASSUME NEW w \in Workers, ObserveCancel(w) \/ Fail(w)
    PROVE  \E to, next : Ends(w, to, next)
BY DEF ObserveCancel, Fail, FailRetryable, MayRetry, Ends

LEMMA StepCases ==
    ASSUME Next
    PROVE  \/ \E w \in Workers, t \in Tasks : ClaimNext(w, t)
           \/ \E w \in Workers : MarkRunRunning(w) \/ MarkSucceeded(w) \/ MarkRunSucceeded(w)
           \/ \E w \in Workers : \E to, next : Ends(w, to, next)
           \/ \E w \in Workers : CloseAttempt(w) \/ Crash(w)
           \/ \E t \in Tasks : RequestCancel(t)
           \/ \E c \in Clients, t \in Tasks : ClientStep(c, t)
           \/ \E c \in Clients, t \in Tasks : CancelTask(c, t) \/ RetryTask(c, t)
BY RunIsEnded DEF Next, Work, Request, ClientStep

-----------------------------------------------------------------------------
LEMMA InitEstablishesIInv == Init => IInv
<1> SUFFICES ASSUME Init PROVE IInv
  OBVIOUS
<1>1. attempts = [t \in Tasks |-> <<>>] /\ \A t \in Tasks : Len(attempts[t]) = 0
  BY DEF Init
<1>2. TypeOK
  <2>1. attempts \in [Tasks -> Seq(AttemptStatus)]
    BY <1>1
  <2>2. runStatus \in [Tasks -> RunStatus] /\ status \in [Tasks -> TaskStatus]
        /\ known \in [Workers -> TaskStatus]
    BY DEF Init, RunStatus, TaskStatus, TaskTerminal
  <2>3. /\ executor \in [Tasks -> Executors] /\ crashes \in Nat
        /\ done \in [Tasks -> Nat] /\ refused \in [Tasks -> Nat]
    BY DEF Init
  <2> QED
    BY <2>1, <2>2, <2>3 DEF Init, TypeOK
<1>3. OneCarrier /\ PlanIsMade /\ SuccessIsKept /\ RunHasEnded /\ TaskEndsRun
  BY DEF Init, OneCarrier, PlanIsMade, SuccessIsKept, RunHasEnded, TaskEndsRun
<1>4. OneExecution /\ AttemptsLeft
  <2> SUFFICES ASSUME NEW t \in Tasks
               PROVE  /\ Cardinality(Live(t)) + InQueue(t) <= 1 + retries[t]
                      /\ Len(attempts[t]) + Cardinality(Planned(t)) + InQueue(t)
                            <= MaxAttempts + retries[t]
    BY DEF OneExecution, AttemptsLeft
  <2>1. Live(t) = {} /\ Planned(t) = {}
    BY <1>1 DEF Live, Planned
  <2>2. InQueue(t) = 1 /\ retries[t] = 0
    BY DEF Init, InQueue
  <2> QED
    BY <1>1, <2>1, <2>2, FS_EmptySet
<1>5. LossesCounted
  <2>1. Lost = {}
    BY <1>1 DEF Lost, Numbered
  <2> QED
    BY <2>1, FS_EmptySet DEF LossesCounted, AttemptsAreClosed, Init
<1> QED
  BY <1>2, <1>3, <1>4, <1>5 DEF IInv, Carrying

-----------------------------------------------------------------------------
(* Types, and who carries which attempt.                                   *)

LEMMA CasFacts ==
    ASSUME TypeOK, NEW t \in Tasks, NEW from, NEW to \in RunStatus, Cas(t, from, to)
    PROVE  /\ runStatus' \in [Tasks -> RunStatus]
           /\ \A u \in Tasks : runStatus'[u] # runStatus[u] =>
                 u = t /\ ~moved[t] /\ runStatus[t] \in from /\ runStatus'[t] = to
           /\ ~moved[t] /\ runStatus[t] \in from => runStatus'[t] = to
BY DEF Cas, TypeOK

LEMMA FlushedType ==
    ASSUME TypeOK, NEW w \in Workers, pc[w] # "idle", NEW s \in TaskStatus,
           status' = Flushed(w, s)
    PROVE  /\ status' \in [Tasks -> TaskStatus]
           /\ \A t \in Tasks : status'[t] # status[t] => t = TaskOf(w) /\ status'[t] = s
BY CarriedAttempt DEF Flushed, TypeOK

LEMMA CallType ==
    ASSUME TypeOK, NEW c \in Clients, NEW t \in Tasks,
           \/ Answer(c) \/ UNCHANGED call
           \/ \E step \in {"cancelRun", "findTask", "cancelTask", "retryTask"} : GoTo(c, step, t)
    PROVE  call' \in [Clients -> {NoCall} \cup
                         ({"cancelRun", "findTask", "cancelTask", "retryTask"} \X Tasks)]
<1> DEFINE steps == {"cancelRun", "findTask", "cancelTask", "retryTask"}
           calls == {NoCall} \cup (steps \X Tasks)
<1>1. call \in [Clients -> calls]
  BY DEF TypeOK
<1>2. NoCall \in calls /\ \A step \in steps : <<step, t>> \in calls
  OBVIOUS
<1>3. PICK new \in calls : call' = [call EXCEPT ![c] = new] \/ call' = call
  BY <1>2 DEF Answer, GoTo
<1> HIDE DEF calls
<1>4. call' \in [Clients -> calls]
  BY <1>1, <1>3
<1> QED
  BY <1>4 DEF calls

LEMMA CountedUp ==
    ASSUME NEW S, NEW f \in [S -> Nat], NEW x \in S
    PROVE  [f EXCEPT ![x] = @ + 1] \in [S -> Nat]
OBVIOUS

LEMMA CarryingPreserved == Carrying /\ [Next]_vars => Carrying'
<1> SUFFICES ASSUME Carrying, [Next]_vars PROVE Carrying'
  OBVIOUS
<1> USE DEF Carrying, rows, locals, history
<1>0. CASE UNCHANGED vars
  BY <1>0 DEF vars, TypeOK, OneCarrier, PlanIsMade, SuccessIsKept, TaskOf, AttemptOf
<1>1. ASSUME NEW w \in Workers, NEW t \in Tasks, ClaimNext(w, t) PROVE Carrying'
  <2> DEFINE n == Len(attempts[t]) + 1
  <2>1. /\ attempts[t] \in Seq(AttemptStatus) /\ n \in Nat
        /\ attempts' = [attempts EXCEPT ![t] = Append(@, "running")]
        /\ job' = [job EXCEPT ![w] = <<t, n>>]
        /\ pc' = [pc EXCEPT ![w] = "claimed"] /\ pc[w] = "idle"
    BY <1>1 DEF ClaimNext, TypeOK
  <2>2. attempts' \in [Tasks -> Seq(AttemptStatus)]
    BY <2>1, AppendProperties DEF TypeOK, AttemptStatus
  <2>3. \A u \in Tasks :
           /\ Len(attempts'[u]) = IF u = t THEN n ELSE Len(attempts[u])
           /\ \A m \in 1..Len(attempts[u]) : attempts'[u][m] = attempts[u][m]
    BY <2>1, AppendProperties DEF TypeOK, AttemptStatus
  <2>4. \A v \in Workers \ {w} : job'[v] = job[v] /\ pc'[v] = pc[v] /\ job[v] # <<t, n>>
    <3> SUFFICES ASSUME NEW v \in Workers \ {w}, job[v] = <<t, n>> PROVE FALSE
      BY <2>1 DEF TypeOK
    <3>1. pc[v] # "idle"
      BY PairsAreJobs DEF TypeOK
    <3> QED
      BY <2>1, <3>1 DEF TypeOK, TaskOf, AttemptOf
  <2>5. job'[w] = <<t, n>>
    BY <2>1 DEF TypeOK
  <2>6. TypeOK'
    <3>1. ASSUME NEW v \in Workers, pc'[v] # "idle"
          PROVE  job'[v] # NoJob /\ job'[v][2] \in 1..Len(attempts'[job'[v][1]])
      <4>1. CASE v = w
        BY <2>1, <2>3, <2>5, <4>1, PairsAreJobs
      <4>2. CASE v # w
        BY <2>1, <2>3, <2>4, <3>1, <4>2, CarriedAttempt DEF TaskOf, AttemptOf, TypeOK
      <4> QED
        BY <4>1, <4>2
    <3>2. \A v \in Workers : pc'[v] = "idle" => job'[v] = NoJob
      BY <2>1, <2>4 DEF TypeOK
    <3>3. /\ status' \in [Tasks -> TaskStatus]
          /\ job' \in [Workers -> {NoJob} \cup (Tasks \X Nat)]
          /\ pc' \in [Workers -> {"idle", "claimed", "executing", "taskSucceeded", "closing"}]
      BY <1>1, <2>1 DEF ClaimNext, TypeOK, TaskStatus
    <3> QED
      BY <1>1, <2>2, <3>1, <3>2, <3>3 DEF ClaimNext, TypeOK, TaskOf, AttemptOf
  <2>7. OneCarrier'
    BY <2>4, <2>5 DEF OneCarrier
  <2>8. PlanIsMade'
    BY <1>1, <2>1, <2>4 DEF ClaimNext, PlanIsMade, TypeOK
  <2>9. SuccessIsKept'
    BY <2>1, <2>3, <2>4, CarriedAttempt DEF SuccessIsKept, TaskOf, AttemptOf, TypeOK
  <2> QED
    BY <2>6, <2>7, <2>8, <2>9
<1>2. ASSUME NEW w \in Workers, MarkRunRunning(w) PROVE Carrying'
  <2>1. /\ runStatus' \in [Tasks -> RunStatus]
        /\ known' \in [Workers -> TaskStatus]
        /\ pc' = [pc EXCEPT ![w] = "executing"] /\ pc[w] = "claimed"
    BY <1>2, CasFacts, CarriedAttempt DEF MarkRunRunning, RunStatus, TypeOK
  <2> QED
    BY <1>2, <2>1 DEF MarkRunRunning, TypeOK, OneCarrier, PlanIsMade, SuccessIsKept, TaskOf,
                      AttemptOf
<1>3. ASSUME NEW w \in Workers, MarkSucceeded(w) PROVE Carrying'
  <2>1. /\ pc' = [pc EXCEPT ![w] = "taskSucceeded"] /\ pc[w] = "executing"
        /\ attempts' = AttemptSet(w, "succeeded") /\ status' = Flushed(w, "succeeded")
    BY <1>3 DEF MarkSucceeded
  <2>2. status' \in [Tasks -> TaskStatus]
    BY <2>1, FlushedType DEF TaskStatus, TaskTerminal, RunTerminal
  <2>3. moved' \in [Tasks -> BOOLEAN] /\ done' \in [Tasks -> Nat]
    <3>1. moved' \in [Tasks -> BOOLEAN]
      BY <1>3 DEF MarkSucceeded, TypeOK
    <3>2. done \in [Tasks -> Nat] /\ done' = [done EXCEPT ![TaskOf(w)] = @ + 1]
      BY <1>3 DEF MarkSucceeded, TypeOK
    <3> QED
      BY <2>1, <3>1, <3>2, CountedUp, CarriedAttempt
  <2>4. /\ attempts' \in [Tasks -> Seq(AttemptStatus)]
        /\ \A t \in Tasks :
              /\ Len(attempts'[t]) = Len(attempts[t])
              /\ \A n \in 1..Len(attempts[t]) :
                    attempts'[t][n] = IF job[w] = <<t, n>> THEN "succeeded" ELSE attempts[t][n]
    BY <2>1, AttemptSetFacts DEF AttemptStatus
  <2>0. UNCHANGED <<executor, runStatus, cancelWanted, job, known, plan, call, retries, crashes,
                    refused>>
    BY <1>3 DEF MarkSucceeded
  <2>5. TypeOK'
    BY <2>0, <2>1, <2>2, <2>3, <2>4, CarriedAttempt DEF TypeOK, TaskOf, AttemptOf
  <2>6. OneCarrier' /\ PlanIsMade'
    BY <2>0, <2>1 DEF OneCarrier, PlanIsMade, TypeOK
  <2>7. SuccessIsKept'
    BY <2>0, <2>1, <2>4, CarriedAttempt DEF SuccessIsKept, TypeOK, TaskOf, AttemptOf
  <2> QED
    BY <2>5, <2>6, <2>7
<1>4. ASSUME NEW w \in Workers, MarkRunSucceeded(w) PROVE Carrying'
  <2>1. runStatus' \in [Tasks -> RunStatus]
    BY <1>4, CasFacts, CarriedAttempt DEF MarkRunSucceeded, RunStatus, RunTerminal
  <2> QED
    BY <1>4, <2>1 DEF MarkRunSucceeded, TypeOK, OneCarrier, PlanIsMade, SuccessIsKept, TaskOf,
                      AttemptOf
<1>5. ASSUME NEW w \in Workers, NEW to, NEW next, Ends(w, to, next) PROVE Carrying'
  <2>1. /\ runStatus' \in [Tasks -> RunStatus]
        /\ known' \in [Workers -> TaskStatus]
    BY <1>5, CasFacts, CarriedAttempt DEF Ends, EndRun, RunStatus, RunTerminal, TypeOK
  <2>2. refused' \in [Tasks -> Nat]
    <3>1. /\ refused \in [Tasks -> Nat]
          /\ refused' = refused \/ refused' = [refused EXCEPT ![TaskOf(w)] = @ + 1]
      BY <1>5 DEF Ends, TypeOK
    <3>2. TaskOf(w) \in Tasks
      BY <1>5, CarriedAttempt DEF Ends
    <3> QED
      BY <3>1, <3>2, CountedUp
  <2> QED
    BY <1>5, <2>1, <2>2 DEF Ends, EndRun, TypeOK, OneCarrier, PlanIsMade, SuccessIsKept, TaskOf,
                      AttemptOf
<1>6. ASSUME NEW w \in Workers, CloseAttempt(w) PROVE Carrying'
  <2>1. /\ pc' = [pc EXCEPT ![w] = "idle"] /\ pc[w] = "closing"
        /\ job' = [job EXCEPT ![w] = NoJob] /\ plan' = [plan EXCEPT ![w] = "none"]
        /\ attempts' = AttemptSet(w, ClosedAs(plan[w])) /\ status' = Flushed(w, plan[w])
    BY <1>6 DEF CloseAttempt
  <2>2. plan[w] \in {"queued", "failed", "dead_letter", "cancelled"}
    BY <2>1 DEF PlanIsMade, TypeOK
  <2>3. status' \in [Tasks -> TaskStatus]
    BY <2>1, <2>2, FlushedType DEF TaskStatus, TaskTerminal, RunTerminal
  <2>4. ClosedAs(plan[w]) \in AttemptStatus
    BY <2>2 DEF ClosedAs, AttemptStatus
  <2>5. /\ attempts' \in [Tasks -> Seq(AttemptStatus)]
        /\ \A t \in Tasks :
              /\ Len(attempts'[t]) = Len(attempts[t])
              /\ \A n \in 1..Len(attempts[t]) :
                    attempts'[t][n] = IF job[w] = <<t, n>> THEN ClosedAs(plan[w])
                                      ELSE attempts[t][n]
    BY <2>1, <2>4, AttemptSetFacts
  <2>6. TypeOK'
    BY <1>6, <2>1, <2>3, <2>5, CarriedAttempt DEF CloseAttempt, TypeOK, TaskOf, AttemptOf
  <2>7. OneCarrier' /\ PlanIsMade'
    BY <1>6, <2>1 DEF CloseAttempt, OneCarrier, PlanIsMade, TypeOK
  <2>8. SuccessIsKept'
    <3> SUFFICES ASSUME NEW v \in Workers, pc'[v] = "taskSucceeded"
                 PROVE  attempts'[TaskOf(v)][AttemptOf(v)] = "succeeded" /\ job'[v] = job[v]
      BY DEF SuccessIsKept, TaskOf, AttemptOf
    <3>1. v # w /\ pc[v] = "taskSucceeded" /\ job'[v] = job[v]
      BY <2>1 DEF TypeOK
    <3>2. job[v] # job[w]
      BY <2>1, <3>1, CarriedAttempt DEF OneCarrier
    <3>3. /\ TaskOf(v) \in Tasks /\ AttemptOf(v) \in 1..Len(attempts[TaskOf(v)])
          /\ job[v] = <<TaskOf(v), AttemptOf(v)>>
      BY <3>1, CarriedAttempt
    <3>4. attempts'[TaskOf(v)][AttemptOf(v)] = attempts[TaskOf(v)][AttemptOf(v)]
      BY <2>5, <3>2, <3>3
    <3> QED
      BY <3>1, <3>4 DEF SuccessIsKept
  <2> QED
    BY <2>6, <2>7, <2>8
<1>7. ASSUME NEW w \in Workers, Crash(w) PROVE Carrying'
  BY <1>7 DEF Crash, TypeOK, OneCarrier, PlanIsMade, SuccessIsKept, TaskOf, AttemptOf
<1>8. ASSUME NEW t \in Tasks, RequestCancel(t) PROVE Carrying'
  BY <1>8 DEF RequestCancel, TypeOK, OneCarrier, PlanIsMade, SuccessIsKept, TaskOf, AttemptOf
<1>9. ASSUME NEW c \in Clients, NEW t \in Tasks, ClientStep(c, t) PROVE Carrying'
  <2>1. /\ call' \in [Clients -> {NoCall} \cup
                         ({"cancelRun", "findTask", "cancelTask", "retryTask"} \X Tasks)]
        /\ runStatus' \in [Tasks -> RunStatus]
    <3>1. Answer(c) \/ UNCHANGED call
             \/ \E step \in {"cancelRun", "findTask", "cancelTask", "retryTask"} : GoTo(c, step, t)
      BY <1>9 DEF ClientStep, CancelSeesQueuedRun, CancelRun, CancelFindsTask, CancelReadsTask,
                  RetryReadsTask
    <3>2. runStatus' = runStatus \/ runStatus' = [runStatus EXCEPT ![t] = "cancelled"]
      BY <1>9 DEF ClientStep, CancelSeesQueuedRun, CancelRun, CancelFindsTask, CancelReadsTask,
                  RetryReadsTask
    <3> QED
      BY <3>1, <3>2, CallType DEF TypeOK, RunStatus, RunTerminal
  <2>2. UNCHANGED <<executor, status, attempts, moved, cancelWanted, locals, retries, crashes,
                  history>>
    BY <1>9 DEF ClientStep, CancelSeesQueuedRun, CancelRun, CancelFindsTask, CancelReadsTask,
                RetryReadsTask
  <2> QED
    BY <2>1, <2>2 DEF TypeOK, OneCarrier, PlanIsMade, SuccessIsKept, TaskOf, AttemptOf
<1>10. ASSUME NEW c \in Clients, NEW t \in Tasks, CancelTask(c, t) \/ RetryTask(c, t)
       PROVE  Carrying'
  <2>1. /\ status' \in [Tasks -> TaskStatus]
        /\ retries' \in [Tasks -> Nat]
        /\ call' \in [Clients -> {NoCall} \cup
                         ({"cancelRun", "findTask", "cancelTask", "retryTask"} \X Tasks)]
    <3>1. Answer(c)
      BY <1>10 DEF CancelTask, RetryTask
    <3>2. \/ retries' = retries /\ status' = [status EXCEPT ![t] = "cancelled"]
          \/ /\ retries' = [retries EXCEPT ![t] = @ + 1]
             /\ status' = [status EXCEPT ![t] = "queued"]
      BY <1>10 DEF CancelTask, RetryTask
    <3>3. retries' \in [Tasks -> Nat]
      BY <3>2 DEF TypeOK
    <3>4. status' \in [Tasks -> TaskStatus]
      BY <3>2 DEF TypeOK, TaskStatus, TaskTerminal, RunTerminal
    <3> QED
      BY <3>1, <3>3, <3>4, CallType
  <2> QED
    BY <1>10, <2>1 DEF CancelTask, RetryTask, TypeOK, OneCarrier, PlanIsMade, SuccessIsKept,
                       TaskOf, AttemptOf
<1> QED
  BY <1>0, <1>1, <1>2, <1>3, <1>4, <1>5, <1>6, <1>7, <1>8, <1>9, <1>10, StepCases

-----------------------------------------------------------------------------
(* Runs: what has ended stays ended, and a closing worker's run has ended. *)

Ended(t) == runStatus[t] \in RunTerminal \/ moved[t]

(* The conditional UPDATE of a run: it matches no run that has ended.      *)
LEMMA RunStatusMoves == Carrying /\ Next =>
    \/ runStatus' = runStatus
    \/ \E t \in Tasks :
          \/ runStatus[t] = "queued" /\ runStatus' = [runStatus EXCEPT ![t] = "running"]
          \/ /\ runStatus[t] \in {"queued", "running"}
             /\ \E s \in RunTerminal : runStatus' = [runStatus EXCEPT ![t] = s]
<1> SUFFICES ASSUME Carrying, Next, runStatus' # runStatus
             PROVE  \E t \in Tasks :
                       \/ /\ runStatus[t] = "queued"
                          /\ runStatus' = [runStatus EXCEPT ![t] = "running"]
                       \/ /\ runStatus[t] \in {"queued", "running"}
                          /\ \E s \in RunTerminal : runStatus' = [runStatus EXCEPT ![t] = s]
  OBVIOUS
<1> USE DEF Carrying, Cas, Unfinished
<1>1. ASSUME NEW w \in Workers, MarkRunRunning(w)
      PROVE  /\ TaskOf(w) \in Tasks /\ runStatus[TaskOf(w)] = "queued"
             /\ runStatus' = [runStatus EXCEPT ![TaskOf(w)] = "running"]
  BY <1>1, CarriedAttempt DEF MarkRunRunning
<1>2. ASSUME NEW w \in Workers, MarkRunSucceeded(w)
      PROVE  /\ TaskOf(w) \in Tasks /\ runStatus[TaskOf(w)] \in {"queued", "running"}
             /\ runStatus' = [runStatus EXCEPT ![TaskOf(w)] = "succeeded"]
  BY <1>2, CarriedAttempt DEF MarkRunSucceeded
<1>3. ASSUME NEW w \in Workers, NEW to, NEW next, Ends(w, to, next)
      PROVE  /\ TaskOf(w) \in Tasks /\ runStatus[TaskOf(w)] \in {"queued", "running"}
             /\ to \in RunTerminal /\ runStatus' = [runStatus EXCEPT ![TaskOf(w)] = to]
  BY <1>3, CarriedAttempt DEF Ends, EndRun, RunTerminal
<1>4. ASSUME NEW c \in Clients, NEW t \in Tasks, ClientStep(c, t)
      PROVE  /\ runStatus[t] \in {"queued", "running"}
             /\ runStatus' = [runStatus EXCEPT ![t] = "cancelled"]
  BY <1>4 DEF ClientStep, CancelSeesQueuedRun, CancelRun, CancelFindsTask, CancelReadsTask,
              RetryReadsTask, rows
<1>5. /\ \A w \in Workers : /\ \A t \in Tasks : ~ClaimNext(w, t)
                            /\ ~MarkSucceeded(w) /\ ~CloseAttempt(w) /\ ~Crash(w)
      /\ \A t \in Tasks : /\ ~RequestCancel(t)
                          /\ \A c \in Clients : ~CancelTask(c, t) /\ ~RetryTask(c, t)
  BY DEF ClaimNext, MarkSucceeded, CloseAttempt, Crash, RequestCancel, CancelTask, RetryTask, rows
<1>6. "succeeded" \in RunTerminal /\ "cancelled" \in RunTerminal
  BY DEF RunTerminal
<1> HIDE DEF Cas, Unfinished, Carrying
<1> QED
  BY <1>1, <1>2, <1>3, <1>4, <1>5, <1>6, StepCases

LEMMA MovedStays == Carrying /\ Next => \A t \in Tasks : moved[t] => moved'[t]
<1> SUFFICES ASSUME Carrying, Next, moved' # moved PROVE \A t \in Tasks : moved[t] => moved'[t]
  OBVIOUS
<1>1. PICK w \in Workers : MarkSucceeded(w)
  BY StepCases DEF ClaimNext, MarkRunRunning, MarkRunSucceeded, Ends, EndRun, CloseAttempt,
                   Crash, RequestCancel, ClientStep, CancelSeesQueuedRun, CancelRun,
                   CancelFindsTask, CancelReadsTask, RetryReadsTask, CancelTask, RetryTask, rows
<1> QED
  BY <1>1 DEF MarkSucceeded, Carrying, TypeOK

LEMMA EndedStays == Carrying /\ [Next]_vars => \A t \in Tasks : Ended(t) => Ended(t)'
<1> SUFFICES ASSUME Carrying, Next, NEW t \in Tasks, Ended(t) PROVE Ended(t)'
  BY DEF vars, rows, Ended
<1>1. CASE moved[t]
  BY <1>1, MovedStays DEF Ended
<1>2. CASE runStatus[t] \in RunTerminal
  BY <1>2, RunStatusMoves DEF Ended, RunTerminal, Carrying, TypeOK
<1> QED
  BY <1>1, <1>2 DEF Ended

LEMMA EndsMeansEnded ==
    ASSUME Carrying, NEW w \in Workers, pc[w] # "idle", NEW to \in RunTerminal,
           Cas(TaskOf(w), Unfinished, to), UNCHANGED moved
    PROVE  runStatus'[TaskOf(w)] \in RunTerminal \/ moved'[TaskOf(w)]
BY CarriedAttempt DEF Carrying, TypeOK, Cas, Unfinished, RunStatus

LEMMA RunHasEndedPreserved == IInv /\ [Next]_vars => RunHasEnded'
<1> SUFFICES ASSUME IInv, Next, NEW v \in Workers, pc'[v] = "closing"
             PROVE  runStatus'[TaskOf(v)'] \in RunTerminal \/ moved'[TaskOf(v)']
  BY DEF vars, rows, locals, RunHasEnded, IInv, TaskOf
<1>1. CASE pc[v] = "closing" /\ job'[v] = job[v]
  <2>1. TaskOf(v)' = TaskOf(v) /\ TaskOf(v) \in Tasks
    BY <1>1, CarriedAttempt DEF TaskOf, IInv, Carrying
  <2>2. runStatus[TaskOf(v)] \in RunTerminal \/ moved[TaskOf(v)]
    BY <1>1 DEF IInv, RunHasEnded
  <2> QED
    BY <2>1, <2>2, EndedStays DEF IInv, Ended
<1>2. ASSUME NEW w \in Workers, NEW to, NEW next, Ends(w, to, next), v = w
      PROVE  runStatus'[TaskOf(v)'] \in RunTerminal \/ moved'[TaskOf(v)']
  <2>1. TaskOf(v)' = TaskOf(v)
    BY <1>2 DEF Ends, EndRun, TaskOf
  <2> QED
    BY <1>2, <2>1, EndsMeansEnded DEF Ends, EndRun, RunTerminal, IInv
<1>3. \/ pc[v] = "closing" /\ job'[v] = job[v]
      \/ \E to, next : Ends(v, to, next)
  BY StepCases DEF IInv, Carrying, TypeOK, ClaimNext, MarkRunRunning, MarkSucceeded,
                   MarkRunSucceeded, Ends, EndRun, CloseAttempt, Crash, RequestCancel, ClientStep,
                   CancelSeesQueuedRun, CancelRun, CancelFindsTask, CancelReadsTask,
                   RetryReadsTask, CancelTask, RetryTask, rows, locals
<1> QED
  BY <1>1, <1>2, <1>3

(* What TaskEndsRun says of one task.                                      *)
Rests(t) ==
    \/ status[t] \in {"queued", "running", "cancelled"}
    \/ Ended(t)
    \/ /\ status[t] = "succeeded"
       /\ crashes > 0 \/ \E w \in Workers : pc[w] = "taskSucceeded" /\ TaskOf(w) = t

LEMMA TaskEndsRunPreserved == IInv /\ [Next]_vars => TaskEndsRun'
<1> SUFFICES ASSUME IInv, Next, NEW t \in Tasks, ~Ended(t)' PROVE Rests(t)'
  BY DEF vars, rows, locals, TaskEndsRun, IInv, TaskOf, Rests, Ended
<1> USE DEF IInv, Carrying
<1>1. Rests(t) /\ ~Ended(t)
  BY EndedStays DEF TaskEndsRun, Rests, Ended
<1>2. ASSUME NEW w \in Workers, NEW u \in Tasks, ClaimNext(w, u) PROVE Rests(t)'
  BY <1>1, <1>2 DEF ClaimNext, Rests, Ended, TypeOK, TaskOf
<1>3. ASSUME NEW w \in Workers, MarkRunRunning(w) PROVE Rests(t)'
  BY <1>1, <1>3 DEF MarkRunRunning, Rests, Ended, TypeOK, TaskOf
<1>4. ASSUME NEW w \in Workers, MarkSucceeded(w) PROVE Rests(t)'
  <2>1. \A u \in Tasks : status'[u] # status[u] => u = TaskOf(w) /\ status'[u] = "succeeded"
    BY <1>4, FlushedType DEF MarkSucceeded, TaskStatus, TaskTerminal, RunTerminal
  <2>2. pc'[w] = "taskSucceeded" /\ TaskOf(w)' = TaskOf(w)
    BY <1>4 DEF MarkSucceeded, TypeOK, TaskOf
  <2>3. CASE status'[t] # status[t]
    BY <2>1, <2>2, <2>3 DEF Rests
  <2>4. CASE status'[t] = status[t]
    BY <1>1, <1>4, <2>4 DEF MarkSucceeded, Rests, TypeOK, TaskOf
  <2> QED
    BY <2>3, <2>4
<1>5. ASSUME NEW w \in Workers, MarkRunSucceeded(w) PROVE Rests(t)'
  <2>1. TaskOf(w) # t
    BY <1>5, EndsMeansEnded DEF MarkRunSucceeded, Ended, RunTerminal
  <2> QED
    BY <1>1, <1>5, <2>1 DEF MarkRunSucceeded, Rests, TypeOK, TaskOf
<1>6. ASSUME NEW w \in Workers, NEW to, NEW next, Ends(w, to, next) PROVE Rests(t)'
  <2>1. TaskOf(w) # t
    BY <1>6, EndsMeansEnded DEF Ends, EndRun, Ended, RunTerminal
  <2> QED
    BY <1>1, <1>6, <2>1 DEF Ends, EndRun, Rests, TypeOK, TaskOf
<1>7. ASSUME NEW w \in Workers, CloseAttempt(w) PROVE Rests(t)'
  <2>1. TaskOf(w) # t
    BY <1>1, <1>7 DEF CloseAttempt, RunHasEnded, Ended
  <2>2. status'[t] = status[t]
    BY <1>7, <2>1, CarriedAttempt DEF CloseAttempt, Flushed, TypeOK
  <2> QED
    BY <1>1, <1>7, <2>2 DEF CloseAttempt, Rests, TypeOK, TaskOf
<1>8. ASSUME NEW w \in Workers, Crash(w) PROVE Rests(t)'
  BY <1>1, <1>8 DEF Crash, rows, Rests, TypeOK
<1>9. ASSUME NEW u \in Tasks, RequestCancel(u) PROVE Rests(t)'
  BY <1>1, <1>9 DEF RequestCancel, locals, Rests, TaskOf
<1>10. ASSUME NEW c \in Clients, NEW u \in Tasks, ClientStep(c, u) PROVE Rests(t)'
  BY <1>1, <1>10 DEF ClientStep, CancelSeesQueuedRun, CancelRun, CancelFindsTask, CancelReadsTask,
                     RetryReadsTask, rows, locals, Rests, TaskOf
<1>11. ASSUME NEW c \in Clients, NEW u \in Tasks, CancelTask(c, u) \/ RetryTask(c, u)
       PROVE  Rests(t)'
  BY <1>1, <1>11 DEF CancelTask, RetryTask, locals, Rests, TaskOf, TypeOK
<1> QED
  BY <1>2, <1>3, <1>4, <1>5, <1>6, <1>7, <1>8, <1>9, <1>10, <1>11, StepCases

-----------------------------------------------------------------------------
(* Counting.                                                               *)

Counted(t) ==
    /\ Cardinality(Live(t)) + InQueue(t) <= 1 + retries[t]
    /\ Len(attempts[t]) + Cardinality(Planned(t)) + InQueue(t) <= MaxAttempts + retries[t]

LEMMA CountsAreNumbers ==
    ASSUME TypeOK, NEW t \in Tasks
    PROVE  /\ IsFiniteSet(Live(t)) /\ Cardinality(Live(t)) \in Nat
           /\ IsFiniteSet(Planned(t)) /\ Cardinality(Planned(t)) \in Nat
           /\ Planned(t) \subseteq Live(t)
           /\ InQueue(t) \in 0..1 /\ retries[t] \in Nat /\ Len(attempts[t]) \in Nat
<1>1. Live(t) \in SUBSET (1..Len(attempts[t])) /\ Planned(t) \in SUBSET (1..Len(attempts[t]))
  BY DEF Live, Planned
<1>2. retries[t] \in Nat /\ Len(attempts[t]) \in Nat
  BY DEF TypeOK
<1>3. Planned(t) \subseteq Live(t) /\ InQueue(t) \in 0..1
  BY DEF Planned, Live, InQueue
<1> QED
  BY <1>1, <1>2, <1>3, NumbersAreFinite

(* A step that adds no live and no planned attempt.                        *)
LEMMA NothingAdded ==
    ASSUME TypeOK, TypeOK', NEW t \in Tasks, Counted(t),
           Live(t)' \subseteq Live(t), Planned(t)' \subseteq Planned(t),
           Len(attempts'[t]) = Len(attempts[t]),
           \/ InQueue(t)' <= InQueue(t) /\ retries'[t] = retries[t]
           \/ retries'[t] = retries[t] + 1
    PROVE  Counted(t)'
<1>1. /\ Cardinality(Live(t)') <= Cardinality(Live(t))
      /\ Cardinality(Planned(t)') <= Cardinality(Planned(t))
  BY CountsAreNumbers, FS_Subset
<1>2. /\ Cardinality(Live(t)') \in Nat /\ Cardinality(Planned(t)') \in Nat
      /\ InQueue(t)' \in 0..1
  <2>1. IsFiniteSet(Live(t)') /\ IsFiniteSet(Planned(t)') /\ InQueue(t)' \in 0..1
    BY CountsAreNumbers, FS_Subset DEF InQueue
  <2> QED
    BY <2>1, FS_CardinalityType
<1>3. /\ Cardinality(Live(t)') + InQueue(t)' <= 1 + retries'[t]
      /\ Len(attempts'[t]) + Cardinality(Planned(t)') + InQueue(t)' <= MaxAttempts + retries'[t]
  <2>1. /\ Cardinality(Live(t)) \in Nat /\ Cardinality(Planned(t)) \in Nat
        /\ InQueue(t) \in Nat /\ Len(attempts[t]) \in Nat /\ retries[t] \in Nat
        /\ InQueue(t)' \in Nat /\ InQueue(t)' <= 1 /\ retries'[t] \in Nat
        /\ MaxAttempts \in Nat
    <3>1. retries[t] \in Nat /\ retries'[t] \in Nat /\ MaxAttempts \in Nat
      BY QueueAssumption DEF TypeOK
    <3> QED
      BY <1>2, <3>1, CountsAreNumbers
  <2>2. /\ Cardinality(Live(t)) + InQueue(t) <= 1 + retries[t]
        /\ Len(attempts[t]) + Cardinality(Planned(t)) + InQueue(t) <= MaxAttempts + retries[t]
    BY DEF Counted
  <2>3. (InQueue(t)' <= InQueue(t) /\ retries'[t] = retries[t]) \/ retries'[t] = retries[t] + 1
    OBVIOUS
  <2>4. Cardinality(Live(t)') + InQueue(t)' <= 1 + retries'[t]
    <3>1. CASE retries'[t] = retries[t] + 1
      <4>1. Cardinality(Live(t)) <= retries'[t]
        BY <2>1, <2>2, <3>1
      <4>2. Cardinality(Live(t)') <= retries'[t]
        BY <1>1, <1>2, <2>1, <4>1
      <4> QED
        BY <1>2, <2>1, <4>2
    <3>2. CASE InQueue(t)' <= InQueue(t) /\ retries'[t] = retries[t]
      BY <1>1, <1>2, <2>1, <2>2, <3>2
    <3> QED
      BY <2>3, <3>1, <3>2
  <2>5. Len(attempts[t]) + Cardinality(Planned(t)') + InQueue(t)' <= MaxAttempts + retries'[t]
    <3>1. CASE retries'[t] = retries[t] + 1
      <4>1. Len(attempts[t]) + Cardinality(Planned(t)) + 1 <= MaxAttempts + retries'[t]
        BY <2>1, <2>2, <3>1
      <4>2. Len(attempts[t]) + Cardinality(Planned(t)') + 1 <= MaxAttempts + retries'[t]
        BY <1>1, <1>2, <2>1, <4>1
      <4> QED
        BY <1>2, <2>1, <4>2
    <3>2. CASE InQueue(t)' <= InQueue(t) /\ retries'[t] = retries[t]
      BY <1>1, <1>2, <2>1, <2>2, <3>2
    <3> QED
      BY <2>3, <3>1, <3>2
  <2> QED
    BY <2>4, <2>5
<1> QED
  BY <1>3 DEF Counted

LEMMA CountsPreserved == IInv /\ Next /\ Carrying' => \A t \in Tasks : Counted(t)'
<1> SUFFICES ASSUME IInv, Next, Carrying', NEW t \in Tasks PROVE Counted(t)'
  OBVIOUS
<1> USE DEF IInv, Carrying
<1>0. Counted(t)
  BY DEF OneExecution, AttemptsLeft, Counted
<1>1. ASSUME NEW w \in Workers, NEW u \in Tasks, ClaimNext(w, u) PROVE Counted(t)'
  <2>1. CASE t # u
    <3>1. /\ attempts'[t] = attempts[t] /\ status'[t] = status[t] /\ retries' = retries
          /\ plan' = plan /\ pc[w] = "idle"
      BY <1>1, <2>1 DEF ClaimNext, TypeOK
    <3>2. \A n : \A v \in Workers : Carries(v, t, n)' <=> Carries(v, t, n)
      BY <1>1, <2>1, PairsAreJobs DEF ClaimNext, TypeOK, Carries
    <3>3. Live(t)' = Live(t) /\ Planned(t)' = Planned(t) /\ InQueue(t)' = InQueue(t)
      BY <3>1, <3>2 DEF Live, Planned, InQueue
    <3> QED
      BY <1>0, <3>1, <3>3, NothingAdded, CountsAreNumbers
  <2>2. CASE t = u
    <3> DEFINE n == Len(attempts[t]) + 1
    <3>1. /\ attempts'[t] = Append(attempts[t], "running") /\ attempts[t] \in Seq(AttemptStatus)
          /\ status[t] = "queued" /\ status'[t] = "running" /\ retries' = retries
          /\ plan' = plan /\ plan[w] = "none" /\ job'[w] = <<t, n>>
          /\ \A v \in Workers \ {w} : job'[v] = job[v]
      BY <1>1, <2>2 DEF ClaimNext, Claimable, TypeOK, PlanIsMade
    <3>2. /\ Len(attempts'[t]) = n
          /\ \A m \in 1..Len(attempts[t]) : attempts'[t][m] = attempts[t][m]
          /\ attempts'[t][n] = "running"
      BY <3>1, AppendProperties DEF AttemptStatus
    <3>3. Live(t)' \subseteq Live(t) \cup {n}
      BY <3>1, <3>2, CountsAreNumbers DEF Live, Carries
    <3>4. Planned(t)' \subseteq Planned(t)
      <4> SUFFICES ASSUME NEW v \in Workers, NEW m, Carries(v, t, m)', plan'[v] = "queued"
                   PROVE  m \in 1..Len(attempts[t]) /\ Carries(v, t, m) /\ plan[v] = "queued"
        BY DEF Planned
      <4>1. v # w /\ plan[v] = "queued"
        BY <3>1
      <4>2. job[v] = <<t, m>>
        BY <3>1, <4>1 DEF Carries
      <4>3. pc[v] # "idle"
        BY <4>2, PairsAreJobs DEF TypeOK
      <4> QED
        BY <4>1, <4>2, <4>3, CarriedAttempt DEF Carries, TaskOf, AttemptOf
    <3>5. Cardinality(Live(t)') \in Nat /\ Cardinality(Live(t)') <= Cardinality(Live(t)) + 1
      <4> HIDE DEF n
      <4>1. IsFiniteSet(Live(t))
        BY CountsAreNumbers
      <4> QED
        BY <3>3, <4>1, OneMore
    <3>6. Cardinality(Planned(t)') \in Nat /\ Cardinality(Planned(t)') <= Cardinality(Planned(t))
      BY <3>4, CountsAreNumbers, FS_Subset, FS_CardinalityType
    <3>7. InQueue(t) = 1 /\ InQueue(t)' = 0
      BY <3>1 DEF InQueue
    <3>8. PICK L, P, N, R : /\ L = Cardinality(Live(t)) /\ P = Cardinality(Planned(t))
                            /\ N = Len(attempts[t]) /\ R = retries[t]
      OBVIOUS
    <3>9. PICK L1, P1 : L1 = Cardinality(Live(t)') /\ P1 = Cardinality(Planned(t)')
      OBVIOUS
    <3>10. {L, P, N, R, L1, P1} \subseteq Nat /\ L1 <= L + 1 /\ P1 <= P
      BY <3>5, <3>6, <3>8, <3>9, CountsAreNumbers
    <3>11. L + 1 <= 1 + R /\ N + P + 1 <= MaxAttempts + R
      BY <1>0, <3>7, <3>8 DEF Counted
    <3>12. L1 + 0 <= 1 + R /\ (N + 1) + P1 + 0 <= MaxAttempts + R
      BY <3>10, <3>11
    <3> QED
      BY <3>1, <3>2, <3>7, <3>8, <3>9, <3>12 DEF Counted
  <2> QED
    BY <2>1, <2>2
<1>2. ASSUME NEW w \in Workers, MarkRunRunning(w) PROVE Counted(t)'
  <2>1. UNCHANGED <<attempts, job, plan, status, retries>>
    BY <1>2 DEF MarkRunRunning
  <2>2. Live(t)' = Live(t) /\ Planned(t)' = Planned(t) /\ InQueue(t)' = InQueue(t)
    BY <2>1 DEF Live, Planned, InQueue, Carries
  <2> QED
    BY <1>0, <2>1, <2>2, NothingAdded, CountsAreNumbers
<1>3. ASSUME NEW w \in Workers, MarkSucceeded(w) PROVE Counted(t)'
  <2>1. /\ UNCHANGED <<job, plan, retries>> /\ pc[w] = "executing"
        /\ attempts' = AttemptSet(w, "succeeded") /\ status' = Flushed(w, "succeeded")
    BY <1>3 DEF MarkSucceeded
  <2>2. /\ Len(attempts'[t]) = Len(attempts[t])
        /\ \A n \in 1..Len(attempts[t]) :
              attempts'[t][n] = IF job[w] = <<t, n>> THEN "succeeded" ELSE attempts[t][n]
    BY <2>1, AttemptSetFacts DEF AttemptStatus
  <2>3. Live(t)' \subseteq Live(t) /\ Planned(t)' = Planned(t)
    BY <2>1, <2>2 DEF Live, Planned, Carries
  <2>4. status'[t] = "queued" => status[t] = "queued"
    BY <2>1, FlushedType DEF TaskStatus, TaskTerminal, RunTerminal
  <2>5. InQueue(t)' <= InQueue(t)
    BY <2>4 DEF InQueue
  <2> QED
    BY <1>0, <2>1, <2>2, <2>3, <2>5, NothingAdded
<1>4. ASSUME NEW w \in Workers, MarkRunSucceeded(w) \/ Crash(w) PROVE Counted(t)'
  <2>1. /\ UNCHANGED <<attempts, status, retries>>
        /\ job' = [job EXCEPT ![w] = NoJob]
        /\ plan' = plan \/ plan' = [plan EXCEPT ![w] = "none"]
    BY <1>4 DEF MarkRunSucceeded, Crash, rows
  <2>2. \A n : \A v \in Workers : Carries(v, t, n)' =>
           Carries(v, t, n) /\ (plan'[v] = "queued" => plan[v] = "queued")
    BY <2>1, PairsAreJobs DEF Carries, TypeOK
  <2>3. Live(t)' \subseteq Live(t) /\ Planned(t)' \subseteq Planned(t)
        /\ InQueue(t)' = InQueue(t)
    BY <2>1, <2>2 DEF Live, Planned, InQueue
  <2> QED
    BY <1>0, <2>1, <2>3, NothingAdded, CountsAreNumbers
<1>5. ASSUME NEW w \in Workers, NEW to, NEW next, Ends(w, to, next) PROVE Counted(t)'
  <2>1. /\ UNCHANGED <<attempts, job, status, retries>>
        /\ plan' = [plan EXCEPT ![w] = next] /\ pc[w] \in {"executing", "taskSucceeded"}
        /\ next = "queued" => Len(attempts[TaskOf(w)]) < MaxAttempts
    BY <1>5 DEF Ends, EndRun
  <2>2. Live(t)' = Live(t) /\ InQueue(t)' = InQueue(t)
    BY <2>1 DEF Live, InQueue, Carries
  <2>3. CASE next # "queued" \/ TaskOf(w) # t
    <3>1. \A n : \A v \in Workers : Carries(v, t, n) /\ plan'[v] = "queued" => plan[v] = "queued"
      BY <2>1, <2>3, CarriedAttempt DEF Carries, TypeOK, TaskOf
    <3>2. Planned(t)' \subseteq Planned(t)
      BY <2>1, <3>1 DEF Planned, Carries
    <3> QED
      BY <1>0, <2>1, <2>2, <3>2, NothingAdded, CountsAreNumbers
  <2>4. CASE next = "queued" /\ TaskOf(w) = t
    <3> DEFINE n == AttemptOf(w)
    <3>1. n \in 1..Len(attempts[t]) /\ job[w] = <<t, n>> /\ plan[w] = "none"
      BY <2>1, <2>4, CarriedAttempt DEF PlanIsMade
    <3>2. n \in Live(t)
      BY <3>1 DEF Live, Carries
    <3>3. n \notin Planned(t)
      BY <3>1, PairsAreJobs DEF Planned, Carries, OneCarrier
    <3>4. Planned(t)' \subseteq Planned(t) \cup {n}
      BY <2>1, <3>1 DEF Planned, Carries, TypeOK
    <3> HIDE DEF n
    <3>5. Planned(t) \subseteq Live(t) \ {n} /\ IsFiniteSet(Live(t)) /\ IsFiniteSet(Planned(t))
      BY <3>3, CountsAreNumbers
    <3>6. Cardinality(Planned(t)) + 1 <= Cardinality(Live(t))
      BY <3>2, <3>5, OneLess
    <3>7. Cardinality(Planned(t)') \in Nat
          /\ Cardinality(Planned(t)') <= Cardinality(Planned(t)) + 1
      BY <3>4, <3>5, OneMore
    <3>8. PICK L, P, Q, N, R : /\ L = Cardinality(Live(t)) /\ P = Cardinality(Planned(t))
                               /\ Q = InQueue(t) /\ N = Len(attempts[t]) /\ R = retries[t]
      OBVIOUS
    <3>9. PICK P1 : P1 = Cardinality(Planned(t)')
      OBVIOUS
    <3>10. /\ {L, P, Q, N, R, P1, MaxAttempts} \subseteq Nat
           /\ P + 1 <= L /\ P1 <= P + 1 /\ N < MaxAttempts
      BY <2>1, <2>4, <3>6, <3>7, <3>8, <3>9, CountsAreNumbers
    <3>11. L + Q <= 1 + R
      BY <1>0, <3>8 DEF Counted
    <3>12. N + P1 + Q <= MaxAttempts + R
      BY <3>10, <3>11
    <3> QED
      BY <2>1, <2>2, <3>8, <3>9, <3>11, <3>12 DEF Counted
  <2> QED
    BY <2>3, <2>4
<1>6. ASSUME NEW w \in Workers, CloseAttempt(w) PROVE Counted(t)'
  <2>1. /\ job' = [job EXCEPT ![w] = NoJob] /\ plan' = [plan EXCEPT ![w] = "none"]
        /\ attempts' = AttemptSet(w, ClosedAs(plan[w])) /\ status' = Flushed(w, plan[w])
        /\ retries' = retries /\ pc[w] = "closing"
    BY <1>6 DEF CloseAttempt
  <2>2. plan[w] \in {"queued", "failed", "dead_letter", "cancelled"}
    BY <2>1 DEF PlanIsMade, TypeOK
  <2>3. ClosedAs(plan[w]) \in AttemptStatus \ {"succeeded"}
    BY <2>2 DEF ClosedAs, AttemptStatus
  <2>4. /\ Len(attempts'[t]) = Len(attempts[t])
        /\ \A n \in 1..Len(attempts[t]) :
              attempts'[t][n] = IF job[w] = <<t, n>> THEN ClosedAs(plan[w])
                                ELSE attempts[t][n]
    BY <2>1, <2>3, AttemptSetFacts
  <2>5. \A n : \A v \in Workers : Carries(v, t, n)' =>
           v # w /\ Carries(v, t, n) /\ plan'[v] = plan[v]
    BY <2>1, PairsAreJobs DEF Carries, TypeOK
  <2>6. Live(t)' \subseteq Live(t) /\ Planned(t)' \subseteq Planned(t)
    BY <2>3, <2>4, <2>5 DEF Live, Planned
  <2>7. \A u \in Tasks : status'[u] # status[u] => u = TaskOf(w) /\ status'[u] = plan[w]
    BY <2>1, <2>2, FlushedType DEF TaskStatus, TaskTerminal, RunTerminal
  <2>8. CASE plan[w] # "queued" \/ TaskOf(w) # t
    <3>1. InQueue(t)' <= InQueue(t)
      BY <2>7, <2>8 DEF InQueue
    <3> QED
      BY <1>0, <2>1, <2>4, <2>6, <3>1, NothingAdded
  <2>9. CASE plan[w] = "queued" /\ TaskOf(w) = t
    <3>1. PICK n \in 1..Len(attempts[t]) : job[w] = <<t, n>>
      BY <2>1, <2>9, CarriedAttempt
    <3>2. n \in Live(t) /\ n \in Planned(t)
      BY <2>9, <3>1 DEF Live, Planned, Carries
    <3>3. \A v \in Workers : ~Carries(v, t, n)'
      BY <2>5, <3>1, PairsAreJobs DEF Carries, OneCarrier
    <3>4. n \notin Live(t)' /\ n \notin Planned(t)'
      BY <2>3, <2>4, <3>1, <3>3 DEF Live, Planned
    <3>5. /\ Live(t)' \subseteq Live(t) \ {n} /\ Planned(t)' \subseteq Planned(t) \ {n}
          /\ IsFiniteSet(Live(t)) /\ IsFiniteSet(Planned(t))
      BY <2>6, <3>4, CountsAreNumbers
    <3>6. /\ Cardinality(Live(t)') \in Nat
          /\ Cardinality(Live(t)') + 1 <= Cardinality(Live(t))
          /\ Cardinality(Planned(t)') \in Nat
          /\ Cardinality(Planned(t)') + 1 <= Cardinality(Planned(t))
      BY <3>2, <3>5, OneLess
    <3>7. PICK L, P, Q, N, R : /\ L = Cardinality(Live(t)) /\ P = Cardinality(Planned(t))
                               /\ Q = InQueue(t) /\ N = Len(attempts[t]) /\ R = retries[t]
      OBVIOUS
    <3>8. PICK L1, P1, Q1 : /\ L1 = Cardinality(Live(t)') /\ P1 = Cardinality(Planned(t)')
                            /\ Q1 = InQueue(t)'
      OBVIOUS
    <3>9. /\ {L, P, Q, N, R, L1, P1, Q1, MaxAttempts} \subseteq Nat
          /\ L1 + 1 <= L /\ P1 + 1 <= P /\ Q1 <= 1
      BY <3>6, <3>7, <3>8, CountsAreNumbers DEF InQueue
    <3>10. L + Q <= 1 + R /\ N + P + Q <= MaxAttempts + R
      BY <1>0, <3>7 DEF Counted
    <3>11. L1 + Q1 <= 1 + R /\ N + P1 + Q1 <= MaxAttempts + R
      BY <3>9, <3>10
    <3> QED
      BY <2>1, <2>4, <3>7, <3>8, <3>11 DEF Counted
  <2> QED
    BY <2>8, <2>9
<1>7. ASSUME NEW u \in Tasks, RequestCancel(u) \/ \E c \in Clients : ClientStep(c, u)
      PROVE  Counted(t)'
  <2>1. UNCHANGED <<attempts, job, plan, status, retries>>
    BY <1>7 DEF RequestCancel, ClientStep, CancelSeesQueuedRun, CancelRun, CancelFindsTask,
                CancelReadsTask, RetryReadsTask, rows, locals
  <2>2. Live(t)' = Live(t) /\ Planned(t)' = Planned(t) /\ InQueue(t)' = InQueue(t)
    BY <2>1 DEF Live, Planned, InQueue, Carries
  <2> QED
    BY <1>0, <2>1, <2>2, NothingAdded, CountsAreNumbers
<1>8. ASSUME NEW c \in Clients, NEW u \in Tasks, CancelTask(c, u) \/ RetryTask(c, u)
      PROVE  Counted(t)'
  <2>1. UNCHANGED <<attempts, job, plan>>
    BY <1>8 DEF CancelTask, RetryTask, locals
  <2>2. Live(t)' = Live(t) /\ Planned(t)' = Planned(t)
    BY <2>1 DEF Live, Planned, Carries
  <2>3. \/ InQueue(t)' <= InQueue(t) /\ retries'[t] = retries[t]
        \/ retries'[t] = retries[t] + 1
    BY <1>8 DEF CancelTask, RetryTask, InQueue, TypeOK
  <2> QED
    BY <1>0, <2>1, <2>2, <2>3, NothingAdded
<1> QED
  BY <1>1, <1>2, <1>3, <1>4, <1>5, <1>6, <1>7, <1>8, StepCases

-----------------------------------------------------------------------------
(* Lost attempts: only a crash adds one.                                   *)

LostAt(t, n) ==
    /\ n \in 1..Len(attempts[t])
    /\ attempts[t][n] = "running"
    /\ \A w \in Workers : job[w] # <<t, n>>

LEMMA LostIsWhereLost ==
    /\ \A a : a \in Lost <=> \E n : \E t \in Tasks : a = <<t, n>> /\ LostAt(t, n)
    /\ \A a : a \in Lost' <=> \E n : \E t \in Tasks : a = <<t, n>> /\ LostAt(t, n)'
BY DEF Lost, LostAt, Numbered

(* Apart from crashes, an attempt that is lost after a step was lost       *)
(* before it.                                                              *)
LEMMA OnlyCrashesLose ==
    ASSUME Carrying, Next, \A w \in Workers : ~Crash(w),
           NEW t \in Tasks, NEW n, LostAt(t, n)'
    PROVE  LostAt(t, n)
<1> USE DEF Carrying
<1>1. ASSUME NEW w \in Workers, NEW u \in Tasks, ClaimNext(w, u) PROVE LostAt(t, n)
  <2>1. /\ \A v \in Workers \ {w} : job'[v] = job[v]
        /\ job'[w] = <<u, Len(attempts[u]) + 1>> /\ job[w] = NoJob
        /\ attempts[u] \in Seq(AttemptStatus)
        /\ attempts' = [attempts EXCEPT ![u] = Append(@, "running")]
    BY <1>1 DEF ClaimNext, TypeOK
  <2>2. \A v \in Workers : job[v] # <<t, n>>
    BY <2>1, PairsAreJobs DEF LostAt
  <2>3. CASE t # u
    BY <2>1, <2>2, <2>3 DEF LostAt, TypeOK
  <2>4. CASE t = u
    <3>1. /\ Len(attempts'[t]) = Len(attempts[t]) + 1
          /\ \A m \in 1..Len(attempts[t]) : attempts'[t][m] = attempts[t][m]
      BY <2>1, <2>4, AppendProperties DEF AttemptStatus, TypeOK
    <3>2. n # Len(attempts[t]) + 1
      BY <2>1, <2>4 DEF LostAt
    <3>3. Len(attempts[t]) \in Nat
      BY <2>1, <2>4
    <3>4. n \in 1..Len(attempts[t])
      BY <3>1, <3>2, <3>3 DEF LostAt
    <3> QED
      BY <2>2, <3>1, <3>4 DEF LostAt
  <2> QED
    BY <2>3, <2>4
<1>2. ASSUME NEW w \in Workers, MarkSucceeded(w) PROVE LostAt(t, n)
  <2>1. /\ Len(attempts'[t]) = Len(attempts[t])
        /\ \A m \in 1..Len(attempts[t]) :
              attempts'[t][m] = IF job[w] = <<t, m>> THEN "succeeded" ELSE attempts[t][m]
    BY <1>2, AttemptSetFacts DEF MarkSucceeded, AttemptStatus
  <2> QED
    BY <1>2, <2>1 DEF MarkSucceeded, LostAt
<1>3. ASSUME NEW w \in Workers, MarkRunSucceeded(w) PROVE LostAt(t, n)
  <2>1. /\ attempts' = attempts /\ job' = [job EXCEPT ![w] = NoJob] /\ pc[w] = "taskSucceeded"
    BY <1>3 DEF MarkRunSucceeded
  <2>2. job[w] # <<t, n>>
    BY <2>1 DEF SuccessIsKept, LostAt, TaskOf, AttemptOf
  <2> QED
    BY <2>1, <2>2 DEF LostAt, TypeOK
<1>4. ASSUME NEW w \in Workers, CloseAttempt(w) PROVE LostAt(t, n)
  <2>1. /\ job' = [job EXCEPT ![w] = NoJob] /\ pc[w] = "closing"
        /\ attempts' = AttemptSet(w, ClosedAs(plan[w]))
    BY <1>4 DEF CloseAttempt
  <2>2. ClosedAs(plan[w]) \in AttemptStatus \ {"running"}
    BY <2>1 DEF PlanIsMade, TypeOK, ClosedAs, AttemptStatus
  <2>3. /\ Len(attempts'[t]) = Len(attempts[t])
        /\ \A m \in 1..Len(attempts[t]) :
              attempts'[t][m] = IF job[w] = <<t, m>> THEN ClosedAs(plan[w])
                                ELSE attempts[t][m]
    BY <2>1, <2>2, AttemptSetFacts
  <2>4. job[w] # <<t, n>>
    BY <2>2, <2>3 DEF LostAt
  <2> QED
    BY <2>1, <2>3, <2>4 DEF LostAt, TypeOK
<1>5. CASE UNCHANGED <<attempts, job>>
  BY <1>5 DEF LostAt
<1>6. /\ \A w \in Workers : MarkRunRunning(w) => UNCHANGED <<attempts, job>>
      /\ \A w \in Workers : \A to, next : Ends(w, to, next) => UNCHANGED <<attempts, job>>
      /\ \A u \in Tasks : RequestCancel(u) => UNCHANGED <<attempts, job>>
      /\ \A c \in Clients, u \in Tasks :
            ClientStep(c, u) \/ CancelTask(c, u) \/ RetryTask(c, u) => UNCHANGED <<attempts, job>>
  BY DEF MarkRunRunning, Ends, EndRun, RequestCancel, ClientStep, CancelSeesQueuedRun, CancelRun,
         CancelFindsTask, CancelReadsTask, RetryReadsTask, CancelTask, RetryTask, rows, locals
<1> QED
  BY <1>1, <1>2, <1>3, <1>4, <1>5, <1>6, StepCases

LEMMA LossesPreserved == IInv /\ [Next]_vars => LossesCounted'
<1> SUFFICES ASSUME IInv, [Next]_vars PROVE LossesCounted'
  OBVIOUS
<1> USE DEF IInv, Carrying
<1>0. IsFiniteSet(Lost) /\ Cardinality(Lost) \in Nat /\ Cardinality(Lost) <= crashes
      /\ crashes \in Nat
  BY FS_CardinalityType DEF LossesCounted, AttemptsAreClosed, TypeOK
<1>1. ASSUME Lost' \subseteq Lost, crashes' = crashes PROVE LossesCounted'
  <2>1. IsFiniteSet(Lost') /\ Cardinality(Lost') <= Cardinality(Lost)
    BY <1>0, <1>1, FS_Subset
  <2>2. Cardinality(Lost') \in Nat
    BY <2>1, FS_CardinalityType
  <2> QED
    BY <1>0, <1>1, <2>1, <2>2 DEF LossesCounted, AttemptsAreClosed
<1>2. CASE UNCHANGED vars
  BY <1>1, <1>2 DEF vars, rows, locals, Lost, Numbered
<1>3. CASE Next /\ \A w \in Workers : ~Crash(w)
  <2>1. Lost' \subseteq Lost
    BY <1>3, OnlyCrashesLose, LostIsWhereLost
  <2>2. crashes' = crashes
    BY <1>3, StepCases DEF ClaimNext, MarkRunRunning, MarkSucceeded, MarkRunSucceeded, Ends, EndRun,
           CloseAttempt, RequestCancel, ClientStep, CancelSeesQueuedRun, CancelRun,
           CancelFindsTask, CancelReadsTask, RetryReadsTask, CancelTask, RetryTask
  <2> QED
    BY <1>1, <2>1, <2>2
<1>4. ASSUME NEW w \in Workers, Crash(w) PROVE LossesCounted'
  <2>1. /\ attempts' = attempts /\ job' = [job EXCEPT ![w] = NoJob] /\ crashes' = crashes + 1
    BY <1>4 DEF Crash, rows
  <2>2. PICK lost : lost = job[w]
    OBVIOUS
  <2>3. \A n : \A t \in Tasks : LostAt(t, n)' => LostAt(t, n) \/ <<t, n>> = lost
    BY <2>1, <2>2 DEF LostAt, TypeOK
  <2>4. Lost' \subseteq Lost \cup {lost}
    BY <2>3, LostIsWhereLost
  <2>5. IsFiniteSet(Lost') /\ Cardinality(Lost') \in Nat
        /\ Cardinality(Lost') <= Cardinality(Lost) + 1
    BY <1>0, <2>4, OneMore
  <2> QED
    BY <1>0, <2>1, <2>5 DEF LossesCounted, AttemptsAreClosed
<1> QED
  BY <1>2, <1>3, <1>4

-----------------------------------------------------------------------------
LEMMA StepPreservesIInv == IInv /\ [Next]_vars => IInv'
<1> SUFFICES ASSUME IInv, [Next]_vars PROVE IInv'
  OBVIOUS
<1>1. Carrying'
  BY CarryingPreserved DEF IInv
<1>2. OneExecution' /\ AttemptsLeft'
  <2>1. CASE UNCHANGED vars
    BY <2>1 DEF vars, rows, locals, IInv, OneExecution, AttemptsLeft, Live, Planned, InQueue,
                Carries
  <2>2. CASE Next
    BY <1>1, <2>2, CountsPreserved DEF OneExecution, AttemptsLeft, Counted
  <2> QED
    BY <2>1, <2>2
<1> QED
  BY <1>1, <1>2, RunHasEndedPreserved, TaskEndsRunPreserved, LossesPreserved DEF IInv

THEOREM Invariance == Spec => []IInv
BY InitEstablishesIInv, StepPreservesIInv, PTL DEF Spec

-----------------------------------------------------------------------------
(* What was done.  An attempt whose row reads succeeded has been done, and *)
(* that row is rewritten only by a worker that counted a refused success   *)
(* before.                                                                 *)

RowsAreOpen ==
    \A w \in Workers :
        pc[w] \in {"claimed", "executing"} => attempts[TaskOf(w)][AttemptOf(w)] # "succeeded"

Closing(t, n) == \E w \in Workers : Carries(w, t, n) /\ pc[w] = "closing"
Kept(t) == {n \in Numbered(t, "succeeded") : ~Closing(t, n)}

DoneIsRecorded == \A t \in Tasks : done[t] <= Cardinality(Kept(t)) + refused[t]

LEMMA KeptIsFinite == TypeOK => \A t \in Tasks : IsFiniteSet(Kept(t)) /\ Cardinality(Kept(t)) \in Nat
<1> SUFFICES ASSUME TypeOK, NEW t \in Tasks
             PROVE  IsFiniteSet(Kept(t)) /\ Cardinality(Kept(t)) \in Nat
  OBVIOUS
<1>1. Kept(t) \in SUBSET (1..Len(attempts[t]))
  BY DEF Kept, Numbered
<1> QED
  BY <1>1, NumbersAreFinite

LEMMA KeptIsFiniteNext ==
    TypeOK' => \A t \in Tasks : IsFiniteSet(Kept(t)') /\ Cardinality(Kept(t)') \in Nat
<1> SUFFICES ASSUME TypeOK', NEW t \in Tasks
             PROVE  IsFiniteSet(Kept(t)') /\ Cardinality(Kept(t)') \in Nat
  OBVIOUS
<1>1. Kept(t)' \subseteq 1..Len(attempts'[t])
  BY DEF Kept, Numbered
<1>2. Len(attempts'[t]) \in Nat
  BY DEF TypeOK
<1>3. IsFiniteSet(1..Len(attempts'[t]))
  BY <1>2, FS_Interval
<1> QED
  BY <1>1, <1>3, FS_Subset, FS_CardinalityType

(* The rows a step changes: a claim adds one that reads running, a worker  *)
(* writes the one it carries.                                              *)
LEMMA RowsStayOpen == Carrying /\ RowsAreOpen /\ [Next]_vars => RowsAreOpen'
<1> SUFFICES ASSUME Carrying, RowsAreOpen, [Next]_vars, NEW v \in Workers,
                    pc'[v] \in {"claimed", "executing"}
             PROVE  attempts'[job'[v][1]][job'[v][2]] # "succeeded"
  BY DEF RowsAreOpen, TaskOf, AttemptOf
<1> USE DEF Carrying
<1>1. ASSUME pc[v] \in {"claimed", "executing"}, job'[v] = job[v],
             attempts'[TaskOf(v)][AttemptOf(v)] = attempts[TaskOf(v)][AttemptOf(v)]
      PROVE  attempts'[job'[v][1]][job'[v][2]] # "succeeded"
  BY <1>1 DEF RowsAreOpen, TaskOf, AttemptOf
<1>2. ASSUME attempts' = attempts, job'[v] = job[v], pc'[v] = pc[v] \/ pc[v] = "claimed"
      PROVE  attempts'[job'[v][1]][job'[v][2]] # "succeeded"
  BY <1>1, <1>2
<1>3. CASE UNCHANGED vars
  BY <1>2, <1>3 DEF vars, rows, locals
<1>4. ASSUME NEW w \in Workers, NEW t \in Tasks, ClaimNext(w, t)
      PROVE  attempts'[job'[v][1]][job'[v][2]] # "succeeded"
  <2>1. /\ attempts[t] \in Seq(AttemptStatus) /\ Len(attempts[t]) \in Nat
        /\ attempts'[t] = Append(attempts[t], "running")
        /\ \A u \in Tasks \ {t} : attempts'[u] = attempts[u]
    BY <1>4 DEF ClaimNext, TypeOK
  <2>2. CASE v = w
    <3>1. job'[v] = <<t, Len(attempts[t]) + 1>>
      BY <1>4, <2>2 DEF ClaimNext, TypeOK
    <3> QED
      BY <2>1, <3>1, AppendProperties DEF AttemptStatus
  <2>3. CASE v # w
    <3>1. job'[v] = job[v] /\ pc'[v] = pc[v]
      BY <1>4, <2>3 DEF ClaimNext, TypeOK
    <3>2. TaskOf(v) \in Tasks /\ AttemptOf(v) \in 1..Len(attempts[TaskOf(v)])
      BY <3>1, CarriedAttempt
    <3>3. attempts'[TaskOf(v)][AttemptOf(v)] = attempts[TaskOf(v)][AttemptOf(v)]
      BY <2>1, <3>2, AppendProperties DEF AttemptStatus
    <3> QED
      BY <1>1, <3>1, <3>3
  <2> QED
    BY <2>2, <2>3
<1>5. ASSUME NEW w \in Workers, MarkRunRunning(w) \/ MarkRunSucceeded(w) \/ Crash(w)
      PROVE  attempts'[job'[v][1]][job'[v][2]] # "succeeded"
  BY <1>2, <1>5 DEF MarkRunRunning, MarkRunSucceeded, Crash, rows, TypeOK
<1>6. ASSUME NEW w \in Workers, NEW s \in AttemptStatus, attempts' = AttemptSet(w, s),
             pc[w] # "idle", v # w, job'[v] = job[v], pc'[v] = pc[v]
      PROVE  attempts'[job'[v][1]][job'[v][2]] # "succeeded"
  <2>1. /\ TaskOf(v) \in Tasks /\ AttemptOf(v) \in 1..Len(attempts[TaskOf(v)])
        /\ job[v] = <<TaskOf(v), AttemptOf(v)>> /\ job[v] # NoJob
    BY <1>6, CarriedAttempt
  <2>2. job[w] # <<TaskOf(v), AttemptOf(v)>>
    BY <1>6, <2>1 DEF OneCarrier
  <2>3. attempts'[TaskOf(v)][AttemptOf(v)] = attempts[TaskOf(v)][AttemptOf(v)]
    BY <1>6, <2>1, <2>2, AttemptSetFacts
  <2> QED
    BY <1>1, <1>6, <2>3
<1>7. ASSUME NEW w \in Workers, MarkSucceeded(w)
      PROVE  attempts'[job'[v][1]][job'[v][2]] # "succeeded"
  <2>1. v # w /\ job' = job /\ pc'[v] = pc[v] /\ pc[w] # "idle"
        /\ attempts' = AttemptSet(w, "succeeded") /\ "succeeded" \in AttemptStatus
    BY <1>7 DEF MarkSucceeded, TypeOK, AttemptStatus
  <2> QED
    BY <1>6, <2>1
<1>8. ASSUME NEW w \in Workers, NEW to, NEW next, Ends(w, to, next)
      PROVE  attempts'[job'[v][1]][job'[v][2]] # "succeeded"
  BY <1>2, <1>8 DEF Ends, EndRun, TypeOK
<1>9. ASSUME NEW w \in Workers, CloseAttempt(w)
      PROVE  attempts'[job'[v][1]][job'[v][2]] # "succeeded"
  <2>1. v # w /\ job'[v] = job[v] /\ pc'[v] = pc[v] /\ pc[w] = "closing"
        /\ attempts' = AttemptSet(w, ClosedAs(plan[w]))
    BY <1>9 DEF CloseAttempt, TypeOK
  <2>2. plan[w] \in {"queued", "failed", "dead_letter", "cancelled"}
    BY <2>1 DEF PlanIsMade, TypeOK
  <2>3. ClosedAs(plan[w]) \in AttemptStatus
    BY <2>2 DEF ClosedAs, AttemptStatus
  <2> QED
    BY <1>6, <2>1, <2>3
<1>10. ASSUME NEW u \in Tasks, NEW c,
              \/ RequestCancel(u) \/ ClientStep(c, u)
              \/ CancelTask(c, u) \/ RetryTask(c, u)
       PROVE  attempts' = attempts /\ UNCHANGED locals
  BY <1>10 DEF RequestCancel, ClientStep, CancelSeesQueuedRun, CancelRun, CancelFindsTask,
         CancelReadsTask, RetryReadsTask, CancelTask, RetryTask, rows
<1>11. ASSUME attempts' = attempts, UNCHANGED locals
       PROVE  attempts'[job'[v][1]][job'[v][2]] # "succeeded"
  BY <1>2, <1>11 DEF locals
<1> QED
  BY <1>3, <1>4, <1>5, <1>7, <1>8, <1>9, <1>10, <1>11, StepCases

(* How the kept rows, the count of successes and that of refusals move.    *)
LEMMA KeptMoves ==
    ASSUME Carrying, Carrying', RowsAreOpen, [Next]_vars, NEW t \in Tasks
    PROVE  \/ Kept(t) \subseteq Kept(t)' /\ done'[t] = done[t] /\ refused'[t] = refused[t]
           \/ \E n \in Kept(t)' : /\ Kept(t) \subseteq Kept(t)' \ {n}
                                  /\ done'[t] = done[t] + 1 /\ refused'[t] = refused[t]
           \/ \E n : /\ Kept(t) \subseteq Kept(t)' \cup {n}
                     /\ done'[t] = done[t] /\ refused'[t] = refused[t] + 1
<1> USE DEF Carrying
<1>0. Len(attempts[t]) \in Nat /\ attempts[t] \in Seq(AttemptStatus)
  BY DEF TypeOK
<1>1. CASE UNCHANGED vars
  BY <1>1 DEF vars, rows, locals, history, Kept, Numbered, Closing, Carries
<1>2. ASSUME NEW w \in Workers, NEW u \in Tasks, ClaimNext(w, u)
      PROVE  Kept(t) \subseteq Kept(t)' /\ UNCHANGED history
  <2>1. /\ UNCHANGED history /\ pc'[w] = "claimed"
        /\ \A v \in Workers \ {w} : job'[v] = job[v] /\ pc'[v] = pc[v]
        /\ attempts' = [attempts EXCEPT ![u] = Append(@, "running")]
    BY <1>2 DEF ClaimNext, TypeOK
  <2>2. \A n : Closing(t, n)' => Closing(t, n)
    BY <2>1 DEF Closing, Carries
  <2>3. /\ Len(attempts'[t]) >= Len(attempts[t]) /\ Len(attempts'[t]) \in Nat
        /\ \A n \in 1..Len(attempts[t]) : attempts'[t][n] = attempts[t][n]
    BY <1>0, <2>1, AppendProperties DEF TypeOK, AttemptStatus
  <2> QED
    BY <1>0, <2>1, <2>2, <2>3 DEF Kept, Numbered
<1>3. ASSUME NEW w \in Workers, MarkRunRunning(w) \/ MarkRunSucceeded(w) \/ Crash(w)
      PROVE  Kept(t) \subseteq Kept(t)' /\ UNCHANGED history
  <2>1. /\ UNCHANGED history /\ attempts' = attempts /\ pc'[w] # "closing"
        /\ \A v \in Workers \ {w} : job'[v] = job[v] /\ pc'[v] = pc[v]
    BY <1>3 DEF MarkRunRunning, MarkRunSucceeded, Crash, rows, history, TypeOK
  <2>2. \A n : Closing(t, n)' => Closing(t, n)
    BY <2>1 DEF Closing, Carries
  <2> QED
    BY <2>1, <2>2 DEF Kept, Numbered
<1>4. ASSUME NEW w \in Workers, MarkSucceeded(w)
      PROVE  \/ Kept(t) \subseteq Kept(t)' /\ done'[t] = done[t] /\ refused'[t] = refused[t]
             \/ \E n \in Kept(t)' : /\ Kept(t) \subseteq Kept(t)' \ {n}
                                    /\ done'[t] = done[t] + 1 /\ refused'[t] = refused[t]
  <2>1. /\ pc[w] = "executing" /\ pc' = [pc EXCEPT ![w] = "taskSucceeded"] /\ job' = job
        /\ refused' = refused /\ done' = [done EXCEPT ![TaskOf(w)] = @ + 1]
        /\ attempts' = AttemptSet(w, "succeeded")
    BY <1>4 DEF MarkSucceeded
  <2>2. /\ Len(attempts'[t]) = Len(attempts[t])
        /\ \A n \in 1..Len(attempts[t]) :
              attempts'[t][n] = IF job[w] = <<t, n>> THEN "succeeded" ELSE attempts[t][n]
    BY <2>1, AttemptSetFacts DEF AttemptStatus
  <2>3. \A n : Closing(t, n)' => Closing(t, n)
    BY <2>1 DEF Closing, Carries, TypeOK
  <2>4. Kept(t) \subseteq Kept(t)'
    BY <2>2, <2>3 DEF Kept, Numbered
  <2>5. /\ TaskOf(w) \in Tasks /\ AttemptOf(w) \in 1..Len(attempts[TaskOf(w)])
        /\ job[w] = <<TaskOf(w), AttemptOf(w)>> /\ job[w] # NoJob
    BY <2>1, CarriedAttempt
  <2>6. CASE t # TaskOf(w)
    BY <2>1, <2>4, <2>5, <2>6 DEF TypeOK
  <2>7. CASE t = TaskOf(w)
    <3>1. AttemptOf(w) \notin Kept(t)
      BY <2>1, <2>7 DEF RowsAreOpen, Kept, Numbered
    <3>2. PICK n : n = AttemptOf(w)
      OBVIOUS
    <3>3. n \in 1..Len(attempts[t]) /\ job[w] = <<t, n>>
      BY <2>5, <2>7, <3>2
    <3>4. ~Closing(t, n)'
      <4> SUFFICES ASSUME NEW v \in Workers, job[v] = job[w], pc'[v] = "closing" PROVE FALSE
        BY <2>1, <3>3 DEF Closing, Carries
      <4>1. v = w
        BY <2>5 DEF OneCarrier
      <4> QED
        BY <2>1, <4>1 DEF TypeOK
    <3>5. n \in Kept(t)'
      BY <2>2, <3>3, <3>4 DEF Kept, Numbered
    <3> QED
      BY <2>1, <2>4, <2>7, <3>1, <3>2, <3>5 DEF TypeOK
  <2> QED
    BY <2>6, <2>7
<1>5. ASSUME NEW w \in Workers, NEW to, NEW next, Ends(w, to, next)
      PROVE  \/ Kept(t) \subseteq Kept(t)' /\ done'[t] = done[t] /\ refused'[t] = refused[t]
             \/ \E n : /\ Kept(t) \subseteq Kept(t)' \cup {n}
                       /\ done'[t] = done[t] /\ refused'[t] = refused[t] + 1
  <2>1. /\ pc[w] \in {"executing", "taskSucceeded"} /\ pc' = [pc EXCEPT ![w] = "closing"]
        /\ UNCHANGED <<job, attempts, done>>
        /\ refused' = IF pc[w] = "executing" THEN refused
                      ELSE [refused EXCEPT ![TaskOf(w)] = @ + 1]
    BY <1>5 DEF Ends, EndRun
  <2>2. /\ TaskOf(w) \in Tasks /\ AttemptOf(w) \in 1..Len(attempts[TaskOf(w)])
        /\ job[w] = <<TaskOf(w), AttemptOf(w)>> /\ job[w] # NoJob
    BY <2>1, CarriedAttempt
  <2>3. \A n : Closing(t, n)' => Closing(t, n) \/ Carries(w, t, n)
    BY <2>1 DEF Closing, Carries, TypeOK
  <2>4. \A n : Carries(w, t, n) => t = TaskOf(w) /\ n = AttemptOf(w)
    BY <2>2 DEF Carries
  <2>5. Kept(t) \subseteq Kept(t)' \cup {AttemptOf(w)}
    BY <2>1, <2>3, <2>4 DEF Kept, Numbered
  <2>6. CASE t = TaskOf(w) /\ pc[w] = "taskSucceeded"
    BY <2>1, <2>2, <2>5, <2>6 DEF TypeOK
  <2>7. CASE t # TaskOf(w)
    <3>1. Kept(t) \subseteq Kept(t)'
      BY <2>1, <2>3, <2>4, <2>7 DEF Kept, Numbered
    <3> QED
      BY <2>1, <2>2, <2>7, <3>1 DEF TypeOK
  <2>8. CASE t = TaskOf(w) /\ pc[w] = "executing"
    <3>1. AttemptOf(w) \notin Kept(t)
      BY <2>8 DEF RowsAreOpen, Kept, Numbered
    <3> QED
      BY <2>1, <2>5, <2>8, <3>1
  <2> QED
    BY <2>1, <2>6, <2>7, <2>8
<1>6. ASSUME NEW w \in Workers, CloseAttempt(w)
      PROVE  Kept(t) \subseteq Kept(t)' /\ UNCHANGED history
  <2>1. /\ UNCHANGED history /\ pc[w] = "closing" /\ pc'[w] = "idle"
        /\ \A v \in Workers \ {w} : job'[v] = job[v] /\ pc'[v] = pc[v]
        /\ attempts' = AttemptSet(w, ClosedAs(plan[w]))
    BY <1>6 DEF CloseAttempt, TypeOK
  <2>2. plan[w] \in {"queued", "failed", "dead_letter", "cancelled"}
    BY <2>1 DEF PlanIsMade, TypeOK
  <2>3. ClosedAs(plan[w]) \in AttemptStatus
    BY <2>2 DEF ClosedAs, AttemptStatus
  <2>4. /\ Len(attempts'[t]) = Len(attempts[t])
        /\ \A n \in 1..Len(attempts[t]) :
              job[w] # <<t, n>> => attempts'[t][n] = attempts[t][n]
    BY <2>1, <2>3, AttemptSetFacts
  <2>5. \A n : Closing(t, n)' => Closing(t, n)
    BY <2>1 DEF Closing, Carries
  <2>6. \A n \in Kept(t) : job[w] # <<t, n>>
    BY <2>1 DEF Kept, Closing, Carries
  <2> QED
    BY <2>1, <2>4, <2>5, <2>6 DEF Kept, Numbered
<1>7. ASSUME NEW u \in Tasks, NEW c,
             \/ RequestCancel(u) \/ ClientStep(c, u)
             \/ CancelTask(c, u) \/ RetryTask(c, u)
      PROVE  Kept(t) = Kept(t)' /\ UNCHANGED history
  <2>1. UNCHANGED <<attempts, job, pc, history>>
    BY <1>7 DEF RequestCancel, ClientStep, CancelSeesQueuedRun, CancelRun, CancelFindsTask,
           CancelReadsTask, RetryReadsTask, CancelTask, RetryTask, rows, locals
  <2> QED
    BY <2>1 DEF Kept, Numbered, Closing, Carries
<1>8. UNCHANGED history => done' = done /\ refused' = refused
  BY DEF history
<1> QED
  BY <1>1, <1>2, <1>3, <1>4, <1>5, <1>6, <1>7, <1>8, StepCases

LEMMA DoneStaysRecorded ==
    Carrying /\ Carrying' /\ RowsAreOpen /\ DoneIsRecorded /\ [Next]_vars => DoneIsRecorded'
<1> SUFFICES ASSUME Carrying, Carrying', RowsAreOpen, DoneIsRecorded, [Next]_vars, NEW t \in Tasks
             PROVE  done'[t] <= Cardinality(Kept(t)') + refused'[t]
  BY DEF DoneIsRecorded
<1>1. PICK K, L : K = Cardinality(Kept(t)) /\ L = Cardinality(Kept(t)')
  OBVIOUS
<1>2. /\ IsFiniteSet(Kept(t)) /\ K \in Nat /\ IsFiniteSet(Kept(t)') /\ L \in Nat
      /\ done[t] \in Nat /\ refused[t] \in Nat /\ done[t] <= K + refused[t]
  BY <1>1, KeptIsFinite, KeptIsFiniteNext DEF Carrying, TypeOK, DoneIsRecorded
<1>3. CASE Kept(t) \subseteq Kept(t)' /\ done'[t] = done[t] /\ refused'[t] = refused[t]
  <2>1. K <= L
    BY <1>1, <1>2, <1>3, FS_Subset
  <2> QED
    BY <1>1, <1>2, <1>3, <2>1
<1>4. ASSUME NEW n \in Kept(t)', Kept(t) \subseteq Kept(t)' \ {n},
             done'[t] = done[t] + 1, refused'[t] = refused[t]
      PROVE  done'[t] <= L + refused'[t]
  <2>1. K + 1 <= L
    BY <1>1, <1>2, <1>4, OneLess
  <2> QED
    BY <1>2, <1>4, <2>1
<1>5. ASSUME NEW n, Kept(t) \subseteq Kept(t)' \cup {n},
             done'[t] = done[t], refused'[t] = refused[t] + 1
      PROVE  done'[t] <= L + refused'[t]
  <2>1. K <= L + 1
    BY <1>1, <1>2, <1>5, OneMore
  <2> QED
    BY <1>2, <1>5, <2>1
<1> QED
  BY <1>1, <1>3, <1>4, <1>5, KeptMoves

THEOREM DoneIsAlwaysRecorded == Spec => [](RowsAreOpen /\ DoneIsRecorded)
<1>1. Init => RowsAreOpen /\ DoneIsRecorded
  <2> SUFFICES ASSUME Init, NEW t \in Tasks PROVE Cardinality(Kept(t)) = 0 /\ RowsAreOpen
    BY DEF Init, DoneIsRecorded, RowsAreOpen
  <2>1. Kept(t) = {}
    BY DEF Init, Kept, Numbered
  <2> QED
    BY <2>1, FS_EmptySet DEF Init, RowsAreOpen
<1>2. IInv /\ RowsAreOpen /\ DoneIsRecorded /\ [Next]_vars => (RowsAreOpen /\ DoneIsRecorded)'
  BY RowsStayOpen, DoneStaysRecorded, CarryingPreserved DEF IInv
<1> QED
  BY <1>1, <1>2, Invariance, PTL DEF Spec

-----------------------------------------------------------------------------
(* The invariants of the runs.                                             *)

(* Type correctness of the rows, of the workers' local values and of the   *)
(* clients' requests.                                                      *)
THEOREM TypeCorrect == Spec => []TypeOK
<1>1. IInv => TypeOK
  BY DEF IInv, Carrying
<1> QED
  BY <1>1, Invariance, PTL

(* max_attempts bounds the attempts of a task, plus one for every retry a  *)
(* client asked for, however workers overlap on the task.                  *)
THEOREM AttemptsStayBounded == Spec => []AttemptsBounded
<1>1. IInv => AttemptsBounded
  <2> SUFFICES ASSUME IInv, NEW t \in Tasks PROVE Len(attempts[t]) <= MaxAttempts + retries[t]
    BY DEF AttemptsBounded
  <2>1. PICK N, P, Q, R : /\ N = Len(attempts[t]) /\ P = Cardinality(Planned(t))
                          /\ Q = InQueue(t) /\ R = retries[t]
    OBVIOUS
  <2>2. N + P + Q <= MaxAttempts + R
    BY <2>1 DEF IInv, AttemptsLeft
  <2>3. {N, P, Q, R, MaxAttempts} \subseteq Nat
    BY <2>1, CountsAreNumbers DEF IInv, Carrying
  <2> QED
    BY <2>1, <2>2, <2>3
<1> QED
  BY <1>1, Invariance, PTL

(* A task is executed to success once, plus once for every retry a client  *)
(* asked for and for every success of its run that the database refused.   *)
THEOREM WorkIsNotRepeated == Spec => []WorkNotRepeated
<1>1. IInv /\ DoneIsRecorded => WorkNotRepeated
  <2> SUFFICES ASSUME IInv, DoneIsRecorded, NEW t \in Tasks
               PROVE  done[t] <= 1 + retries[t] + refused[t]
    BY DEF WorkNotRepeated
  <2>1. IsFiniteSet(Live(t)) /\ Cardinality(Live(t)) \in Nat /\ InQueue(t) \in 0..1
        /\ retries[t] \in Nat
    BY CountsAreNumbers DEF IInv, Carrying
  <2>2. Kept(t) \subseteq Live(t)
    BY DEF Kept, Numbered, Live
  <2>3. Cardinality(Kept(t)) <= Cardinality(Live(t)) /\ Cardinality(Kept(t)) \in Nat
    BY <2>1, <2>2, FS_Subset, FS_CardinalityType
  <2>4. Cardinality(Live(t)) + InQueue(t) <= 1 + retries[t]
    BY DEF IInv, OneExecution
  <2>5. done[t] <= Cardinality(Kept(t)) + refused[t] /\ done[t] \in Nat /\ refused[t] \in Nat
    BY DEF DoneIsRecorded, IInv, Carrying, TypeOK
  <2>6. PICK C, L, Q, R : /\ C = Cardinality(Kept(t)) /\ L = Cardinality(Live(t))
                          /\ Q = InQueue(t) /\ R = retries[t]
    OBVIOUS
  <2> QED
    BY <2>1, <2>3, <2>4, <2>5, <2>6
<1> QED
  BY <1>1, Invariance, DoneIsAlwaysRecorded, PTL

(* Every attempt that still reads running is carried, but for one for each *)
(* crash.                                                                  *)
THEOREM AttemptsGetClosed == Spec => []AttemptsAreClosed
<1>1. IInv => AttemptsAreClosed
  BY DEF IInv, LossesCounted
<1> QED
  BY <1>1, Invariance, PTL

(* The run of a task that gave up has ended, and so has that of a task     *)
(* that succeeded, once its worker has gone on.                            *)
THEOREM TasksEndTheirRuns == Spec => []TaskEndsRun
<1>1. IInv => TaskEndsRun
  BY DEF IInv
<1> QED
  BY <1>1, Invariance, PTL

-----------------------------------------------------------------------------
(* The queue implements RunLifecycle.                                      *)

LEMMA StepFollows == Carrying /\ [Next]_vars => [RL!Next]_<<runStatus, cancelWanted>>
<1> SUFFICES ASSUME Carrying, Next PROVE [RL!Next]_<<runStatus, cancelWanted>>
  BY DEF vars, rows
<1>1. CASE \E t \in Tasks : RequestCancel(t)
  BY <1>1 DEF RequestCancel, RL!Next, RL!Ask
<1>2. CASE \A t \in Tasks : ~RequestCancel(t)
  <2>1. cancelWanted' = cancelWanted
    BY <1>2, StepCases DEF ClaimNext, MarkRunRunning, MarkSucceeded, MarkRunSucceeded, Ends, EndRun,
           CloseAttempt, Crash, ClientStep, CancelSeesQueuedRun, CancelRun,
           CancelFindsTask, CancelReadsTask, RetryReadsTask, CancelTask, RetryTask, rows
  <2> QED
    BY <2>1, RunStatusMoves DEF RL!Next, RL!Start, RL!End, RunTerminal
<1> QED
  BY <1>1, <1>2

(* Run statuses move as the gateway promises.                              *)
THEOREM RunsFollowTheirLifecycle == Spec => FollowsRunLifecycle
<1>1. Init => RL!Init
  BY DEF Init, RL!Init
<1>2. IInv /\ [Next]_vars => [RL!Next]_<<runStatus, cancelWanted>>
  BY StepFollows DEF IInv
<1> QED
  BY <1>1, <1>2, Invariance, PTL DEF Spec, FollowsRunLifecycle, RL!Spec
-----------------------------------------------------------------------------
(* What EverythingRests rests on.  Nothing but process_next takes a task   *)
(* out of running, so each task there has to have a worker that will       *)
(* write its row: one that has not loaded it yet, or whose ORM object      *)
(* holds another status than the one it is going to store (a flush leaves  *)
(* an equal value out).                                                    *)

WillWrite(w) ==
    \/ pc[w] = "claimed"
    \/ pc[w] = "executing" /\ known[w] # "succeeded"
    \/ pc[w] = "closing" /\ plan[w] # known[w]

RunningIsWorkedOn ==
    crashes = 0 =>
        \A t \in Tasks : status[t] = "running" => \E w \in Workers : WillWrite(w) /\ TaskOf(w) = t

LEMMA WorkIsPassedOn == Carrying /\ RunningIsWorkedOn /\ [Next]_vars => RunningIsWorkedOn'
<1> SUFFICES ASSUME Carrying, RunningIsWorkedOn, [Next]_vars PROVE RunningIsWorkedOn'
  OBVIOUS
<1> USE DEF Carrying
<1>0. CASE UNCHANGED vars
  BY <1>0 DEF vars, rows, locals, RunningIsWorkedOn, WillWrite, TaskOf
<1> DEFINE Worked(t) == \E w \in Workers : WillWrite(w) /\ TaskOf(w) = t
<1>1. SUFFICES ASSUME Next, crashes' = 0, NEW t \in Tasks, status'[t] = "running"
               PROVE  Worked(t)'
  BY <1>0 DEF RunningIsWorkedOn
<1>2. crashes = 0 /\ \A w \in Workers : ~Crash(w)
  <2>1. \A w \in Workers : Crash(w) => FALSE
    BY <1>1 DEF Crash, TypeOK
  <2>2. crashes' = crashes
    BY <1>1, <2>1, StepCases DEF ClaimNext, MarkRunRunning, MarkSucceeded, MarkRunSucceeded, Ends,
           EndRun, CloseAttempt, RequestCancel, ClientStep, CancelSeesQueuedRun, CancelRun,
           CancelFindsTask, CancelReadsTask, RetryReadsTask, CancelTask, RetryTask
  <2> QED
    BY <1>1, <2>1, <2>2
<1>3. status[t] = "running" => \E v \in Workers : WillWrite(v) /\ TaskOf(v) = t
  BY <1>2 DEF RunningIsWorkedOn
<1>4. ASSUME NEW w \in Workers, NEW u \in Tasks, ClaimNext(w, u) PROVE Worked(t)'
  <2>1. CASE u = t
    BY <1>4, <2>1 DEF ClaimNext, WillWrite, TaskOf, TypeOK
  <2>2. CASE u # t
    <3>1. PICK v \in Workers : WillWrite(v) /\ TaskOf(v) = t
      BY <1>1, <1>3, <1>4, <2>2 DEF ClaimNext, TypeOK
    <3>2. v # w
      BY <1>4, <3>1 DEF ClaimNext, WillWrite
    <3> QED
      BY <1>4, <3>1, <3>2 DEF ClaimNext, WillWrite, TaskOf, TypeOK
  <2> QED
    BY <2>1, <2>2
<1>5. ASSUME NEW w \in Workers, MarkRunRunning(w) PROVE Worked(t)'
  <2>1. PICK v \in Workers : WillWrite(v) /\ TaskOf(v) = t
    BY <1>1, <1>3, <1>5 DEF MarkRunRunning
  <2> QED
    BY <1>1, <1>5, <2>1 DEF MarkRunRunning, WillWrite, TaskOf, TypeOK
<1>6. ASSUME NEW w \in Workers, MarkSucceeded(w) PROVE Worked(t)'
  <2>1. TaskOf(w) = t => known[w] = "succeeded"
    BY <1>1, <1>6, CarriedAttempt DEF MarkSucceeded, Flushed, TypeOK
  <2>2. status[t] = "running"
    BY <1>1, <1>6, CarriedAttempt DEF MarkSucceeded, Flushed, TypeOK
  <2>3. PICK v \in Workers : WillWrite(v) /\ TaskOf(v) = t
    BY <1>3, <2>2
  <2>4. v # w
    BY <1>6, <2>1, <2>3 DEF MarkSucceeded, WillWrite
  <2> QED
    BY <1>6, <2>3, <2>4 DEF MarkSucceeded, WillWrite, TaskOf, TypeOK
<1>7. ASSUME NEW w \in Workers, MarkRunSucceeded(w) PROVE Worked(t)'
  <2>1. PICK v \in Workers : WillWrite(v) /\ TaskOf(v) = t
    BY <1>1, <1>3, <1>7 DEF MarkRunSucceeded
  <2>2. v # w
    BY <1>7, <2>1 DEF MarkRunSucceeded, WillWrite
  <2> QED
    BY <1>7, <2>1, <2>2 DEF MarkRunSucceeded, WillWrite, TaskOf, TypeOK
<1>8. ASSUME NEW w \in Workers, NEW to, NEW next, Ends(w, to, next) PROVE Worked(t)'
  <2>1. PICK v \in Workers : WillWrite(v) /\ TaskOf(v) = t
    BY <1>1, <1>3, <1>8 DEF Ends, EndRun
  <2> QED
    BY <1>1, <1>8, <2>1 DEF Ends, EndRun, WillWrite, TaskOf, TypeOK
<1>9. ASSUME NEW w \in Workers, CloseAttempt(w) PROVE Worked(t)'
  <2>0. plan[w] # "running" /\ pc[w] = "closing"
    BY <1>9 DEF CloseAttempt, TypeOK
  <2>1. TaskOf(w) = t => known[w] = plan[w]
    BY <1>1, <1>9, <2>0, CarriedAttempt DEF CloseAttempt, Flushed, TypeOK
  <2>2. status[t] = "running"
    BY <1>1, <1>9, <2>0, CarriedAttempt DEF CloseAttempt, Flushed, TypeOK
  <2>3. PICK v \in Workers : WillWrite(v) /\ TaskOf(v) = t
    BY <1>3, <2>2
  <2>4. v # w
    BY <2>0, <2>1, <2>3 DEF WillWrite
  <2> QED
    BY <1>9, <2>3, <2>4 DEF CloseAttempt, WillWrite, TaskOf, TypeOK
<1>10. ASSUME NEW u \in Tasks, NEW c,
              \/ RequestCancel(u) \/ ClientStep(c, u)
              \/ CancelTask(c, u) \/ RetryTask(c, u)
       PROVE  Worked(t)'
  <2>1. UNCHANGED locals /\ status[t] = "running"
    BY <1>1, <1>10 DEF RequestCancel, ClientStep, CancelSeesQueuedRun, CancelRun, CancelFindsTask,
           CancelReadsTask, RetryReadsTask, CancelTask, RetryTask, rows, TypeOK
  <2> QED
    BY <1>3, <2>1 DEF locals, WillWrite, TaskOf
<1> QED
  BY <1>1, <1>2, <1>4, <1>5, <1>6, <1>7, <1>8, <1>9, <1>10, StepCases

(* Unless a worker crashed, no task reads running that every worker has    *)
(* left or will leave as it is: however many workers execute it at once    *)
(* and whatever clients cancel or retry meanwhile.                         *)
THEOREM NoTaskIsForgotten == Spec => []RunningIsWorkedOn
<1>1. Init => RunningIsWorkedOn
  BY DEF Init, RunningIsWorkedOn
<1>2. IInv /\ RunningIsWorkedOn /\ [Next]_vars => RunningIsWorkedOn'
  BY WorkIsPassedOn DEF IInv
<1> QED
  BY <1>1, <1>2, Invariance, PTL DEF Spec

(* How many transactions of process_next a worker has before it at most.   *)
StepsLeft(w) ==
    CASE pc[w] = "idle" -> 0
      [] pc[w] = "closing" -> 1
      [] pc[w] = "taskSucceeded" -> 2
      [] pc[w] = "executing" -> 3
      [] pc[w] = "claimed" -> 4

(* Only a claim puts steps before a worker, and it writes an attempt row;  *)
(* every other step of a worker leaves it fewer.                           *)
AttemptsComeToAnEnd ==
    \A w \in Workers :
        /\ StepsLeft(w) \in 0..4
        /\ StepsLeft(w)' <= StepsLeft(w) \/ \E t \in Tasks : ClaimNext(w, t)
        /\ Work(w) => StepsLeft(w)' < StepsLeft(w) \/ \E t \in Tasks : ClaimNext(w, t)

LEMMA StepsAreCounted == Carrying /\ [Next]_vars => AttemptsComeToAnEnd
<1> SUFFICES ASSUME Carrying, [Next]_vars, NEW w \in Workers
             PROVE  /\ StepsLeft(w) \in 0..4
                    /\ \/ \E t \in Tasks : ClaimNext(w, t)
                       \/ StepsLeft(w)' <= StepsLeft(w) /\ (Work(w) => StepsLeft(w)' < StepsLeft(w))
  BY DEF AttemptsComeToAnEnd
<1> USE DEF Carrying, StepsLeft
<1>1. StepsLeft(w) \in 0..4 /\ StepsLeft(w)' \in 0..4
  <2>1. TypeOK /\ TypeOK'
    BY CarryingPreserved
  <2>2. {pc[w], pc'[w]} \subseteq {"idle", "claimed", "executing", "taskSucceeded", "closing"}
    BY <2>1 DEF TypeOK
  <2> QED
    BY <2>2
<1>2. ASSUME Work(w), \A t \in Tasks : ~ClaimNext(w, t) PROVE StepsLeft(w)' < StepsLeft(w)
  <2>1. CASE MarkRunRunning(w)
    BY <2>1 DEF MarkRunRunning, TypeOK
  <2>2. CASE MarkSucceeded(w)
    BY <2>2 DEF MarkSucceeded, TypeOK
  <2>3. CASE MarkRunSucceeded(w)
    BY <2>3 DEF MarkRunSucceeded, TypeOK
  <2>4. ASSUME NEW to, NEW next, Ends(w, to, next) PROVE StepsLeft(w)' < StepsLeft(w)
    BY <2>4 DEF Ends, EndRun, TypeOK
  <2>5. CASE CloseAttempt(w)
    BY <2>5 DEF CloseAttempt, TypeOK
  <2> QED
    BY <1>2, <2>1, <2>2, <2>3, <2>4, <2>5, RunIsEnded DEF Work
<1>3. CASE Crash(w)
  BY <1>3 DEF Crash, TypeOK
<1>4. ASSUME ~Work(w), ~Crash(w) PROVE StepsLeft(w)' = StepsLeft(w)
  <2>1. ASSUME NEW v \in Workers \ {w}, Work(v) \/ Crash(v) PROVE pc'[w] = pc[w]
    <3>1. \E step : pc' = [pc EXCEPT ![v] = step]
      BY <2>1, RunIsEnded DEF Work, ClaimNext, MarkRunRunning, MarkSucceeded, MarkRunSucceeded, Ends,
                              EndRun, CloseAttempt, Crash
    <3> QED
      BY <3>1 DEF TypeOK
  <2>2. ASSUME NEW t \in Tasks, RequestCancel(t) \/ \E c \in Clients : Request(c, t)
        PROVE  pc' = pc
    BY <2>2 DEF RequestCancel, Request, CancelSeesQueuedRun, CancelRun, CancelFindsTask,
                CancelReadsTask, RetryReadsTask, CancelTask, RetryTask, locals
  <2>3. CASE UNCHANGED vars
    BY <2>3 DEF vars, locals
  <2> QED
    BY <1>4, <2>1, <2>2, <2>3 DEF Next
<1>5. StepsLeft(w)' <= StepsLeft(w) \/ \E t \in Tasks : ClaimNext(w, t)
  <2>1. CASE Work(w)
    <3> HIDE DEF StepsLeft
    <3> QED
      BY <1>1, <1>2, <2>1
  <2>2. CASE ~Work(w) /\ ~Crash(w)
    <3> HIDE DEF StepsLeft
    <3> QED
      BY <1>1, <1>4, <2>2
  <2> QED
    BY <1>3, <2>1, <2>2
<1> QED
  BY <1>1, <1>2, <1>5

(* An attempt is over within four transactions of its worker, which nobody *)
(* else can add to; a further attempt needs a claim, and these are bounded *)
(* by AttemptsStayBounded.                                                 *)
THEOREM EveryAttemptIsShort == Spec => [][AttemptsComeToAnEnd]_vars
<1>1. IInv /\ [Next]_vars => AttemptsComeToAnEnd
  BY StepsAreCounted DEF IInv
<1> QED
  BY <1>1, Invariance, PTL DEF Spec
=============================================================================
