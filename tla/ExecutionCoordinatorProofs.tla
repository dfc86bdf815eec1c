--------------------- MODULE ExecutionCoordinatorProofs ---------------------
(***************************************************************************)
(* Theorems about ExecutionCoordinator for every number of tasks, workers, *)
(* claims and crashes.  The inductive invariant IInv adds to the checked   *)
(* invariants that leases in use were issued by a claim, that a sweep that *)
(* is about to write has chosen what to write, that whoever is about to    *)
(* release the current lease of a task has left the task not running, and  *)
(* that a running task has no result of its latest execution yet.  On it   *)
(* rest three more: the count of what can still be claimed (ClaimsLeft),   *)
(* that a task and its run end together (EndedTogether), and that a pass   *)
(* of process_next through its snapshot is finite.                         *)
(***************************************************************************)
EXTENDS ExecutionCoordinator, FiniteSetTheorems, TLAPS

IsIssued(l) == 1 <= GenerationOf(l) /\ GenerationOf(l) <= generation[TaskOf(l)]

CarriesLease(w) == pc[w] \in {"executing", "succeeded", "failed", "recover", "recovered"}

Issued ==
    /\ \A w \in Workers : CarriesLease(w) => held[w] \in LeaseIds /\ IsIssued(held[w])
    /\ \A w \in Workers : \A l \in todo[w] : IsIssued(l)
    /\ \A l \in open : IsIssued(l)

Planned == \A w \in Workers : pc[w] = "recover" => plan[w] # "none"

ReleasesNext(w) == pc[w] \in {"succeeded", "failed", "recovered"}

Settled ==
    \A w \in Workers :
        ReleasesNext(w) /\ Fence(w) => status[TaskOf(held[w])] # "running"

Unpublished ==
    \A t \in Tasks :
        writer[t] <= generation[t] /\ (status[t] = "running" => writer[t] # generation[t])

IInv ==
    /\ TypeOK
    /\ Issued
    /\ Planned
    /\ Settled
    /\ Unpublished
    /\ RunningIsLeased
    /\ OneExecutorPerGeneration
    /\ ResultIsLatest
    /\ SuccessIsVisible

-----------------------------------------------------------------------------
(* What a request of a client writes.                                      *)
ClientStep(t) == RequestCancel(t) \/ \E c \in Clients : Request(c, t)

LEMMA WhatClientsWrite ==
    ASSUME NEW t \in Tasks, ClientStep(t)
    PROVE  /\ UNCHANGED <<generation, attempts, writer, open, lapsed, pc, held, todo, plan,
                          crashes, calm>>
           /\ \/ status' = status /\ retries' = retries
              \/ status' = [status EXCEPT ![t] = "cancelled"] /\ retries' = retries
              \/ /\ status' = [status EXCEPT ![t] = "queued"]
                 /\ retries[t] < MaxRetries
                 /\ retries' = [retries EXCEPT ![t] = retries[t] + 1]
           /\ \/ runStatus' = runStatus
              \/ /\ runStatus[t] \in {"queued", "running"}
                 /\ runStatus' = [runStatus EXCEPT ![t] = "cancelled"]
BY DEF ClientStep, Request, RequestCancel, CancelSeesQueuedRun, CancelRun, Cancellable,
       CancelFindsTask, CancelReadsTask, RetryReadsTask, CancelTask, RetryTask, rows, leases,
       locals, requests

LEMMA ClientsKeepTypes ==
    ASSUME TypeOK, NEW t \in Tasks, ClientStep(t)
    PROVE  TypeOK'
<1> DEFINE Places == {"cancelRun", "findTask", "cancelTask", "retryTask"} \X Tasks
<1>1. /\ cancelWanted' \in [Tasks -> BOOLEAN]
      /\ retries' \in [Tasks -> Nat]
      /\ call' \in [Clients -> {NoCall} \cup Places]
  <2>1. CASE RequestCancel(t)
    BY <2>1 DEF RequestCancel, requests, TypeOK
  <2>2. ASSUME NEW c \in Clients, Request(c, t)
        PROVE  /\ cancelWanted' = cancelWanted
               /\ \E p \in {NoCall} \cup Places : call' = [call EXCEPT ![c] = p]
    BY <2>2 DEF Request, CancelSeesQueuedRun, CancelRun, CancelFindsTask, CancelReadsTask,
            RetryReadsTask, CancelTask, RetryTask, GoTo, Answer, rows
  <2>3. retries' \in [Tasks -> Nat]
    BY WhatClientsWrite DEF TypeOK
  <2> QED
    BY <2>1, <2>2, <2>3 DEF ClientStep, TypeOK
<1>2. /\ UNCHANGED <<generation, attempts, writer, open, lapsed, pc, held, todo, plan,
                     crashes, calm>>
      /\ status' \in [Tasks -> Status] /\ runStatus' \in [Tasks -> Status]
  BY WhatClientsWrite DEF TypeOK, Status, TerminalStatus
<1> QED
  BY <1>1, <1>2 DEF TypeOK

-----------------------------------------------------------------------------
(* The invariant holds initially.                                          *)
LEMMA InitEstablishesIInv == Init => IInv
<1> SUFFICES ASSUME Init PROVE IInv
  OBVIOUS
<1>1. TypeOK
  BY CoordinatorAssumption DEF Init, TypeOK, Status, TerminalStatus, LeaseIds, NoLease
<1>2. Issued /\ Planned /\ Settled /\ Unpublished
  BY DEF Init, Issued, CarriesLease, Planned, Settled, ReleasesNext, Unpublished
<1>3. RunningIsLeased /\ OneExecutorPerGeneration /\ ResultIsLatest /\ SuccessIsVisible
  BY DEF Init, RunningIsLeased, OneExecutorPerGeneration, ResultIsLatest, SuccessIsVisible
<1> QED
  BY <1>1, <1>2, <1>3 DEF IInv

(* The lease of a claim is new: no lease in use has its generation.        *)
LEMMA ClaimPreservesIInv ==
    ASSUME IInv, NEW w \in Workers, NEW t \in Tasks, ClaimTask(w, t)
    PROVE  IInv'
<1> USE DEF IInv
<1> DEFINE new == <<t, generation[t] + 1>>
<1>1. /\ status' = [status EXCEPT ![t] = "running"]
      /\ generation' = [generation EXCEPT ![t] = generation[t] + 1]
      /\ open' = open \cup {new}
      /\ pc' = [pc EXCEPT ![w] = "executing"]
      /\ held' = [held EXCEPT ![w] = new]
      /\ UNCHANGED <<writer, lapsed, todo, plan>>
      /\ status[t] = "queued"
  BY DEF ClaimTask, NextGeneration, Claimable
<1>2. new \in LeaseIds /\ TaskOf(new) = t /\ GenerationOf(new) = generation[t] + 1
  BY DEF TypeOK, LeaseIds, TaskOf, GenerationOf
<1>3. TypeOK'
  BY <1>1, <1>2 DEF TypeOK, ClaimTask, Status, requests
<1>4. \A l \in LeaseIds : IsIssued(l) => IsIssued(l)' /\ l # new
  BY <1>1, <1>2 DEF IsIssued, TaskOf, GenerationOf, TypeOK, LeaseIds
<1>5. \A l \in LeaseIds : l = new => IsIssued(l)'
  BY <1>1, <1>2 DEF IsIssued, TaskOf, GenerationOf, TypeOK
<1>6. Issued'
  <2>1. (\A l \in open : IsIssued(l))'
    BY <1>1, <1>2, <1>4, <1>5 DEF Issued, TypeOK
  <2>2. (\A v \in Workers : \A l \in todo[v] : IsIssued(l))'
    BY <1>1, <1>4 DEF Issued, TypeOK
  <2>3. ASSUME NEW v \in Workers, CarriesLease(v)'
        PROVE  held'[v] \in LeaseIds /\ IsIssued(held[v])'
    <3>1. CASE v = w
      <4>1. held'[v] = new
        BY <1>1, <3>1 DEF TypeOK
      <4> QED
        BY <4>1, <1>2, <1>5 DEF IsIssued
    <3>2. CASE v # w
      <4>1. held'[v] = held[v] /\ CarriesLease(v)
        BY <1>1, <2>3, <3>2 DEF CarriesLease, TypeOK
      <4>2. held[v] \in LeaseIds /\ IsIssued(held[v])
        BY <4>1 DEF Issued
      <4> QED
        BY <4>1, <4>2, <1>4 DEF IsIssued
    <3> QED
      BY <3>1, <3>2
  <2> QED
    BY <2>1, <2>2, <2>3 DEF Issued
<1>7. Planned'
  BY <1>1 DEF Planned, TypeOK
<1>8. Settled'
  <2> SUFFICES ASSUME NEW v \in Workers, ReleasesNext(v)', Fence(v)'
               PROVE  status'[TaskOf(held'[v])] # "running"
    BY DEF Settled
  <2>1. v # w /\ held'[v] = held[v] /\ ReleasesNext(v)
    BY <1>1 DEF ReleasesNext, TypeOK
  <2>2. held[v] \in LeaseIds /\ IsIssued(held[v])
    BY <2>1 DEF Issued, CarriesLease, ReleasesNext
  <2>3. TaskOf(held[v]) # t
    BY <1>1, <2>1, <2>2 DEF Fence, IsIssued, TypeOK
  <2>4. Fence(v)
    BY <1>1, <2>1, <2>2, <2>3 DEF Fence, TypeOK
  <2> QED
    BY <1>1, <2>1, <2>3, <2>4 DEF Settled, TypeOK
<1>9. RunningIsLeased'
  BY <1>1 DEF RunningIsLeased, CurrentLease, TypeOK
<1>10. OneExecutorPerGeneration'
  BY <1>1, <1>2, <1>4 DEF OneExecutorPerGeneration, Issued, CarriesLease, TypeOK
<1>11. ResultIsLatest'
  <2> SUFFICES ASSUME NEW u \in Tasks, status'[u] = "succeeded"
               PROVE  /\ writer[u] = generation'[u]
                      /\ \A v \in Workers :
                            pc'[v] = "executing" => held'[v] # <<u, generation'[u]>>
    BY <1>1 DEF ResultIsLatest, CurrentLease
  <2>1. u # t /\ status[u] = "succeeded" /\ generation'[u] = generation[u]
    BY <1>1 DEF TypeOK
  <2> QED
    BY <1>1, <2>1 DEF ResultIsLatest, CurrentLease, TypeOK
<1>12. SuccessIsVisible' /\ Unpublished'
  BY <1>1 DEF SuccessIsVisible, Unpublished, ClaimTask, TypeOK
<1> QED
  BY <1>3, <1>6, <1>7, <1>8, <1>9, <1>10, <1>11, <1>12

(* A publication is made under the current generation, so it settles the   *)
(* task for everybody who carries the current lease.                       *)
LEMMA PublishPreservesIInv ==
    ASSUME IInv, NEW w \in Workers, CarriesLease(w),
           NEW outcome \in {"succeeded", "failed"}, Publish(w, outcome),
           outcome = "succeeded" => pc[w] = "executing"
    PROVE  IInv'
<1> USE DEF IInv
<1> DEFINE t == TaskOf(held[w])
<1>1. /\ held[w] \in LeaseIds
      /\ IsIssued(held[w])
      /\ t \in Tasks
      /\ GenerationOf(held[w]) \in Nat
  BY DEF Issued, CarriesLease, LeaseIds, TaskOf, GenerationOf
<1>2. /\ status' = [status EXCEPT ![t] = outcome]
      /\ writer' = [writer EXCEPT ![t] = GenerationOf(held[w])]
      /\ runStatus' = [runStatus EXCEPT ![t] = outcome]
      /\ pc' = [pc EXCEPT ![w] = outcome]
      /\ UNCHANGED <<generation, open, lapsed, held, todo, plan>>
      /\ generation[t] = GenerationOf(held[w])
  BY DEF Publish, RunAfter, leases, Fence
<1>3. TypeOK'
  BY <1>1, <1>2 DEF TypeOK, Publish, Status, TerminalStatus, requests
<1>4. Issued'
  BY <1>2 DEF Issued, IsIssued, CarriesLease, TypeOK
<1>5. Planned'
  BY <1>2 DEF Planned, TypeOK
<1>6. Settled'
  <2> SUFFICES ASSUME NEW v \in Workers, ReleasesNext(v)', Fence(v)'
               PROVE  status'[TaskOf(held[v])] # "running"
    BY <1>2 DEF Settled
  <2>1. CASE TaskOf(held[v]) = t
    BY <1>1, <1>2, <2>1 DEF TypeOK
  <2>2. CASE TaskOf(held[v]) # t
    <3>1. v # w /\ ReleasesNext(v) /\ Fence(v)
      BY <1>2, <2>2 DEF ReleasesNext, Fence, TypeOK
    <3>2. TaskOf(held[v]) \in Tasks /\ status[TaskOf(held[v])] # "running"
      BY <3>1 DEF Issued, CarriesLease, ReleasesNext, LeaseIds, TaskOf, Settled
    <3> QED
      BY <1>2, <2>2, <3>2 DEF TypeOK
  <2> QED
    BY <2>1, <2>2
<1>7. RunningIsLeased'
  BY <1>1, <1>2 DEF RunningIsLeased, CurrentLease, TypeOK
<1>8. OneExecutorPerGeneration'
  BY <1>2 DEF OneExecutorPerGeneration, TypeOK
<1>9. ResultIsLatest'
  <2> SUFFICES ASSUME NEW u \in Tasks, status'[u] = "succeeded"
               PROVE  /\ writer'[u] = generation[u]
                      /\ \A v \in Workers :
                            pc'[v] = "executing" => held[v] # <<u, generation[u]>>
    BY <1>2 DEF ResultIsLatest, CurrentLease
  <2>1. CASE u = t
    <3>1. held[w] = <<t, generation[t]>> /\ pc[w] = "executing"
      BY <1>1, <1>2, <2>1 DEF LeaseIds, TaskOf, GenerationOf, TypeOK
    <3> QED
      BY <1>1, <1>2, <2>1, <3>1 DEF OneExecutorPerGeneration, TypeOK
  <2>2. CASE u # t
    BY <1>1, <1>2, <2>2 DEF ResultIsLatest, CurrentLease, TypeOK
  <2> QED
    BY <2>1, <2>2
<1>10. SuccessIsVisible' /\ Unpublished'
  BY <1>1, <1>2 DEF SuccessIsVisible, Unpublished, TypeOK
<1> QED
  BY <1>3, <1>4, <1>5, <1>6, <1>7, <1>8, <1>9, <1>10

(* A sweep takes a lease from a snapshot of issued leases.                 *)
LEMMA ReadPreservesIInv ==
    ASSUME IInv, NEW w \in Workers, NEW l \in todo[w], ReadLeased(w, l)
    PROVE  IInv'
<1> USE DEF IInv
<1>1. /\ todo' = [todo EXCEPT ![w] = todo[w] \ {l}]
      /\ held' = [held EXCEPT ![w] = l]
      /\ plan'[w] \in {"queued", "failed", "cancelled"}
      /\ \A v \in Workers : v # w => plan'[v] = plan[v]
      /\ pc' = [pc EXCEPT ![w] = "recover"]
      /\ UNCHANGED <<status, generation, writer, runStatus, open, lapsed>>
  BY DEF ReadLeased, TypeOK, rows, leases
<1>2. l \in LeaseIds /\ IsIssued(l)
  BY DEF Issued, TypeOK
<1>3. TypeOK'
  BY <1>1, <1>2 DEF TypeOK, ReadLeased, rows, leases, requests
<1>4. Issued'
  BY <1>1, <1>2 DEF Issued, IsIssued, CarriesLease, TypeOK
<1>5. Planned'
  BY <1>1 DEF Planned, TypeOK
<1>6. Settled'
  BY <1>1 DEF Settled, ReleasesNext, Fence, TypeOK
<1>7. RunningIsLeased' /\ ResultIsLatest' /\ SuccessIsVisible' /\ Unpublished'
  BY <1>1 DEF RunningIsLeased, CurrentLease, ResultIsLatest, SuccessIsVisible, Unpublished, TypeOK
<1>8. OneExecutorPerGeneration'
  BY <1>1 DEF OneExecutorPerGeneration, TypeOK
<1> QED
  BY <1>3, <1>4, <1>5, <1>6, <1>7, <1>8

(* Once the sweep wrote, or found nothing to write, its task is not running*)
(* under any generation the sweep may be holding.                          *)
LEMMA RecoverPreservesIInv ==
    ASSUME IInv, NEW w \in Workers, Recover(w)
    PROVE  IInv'
<1> USE DEF IInv
<1> DEFINE t == TaskOf(held[w])
<1>1. /\ held[w] \in LeaseIds
      /\ t \in Tasks
      /\ plan[w] \in {"queued", "failed", "cancelled"}
  BY DEF Issued, CarriesLease, LeaseIds, TaskOf, Recover, Planned, TypeOK
<1>2. /\ \/ /\ status[t] = "running"
            /\ status' = [status EXCEPT ![t] = plan[w]]
            /\ \/ runStatus' = runStatus
               \/ /\ runStatus[t] \in {"queued", "running"}
                  /\ runStatus' = [runStatus EXCEPT ![t] = plan[w]]
         \/ status[t] # "running" /\ UNCHANGED <<status, runStatus>>
      /\ pc' = [pc EXCEPT ![w] = "recovered"]
      /\ pc[w] = "recover"
      /\ UNCHANGED <<generation, writer, open, lapsed, held, todo, plan>>
  BY DEF Recover, Recoverable, leases
<1>3. TypeOK'
  BY <1>1, <1>2 DEF TypeOK, Recover, Status, TerminalStatus, requests
<1>4. Issued'
  BY <1>2 DEF Issued, IsIssued, CarriesLease, TypeOK
<1>5. Planned'
  BY <1>2 DEF Planned, TypeOK
<1>6. Settled'
  <2> SUFFICES ASSUME NEW v \in Workers, ReleasesNext(v)', Fence(v)'
               PROVE  status'[TaskOf(held[v])] # "running"
    BY <1>2 DEF Settled
  <2>1. CASE TaskOf(held[v]) = t
    BY <1>1, <1>2, <2>1 DEF TypeOK
  <2>2. CASE TaskOf(held[v]) # t
    <3>1. v # w /\ ReleasesNext(v) /\ Fence(v)
      BY <1>2, <2>2 DEF ReleasesNext, Fence, TypeOK
    <3>2. TaskOf(held[v]) \in Tasks /\ status[TaskOf(held[v])] # "running"
      BY <3>1 DEF Issued, CarriesLease, ReleasesNext, LeaseIds, TaskOf, Settled
    <3> QED
      BY <1>2, <2>2, <3>2 DEF TypeOK
  <2> QED
    BY <2>1, <2>2
<1>7. RunningIsLeased'
  BY <1>1, <1>2 DEF RunningIsLeased, CurrentLease, TypeOK
<1>8. OneExecutorPerGeneration'
  BY <1>2 DEF OneExecutorPerGeneration, TypeOK
<1>9. ResultIsLatest'
  BY <1>1, <1>2 DEF ResultIsLatest, CurrentLease, TypeOK
<1>10. SuccessIsVisible' /\ Unpublished'
  BY <1>1, <1>2 DEF SuccessIsVisible, Unpublished, TypeOK
<1> QED
  BY <1>3, <1>4, <1>5, <1>6, <1>7, <1>8, <1>9, <1>10

(* Whoever releases the current lease of a task has settled it.            *)
LEMMA ReleasePreservesIInv ==
    ASSUME IInv, NEW w \in Workers, ReleaseLease(w) \/ ReleaseRecovered(w)
    PROVE  IInv'
<1> USE DEF IInv
<1>1. /\ ReleasesNext(w)
      /\ open' = open \ {held[w]}
      /\ lapsed' = lapsed \ {held[w]}
      /\ held' = [held EXCEPT ![w] = NoLease]
      /\ pc'[w] \in {"idle", "sweep"}
      /\ pc' = [pc EXCEPT ![w] = pc'[w]]
      /\ plan' = [plan EXCEPT ![w] = plan'[w]]
      /\ plan'[w] \in {plan[w], "none"}
      /\ UNCHANGED <<status, generation, attempts, writer, runStatus,
                     cancelWanted, todo, requests, crashes, calm>>
  BY DEF ReleaseLease, ReleaseRecovered, ReleasesNext, Released, rows, TypeOK
<1>2. /\ held[w] \in LeaseIds
      /\ Fence(w) => status[TaskOf(held[w])] # "running"
  BY <1>1 DEF Issued, CarriesLease, ReleasesNext, Settled
<1>3. TypeOK'
  BY <1>1 DEF TypeOK, requests
<1>4. Issued'
  BY <1>1 DEF Issued, IsIssued, CarriesLease, TypeOK
<1>5. Planned'
  BY <1>1 DEF Planned, TypeOK
<1>6. Settled'
  BY <1>1 DEF Settled, ReleasesNext, Fence, TypeOK
<1>7. RunningIsLeased'
  <2> SUFFICES ASSUME NEW t \in Tasks, status[t] = "running"
               PROVE  <<t, generation[t]>> \in open'
    BY <1>1 DEF RunningIsLeased, CurrentLease
  <2>1. <<t, generation[t]>> \in open
    BY DEF RunningIsLeased, CurrentLease
  <2>2. <<t, generation[t]>> # held[w]
    BY <1>2 DEF Fence, TaskOf, GenerationOf
  <2> QED
    BY <1>1, <2>1, <2>2
<1>8. OneExecutorPerGeneration'
  BY <1>1 DEF OneExecutorPerGeneration, TypeOK
<1>9. ResultIsLatest' /\ SuccessIsVisible' /\ Unpublished'
  BY <1>1 DEF ResultIsLatest, CurrentLease, SuccessIsVisible, Unpublished, TypeOK
<1> QED
  BY <1>3, <1>4, <1>5, <1>6, <1>7, <1>8, <1>9

(* A worker that drops what it carries, or begins or ends a sweep, leaves  *)
(* the rows and the leases alone.                                          *)
LEMMA LocalStepPreservesIInv ==
    ASSUME IInv, NEW w \in Workers, UNCHANGED <<rows, leases, requests, calm>>,
           pc'[w] \in {"idle", "sweep"}, pc' = [pc EXCEPT ![w] = pc'[w]],
           held'[w] \in {held[w], NoLease}, held' = [held EXCEPT ![w] = held'[w]],
           todo'[w] \in {todo[w], lapsed, {}}, todo' = [todo EXCEPT ![w] = todo'[w]],
           plan'[w] \in {plan[w], "none"}, plan' = [plan EXCEPT ![w] = plan'[w]],
           crashes' \in {crashes, crashes + 1}
    PROVE  IInv'
<1> USE DEF IInv
<1>1. TypeOK'
  BY DEF TypeOK, rows, leases, requests
<1>2. Issued'
  BY DEF Issued, IsIssued, CarriesLease, TypeOK, rows, leases
<1>3. Planned'
  BY DEF Planned, TypeOK
<1>4. Settled'
  BY DEF Settled, ReleasesNext, Fence, TypeOK, rows
<1>5. RunningIsLeased' /\ ResultIsLatest' /\ SuccessIsVisible' /\ Unpublished'
  BY DEF RunningIsLeased, CurrentLease, ResultIsLatest, SuccessIsVisible, Unpublished, rows,
         leases, TypeOK
<1>6. OneExecutorPerGeneration'
  BY DEF OneExecutorPerGeneration, TypeOK
<1> QED
  BY <1>1, <1>2, <1>3, <1>4, <1>5, <1>6

(* The clock and the heartbeats only move leases in and out of lapsed.     *)
LEMMA ClockPreservesIInv ==
    ASSUME IInv, UNCHANGED <<rows, open, locals, requests, crashes, calm>>, lapsed' \subseteq open
    PROVE  IInv'
<1> USE DEF IInv
<1>1. TypeOK'
  BY DEF TypeOK, rows, locals, requests
<1>2. Issued' /\ Planned' /\ Settled'
  BY DEF Issued, IsIssued, CarriesLease, Planned, Settled, ReleasesNext, Fence, rows, locals
<1>3. /\ RunningIsLeased' /\ OneExecutorPerGeneration'
      /\ ResultIsLatest' /\ SuccessIsVisible' /\ Unpublished'
  BY DEF RunningIsLeased, CurrentLease, OneExecutorPerGeneration, ResultIsLatest,
         SuccessIsVisible, Unpublished, rows, locals
<1> QED
  BY <1>1, <1>2, <1>3

(* A client takes no run from success, gives no task a result and lets     *)
(* none run.                                                               *)
LEMMA ClientsPreserveIInv ==
    ASSUME IInv, NEW t \in Tasks, ClientStep(t)
    PROVE  IInv'
<1> USE DEF IInv
<1>1. /\ UNCHANGED <<generation, writer, open, lapsed, pc, held, todo, plan>>
      /\ \/ status' = status
         \/ \E s \in {"cancelled", "queued"} : status' = [status EXCEPT ![t] = s]
      /\ \/ runStatus' = runStatus
         \/ /\ runStatus[t] \in {"queued", "running"}
            /\ runStatus' = [runStatus EXCEPT ![t] = "cancelled"]
  BY WhatClientsWrite
<1>2. TypeOK'
  BY ClientsKeepTypes
<1>3. Issued' /\ Planned'
  BY <1>1 DEF Issued, IsIssued, CarriesLease, Planned
<1>4. Settled'
  <2> SUFFICES ASSUME NEW v \in Workers, ReleasesNext(v), Fence(v)
               PROVE  status'[TaskOf(held[v])] # "running"
    BY <1>1 DEF Settled, ReleasesNext, Fence
  <2>1. TaskOf(held[v]) \in Tasks /\ status[TaskOf(held[v])] # "running"
    BY DEF Issued, CarriesLease, ReleasesNext, LeaseIds, TaskOf, Settled
  <2> QED
    BY <1>1, <2>1 DEF TypeOK
<1>5. RunningIsLeased'
  BY <1>1 DEF RunningIsLeased, CurrentLease, TypeOK
<1>6. OneExecutorPerGeneration'
  BY <1>1 DEF OneExecutorPerGeneration
<1>7. ResultIsLatest'
  BY <1>1 DEF ResultIsLatest, CurrentLease, TypeOK
<1>8. SuccessIsVisible' /\ Unpublished'
  BY <1>1 DEF SuccessIsVisible, Unpublished, TypeOK
<1> QED
  BY <1>2, <1>3, <1>4, <1>5, <1>6, <1>7, <1>8

(* Every step preserves the invariant.                                     *)
LEMMA StepPreservesIInv == IInv /\ [Next]_vars => IInv'
<1> SUFFICES ASSUME IInv, [Next]_vars
             PROVE  IInv'
  OBVIOUS
<1>1. ASSUME NEW w \in Workers, ListExpired(w) \/ ClaimNothing(w) \/ Fenced(w) \/ Crash(w)
      PROVE  IInv'
  <2>1. TypeOK
    BY DEF IInv
  <2> QED
    BY <1>1, <2>1, LocalStepPreservesIInv
    DEF ListExpired, ClaimNothing, Fenced, Crash, TypeOK
<1>2. ASSUME NEW w \in Workers, NEW l \in todo[w], ReadLeased(w, l)
      PROVE  IInv'
  BY <1>2, ReadPreservesIInv
<1>3. ASSUME NEW w \in Workers, Recover(w)
      PROVE  IInv'
  BY <1>3, RecoverPreservesIInv
<1>4. ASSUME NEW w \in Workers, ReleaseLease(w) \/ ReleaseRecovered(w)
      PROVE  IInv'
  BY <1>4, ReleasePreservesIInv
<1>5. ASSUME NEW w \in Workers, NEW t \in Tasks, ClaimTask(w, t)
      PROVE  IInv'
  BY <1>5, ClaimPreservesIInv
<1>6. ASSUME NEW w \in Workers, Finalize(w)
      PROVE  IInv'
  BY <1>1, <1>6, PublishPreservesIInv DEF Finalize, CarriesLease
<1>7. ASSUME NEW w \in Workers, ReleaseFails(w)
      PROVE  IInv'
  <2>1. CASE pc[w] = "succeeded" /\ Publish(w, "failed")
    BY <2>1, PublishPreservesIInv DEF CarriesLease
  <2>2. CASE Fenced(w)
    BY <1>1, <2>2
  <2>3. CASE /\ pc' = [pc EXCEPT ![w] = "idle"]
             /\ held' = [held EXCEPT ![w] = NoLease]
             /\ UNCHANGED <<rows, leases, todo, plan, requests, crashes, calm>>
    <3>1. TypeOK
      BY DEF IInv
    <3> QED
      BY <2>3, <3>1, LocalStepPreservesIInv DEF TypeOK
  <2> QED
    BY <1>7, <2>1, <2>2, <2>3 DEF ReleaseFails
<1>8. ASSUME NEW w \in Workers, Heartbeat(w)
      PROVE  IInv'
  <2>1. TypeOK
    BY DEF IInv
  <2> QED
    BY <1>8, <2>1, ClockPreservesIInv DEF Heartbeat, TypeOK
<1>9. ASSUME NEW l \in Active, Lapse(l)
      PROVE  IInv'
  <2>1. TypeOK
    BY DEF IInv
  <2> QED
    BY <1>9, <2>1, ClockPreservesIInv DEF Lapse, Active, TypeOK
<1>10. ASSUME NEW t \in Tasks, ClientStep(t)
       PROVE  IInv'
  BY <1>10, ClientsPreserveIInv
<1>11. CASE UNCHANGED vars
  <2>1. TypeOK
    BY DEF IInv
  <2> QED
    BY <1>11, <2>1, ClockPreservesIInv DEF vars, leases, TypeOK
<1> QED
  BY <1>1, <1>2, <1>3, <1>4, <1>5, <1>6, <1>7, <1>8, <1>9, <1>10, <1>11 DEF Next, Work, ClientStep

-----------------------------------------------------------------------------
(* The inductive invariant holds of every behaviour.                       *)
THEOREM Invariance == Spec => []IInv
<1>1. Init => IInv
  BY InitEstablishesIInv
<1>2. IInv /\ [Next]_vars => IInv'
  BY StepPreservesIInv
<1> QED
  BY <1>1, <1>2, PTL DEF Spec

(* Every column and every local of a worker keeps its type.                *)
THEOREM TypeCorrect == Spec => []TypeOK
<1>1. IInv => TypeOK
  BY DEF IInv
<1> QED
  BY <1>1, Invariance, PTL

(* A running task always has the lease by which a sweep can recover it.    *)
THEOREM RunningTasksAreRecoverable == Spec => []RunningIsLeased
<1>1. IInv => RunningIsLeased
  BY DEF IInv
<1> QED
  BY <1>1, Invariance, PTL

(* Two workers never execute under one generation.                         *)
THEOREM GenerationsAreExclusive == Spec => []OneExecutorPerGeneration
<1>1. IInv => OneExecutorPerGeneration
  BY DEF IInv
<1> QED
  BY <1>1, Invariance, PTL

(* A task that reads succeeded carries the result of its latest execution, *)
(* and nobody executes it under that right any more.                       *)
THEOREM StaleResultsAreFenced == Spec => []ResultIsLatest
<1>1. IInv => ResultIsLatest
  BY DEF IInv
<1> QED
  BY <1>1, Invariance, PTL

(* A succeeded task has a succeeded run.                                   *)
THEOREM SuccessReachesTheRun == Spec => []SuccessIsVisible
<1>1. IInv => SuccessIsVisible
  BY DEF IInv
<1> QED
  BY <1>1, Invariance, PTL

-----------------------------------------------------------------------------
(* Which steps move the fencing token, a result or the right to another    *)
(* execution, and how.                                                     *)
LEMMA ClaimIsAbstract ==
    ASSUME IInv, NEW w \in Workers, NEW t \in Tasks, ClaimTask(w, t)
    PROVE  FT!Next
<1>1. /\ generation' = [generation EXCEPT ![t] = generation[t] + 1]
      /\ status' = [status EXCEPT ![t] = "running"]
      /\ status[t] = "queued"
      /\ UNCHANGED <<writer, retries>>
      /\ writer[t] \in Nat /\ generation[t] \in Nat /\ writer[t] <= generation[t]
  BY DEF ClaimTask, NextGeneration, Claimable, requests, IInv, TypeOK, Unpublished
<1>2. MayBeGranted(t)
  BY <1>1 DEF MayBeGranted
<1>3. \A u \in Tasks : MayBeGranted(u)' <=> MayBeGranted(u)
  BY <1>1 DEF MayBeGranted, IInv, TypeOK
<1>4. [u \in Tasks |-> MayBeGranted(u)]' = [u \in Tasks |-> MayBeGranted(u)]
  BY <1>3, Zenon DEF MayBeGranted
<1>5. FT!Grant(t)
  BY <1>1, <1>2, <1>4 DEF FT!Grant
<1> QED
  BY <1>5 DEF FT!Next

LEMMA PublishIsAbstract ==
    ASSUME IInv, NEW w \in Workers, CarriesLease(w),
           NEW outcome \in {"succeeded", "failed"}, Publish(w, outcome)
    PROVE  FT!Next
<1> DEFINE t == TaskOf(held[w])
<1>1. /\ t \in Tasks
      /\ 1 <= GenerationOf(held[w])
      /\ generation[t] = GenerationOf(held[w])
      /\ generation[t] \in Nat
  BY DEF IInv, TypeOK, Issued, CarriesLease, IsIssued, LeaseIds, TaskOf, Publish, Fence
<1>2. /\ writer' = [writer EXCEPT ![t] = generation[t]]
      /\ status' = [status EXCEPT ![t] = outcome]
      /\ UNCHANGED <<generation, retries>>
  BY <1>1 DEF Publish, requests
<1>3. \A u \in Tasks : MayBeGranted(u)' <=> MayBeGranted(u) /\ u # t
  BY <1>1, <1>2 DEF MayBeGranted, IInv, TypeOK
<1>4. [u \in Tasks |-> MayBeGranted(u)]'
        = [[u \in Tasks |-> MayBeGranted(u)] EXCEPT ![t] = FALSE]
  BY <1>1, <1>3, Zenon DEF MayBeGranted
<1>5. FT!Publish(t)
  BY <1>1, <1>2, <1>4 DEF FT!Publish
<1> QED
  BY <1>1, <1>5 DEF FT!Next

LEMMA ClientsAreAbstract ==
    ASSUME IInv, NEW t \in Tasks, ClientStep(t)
    PROVE  FT!Next \/ UNCHANGED FT!vars
<1> DEFINE Open == [u \in Tasks |-> MayBeGranted(u)]
<1>1. UNCHANGED <<generation, writer>> /\ TypeOK
  BY WhatClientsWrite DEF IInv
<1>2. CASE status' = status /\ retries' = retries
  BY <1>1, <1>2 DEF MayBeGranted, FT!vars
<1>3. CASE status' = [status EXCEPT ![t] = "cancelled"] /\ retries' = retries
  <2>1. \A u \in Tasks :
           MayBeGranted(u)' <=> IF u = t THEN writer[t] # generation[t] ELSE MayBeGranted(u)
    BY <1>1, <1>3 DEF MayBeGranted, TypeOK
  <2>2. CASE writer[t] # generation[t]
    <3>1. \A u \in Tasks : MayBeGranted(u)' <=> MayBeGranted(u)
      BY <2>1, <2>2 DEF MayBeGranted
    <3>2. Open' = Open
      BY <3>1, Zenon DEF MayBeGranted
    <3> QED
      BY <1>1, <1>3, <3>2 DEF FT!vars
  <2>3. CASE writer[t] = generation[t]
    <3>1. \A u \in Tasks : MayBeGranted(u)' <=> MayBeGranted(u) /\ u # t
      BY <2>1, <2>3
    <3>2. Open' = [Open EXCEPT ![t] = FALSE]
      BY <3>1, Zenon DEF MayBeGranted
    <3>3. FT!Withdraw(t)
      BY <1>1, <1>3, <3>2 DEF FT!Withdraw
    <3> QED
      BY <3>3 DEF FT!Next
  <2> QED
    BY <2>2, <2>3
<1>4. CASE /\ status' = [status EXCEPT ![t] = "queued"]
           /\ retries' = [retries EXCEPT ![t] = retries[t] + 1]
  <2>1. \A u \in Tasks : MayBeGranted(u)' <=> MayBeGranted(u) \/ u = t
    BY <1>1, <1>4 DEF MayBeGranted, TypeOK
  <2>2. Open' = [Open EXCEPT ![t] = TRUE]
    BY <2>1, Zenon DEF MayBeGranted
  <2>3. FT!Ask(t)
    BY <1>1, <1>4, <2>2 DEF FT!Ask
  <2> QED
    BY <2>3 DEF FT!Next
<1> QED
  BY <1>2, <1>3, <1>4, WhatClientsWrite

(* A sweep that ends an execution takes away no right and gives none: the  *)
(* task was running, so its latest execution had not published.            *)
LEMMA RecoverIsAbstract ==
    ASSUME IInv, NEW w \in Workers, Recover(w)
    PROVE  UNCHANGED FT!vars
<1>1. /\ UNCHANGED <<generation, writer, retries>>
      /\ \/ status' = status
         \/ /\ status[TaskOf(held[w])] = "running"
            /\ status' = [status EXCEPT ![TaskOf(held[w])] = plan[w]]
  BY DEF Recover, Recoverable, requests
<1>2. \A t \in Tasks : MayBeGranted(t)' <=> MayBeGranted(t)
  BY <1>1 DEF MayBeGranted, IInv, TypeOK, Unpublished
<1>3. [t \in Tasks |-> MayBeGranted(t)]' = [t \in Tasks |-> MayBeGranted(t)]
  BY <1>2, Zenon DEF MayBeGranted
<1> QED
  BY <1>1, <1>3 DEF FT!vars

LEMMA StepIsAbstract == IInv /\ [Next]_vars => [FT!Next]_(FT!vars)
<1> SUFFICES ASSUME IInv, [Next]_vars
             PROVE  FT!Next \/ UNCHANGED FT!vars
  OBVIOUS
<1>1. ASSUME UNCHANGED <<status, generation, writer, retries>>
      PROVE  UNCHANGED FT!vars
  BY <1>1 DEF MayBeGranted, FT!vars
<1>2. ASSUME NEW w \in Workers, Finalize(w)
      PROVE  FT!Next \/ UNCHANGED FT!vars
  BY <1>1, <1>2, PublishIsAbstract DEF Finalize, Fenced, CarriesLease, rows, requests
<1>3. ASSUME NEW w \in Workers, ReleaseFails(w)
      PROVE  FT!Next \/ UNCHANGED FT!vars
  <2>1. CASE pc[w] = "succeeded" /\ Publish(w, "failed")
    BY <2>1, PublishIsAbstract DEF CarriesLease
  <2>2. CASE UNCHANGED <<rows, requests>>
    BY <1>1, <2>2 DEF rows, requests
  <2> QED
    BY <1>3, <2>1, <2>2 DEF ReleaseFails, Fenced
<1>4. ASSUME NEW w \in Workers,
             \/ ListExpired(w) \/ ClaimNothing(w) \/ Heartbeat(w)
             \/ ReleaseLease(w) \/ ReleaseRecovered(w) \/ Crash(w)
             \/ \E l \in todo[w] : ReadLeased(w, l)
      PROVE  UNCHANGED FT!vars
  BY <1>1, <1>4 DEF ListExpired, ClaimNothing, Heartbeat, ReleaseLease,
                    ReleaseRecovered, Crash, ReadLeased, rows, requests
<1>5. ASSUME NEW l \in Active, Lapse(l)
      PROVE  UNCHANGED FT!vars
  BY <1>1, <1>5 DEF Lapse, rows, requests
<1>6. CASE UNCHANGED vars
  BY <1>1, <1>6 DEF vars, rows, requests
<1> QED
  BY <1>2, <1>3, <1>4, <1>5, <1>6, ClaimIsAbstract, RecoverIsAbstract, ClientsAreAbstract
  DEF Next, Work, ClientStep

(* The coordinator implements the fencing token: a result is published only*)
(* under the token granted last, and after a result another is granted only*)
(* when a client asked for it.                                             *)
THEOREM ImplementsFencingToken == Spec => PublishesUnderToken
<1>1. Init => FT!Init
  <2> SUFFICES ASSUME Init PROVE FT!Init
    OBVIOUS
  <2>1. [t \in Tasks |-> MayBeGranted(t)] \in [Tasks -> BOOLEAN]
    BY DEF MayBeGranted
  <2>2. retries \in [Tasks -> Nat]
    BY CoordinatorAssumption DEF Init
  <2> QED
    BY <2>1, <2>2 DEF Init, FT!Init
<1>2. IInv /\ [Next]_vars => [FT!Next]_(FT!vars)
  BY StepIsAbstract
<1> QED
  BY <1>1, <1>2, Invariance, PTL DEF Spec, PublishesUnderToken, FT!Spec

-----------------------------------------------------------------------------
(* When no release is refused, an execution that holds the current lease   *)
(* has yet to publish, and unless a client retried the task, a run that    *)
(* succeeded did so by its latest execution and waits for no other.        *)
Unwritten ==
    \A w \in Workers : pc[w] = "executing" /\ Fence(w) =>
        writer[TaskOf(held[w])] # generation[TaskOf(held[w])]

SuccessIsLatest ==
    \A t \in Tasks : runStatus[t] = "succeeded" /\ retries[t] = 0 =>
        writer[t] = generation[t] /\ status[t] # "queued"

SInv == IInv /\ Unwritten /\ SuccessIsLatest

(* What a step may do to the success of a run.                             *)
KeepsSuccess ==
    \A t \in Tasks : runStatus[t] = "succeeded" /\ runStatus'[t] # "succeeded" =>
        writer'[t] > writer[t] /\ retries[t] > 0

(* The three kinds of steps that touch a result, a run or an executor.     *)
LEMMA ClaimPreservesSInv ==
    ASSUME SInv, NEW w \in Workers, NEW t \in Tasks, ClaimTask(w, t)
    PROVE  Unwritten' /\ SuccessIsLatest' /\ KeepsSuccess
<1> USE DEF SInv, IInv
<1>1. /\ generation' = [generation EXCEPT ![t] = generation[t] + 1]
      /\ pc' = [pc EXCEPT ![w] = "executing"]
      /\ held' = [held EXCEPT ![w] = <<t, generation[t] + 1>>]
      /\ runStatus' = [runStatus EXCEPT ![t] = IF @ = "queued" THEN "running" ELSE @]
      /\ status' = [status EXCEPT ![t] = "running"]
      /\ status[t] = "queued"
      /\ UNCHANGED <<writer, retries>>
      /\ writer[t] <= generation[t] /\ writer[t] \in Nat /\ generation[t] \in Nat
  BY DEF ClaimTask, NextGeneration, Claimable, Unpublished, TypeOK, requests
<1>2. Unwritten'
  <2> SUFFICES ASSUME NEW v \in Workers, pc'[v] = "executing", Fence(v)'
               PROVE  writer[TaskOf(held'[v])] # generation'[TaskOf(held'[v])]
    BY <1>1 DEF Unwritten
  <2>1. CASE v = w
    BY <1>1, <2>1 DEF TaskOf, TypeOK
  <2>2. CASE v # w
    <3>1. pc[v] = "executing" /\ held'[v] = held[v]
      BY <1>1, <2>2 DEF TypeOK
    <3>2. held[v] \in LeaseIds /\ IsIssued(held[v])
      BY <3>1 DEF Issued, CarriesLease
    <3>3. TaskOf(held[v]) # t /\ Fence(v)
      BY <1>1, <3>1, <3>2 DEF Fence, IsIssued, TypeOK
    <3>4. generation'[TaskOf(held[v])] = generation[TaskOf(held[v])]
      BY <1>1, <3>3 DEF TypeOK
    <3> QED
      BY <3>1, <3>3, <3>4 DEF Unwritten
  <2> QED
    BY <2>1, <2>2
<1>3. SuccessIsLatest' /\ KeepsSuccess
  BY <1>1 DEF SuccessIsLatest, KeepsSuccess, TypeOK
<1> QED
  BY <1>2, <1>3

LEMMA FinalizePreservesSInv ==
    ASSUME SInv, NEW w \in Workers, pc[w] = "executing",
           NEW outcome \in {"succeeded", "failed"}, Publish(w, outcome)
    PROVE  Unwritten' /\ SuccessIsLatest' /\ KeepsSuccess
<1> USE DEF SInv, IInv
<1> DEFINE t == TaskOf(held[w])
<1>1. /\ held[w] \in LeaseIds /\ t \in Tasks
      /\ GenerationOf(held[w]) = generation[t]
      /\ writer[t] < generation[t] /\ writer[t] \in Nat /\ generation[t] \in Nat
  BY DEF Issued, CarriesLease, IsIssued, LeaseIds, TaskOf, GenerationOf, Publish, Fence, Unwritten,
         Unpublished, TypeOK
<1>2. /\ writer' = [writer EXCEPT ![t] = generation[t]]
      /\ status' = [status EXCEPT ![t] = outcome]
      /\ runStatus' = [runStatus EXCEPT ![t] = outcome]
      /\ pc' = [pc EXCEPT ![w] = outcome]
      /\ UNCHANGED <<generation, held, retries>>
  BY <1>1 DEF Publish, RunAfter, requests
<1>3. Unwritten'
  <2> SUFFICES ASSUME NEW v \in Workers, pc'[v] = "executing", Fence(v)
               PROVE  writer'[TaskOf(held[v])] # generation[TaskOf(held[v])]
    BY <1>2 DEF Unwritten, Fence
  <2>1. v # w /\ pc[v] = "executing" /\ held[v] # held[w]
    BY <1>2 DEF OneExecutorPerGeneration, TypeOK
  <2>2. held[v] \in LeaseIds
    BY <2>1 DEF Issued, CarriesLease
  <2>3. TaskOf(held[v]) # t
    BY <1>1, <1>2, <2>1, <2>2 DEF Fence, LeaseIds, TaskOf, GenerationOf
  <2> QED
    BY <1>2, <2>1, <2>2, <2>3 DEF Unwritten, TypeOK, LeaseIds, TaskOf
<1>4. SuccessIsLatest'
  BY <1>1, <1>2 DEF SuccessIsLatest, TypeOK
<1>5. KeepsSuccess
  BY <1>1, <1>2 DEF KeepsSuccess, SuccessIsLatest, TypeOK
<1> QED
  BY <1>3, <1>4, <1>5

LEMMA OtherStepsPreserveSInv ==
    ASSUME SInv, UNCHANGED <<generation, writer>>,
           \A v \in Workers : pc'[v] = "executing" => pc[v] = "executing" /\ held'[v] = held[v],
           \A t \in Tasks :
              /\ retries'[t] \in Nat
              /\ retries'[t] >= retries[t]
              /\ status'[t] = "queued" /\ status[t] # "queued" =>
                    retries'[t] > 0 \/ status[t] = "running"
              /\ runStatus'[t] # runStatus[t] => /\ runStatus[t] \in {"queued", "running"}
                                               /\ runStatus'[t] # "succeeded"
    PROVE  Unwritten' /\ SuccessIsLatest' /\ KeepsSuccess
<1>1. Unwritten' /\ KeepsSuccess
  BY DEF SInv, Unwritten, KeepsSuccess, Fence
<1>2. SuccessIsLatest'
  BY DEF SInv, IInv, TypeOK, SuccessIsLatest, Unpublished
<1> QED
  BY <1>1, <1>2

LEMMA StepPreservesSInv ==
    ASSUME calm, SInv, [Next]_vars
    PROVE  SInv' /\ KeepsSuccess
<1> DEFINE Goal == Unwritten' /\ SuccessIsLatest' /\ KeepsSuccess
<1>1. IInv /\ TypeOK /\ IInv'
  BY StepPreservesIInv DEF SInv, IInv
<1>2. ASSUME NEW w \in Workers, NEW t \in Tasks, ClaimTask(w, t)
      PROVE  Goal
  BY <1>2, ClaimPreservesSInv
<1>3. ASSUME NEW w \in Workers, Finalize(w)
      PROVE  Goal
  <2>1. ASSUME Fenced(w)
        PROVE  Goal
    BY <1>1, <2>1, OtherStepsPreserveSInv DEF Fenced, rows, requests, TypeOK
  <2> QED
    BY <1>3, <2>1, FinalizePreservesSInv DEF Finalize
<1>4. ASSUME NEW w \in Workers, Recover(w)
      PROVE  Goal
  <2>1. plan[w] \in {"queued", "failed", "cancelled"}
    BY <1>1, <1>4 DEF IInv, TypeOK, Planned, Recover
  <2> QED
    BY <1>1, <1>4, <2>1, OtherStepsPreserveSInv DEF Recover, Recoverable, requests, TypeOK
<1>5. ASSUME NEW w \in Workers,
             \/ ListExpired(w) \/ ClaimNothing(w) \/ ReleaseLease(w)
             \/ ReleaseRecovered(w) \/ Crash(w)
             \/ \E l \in todo[w] : ReadLeased(w, l)
      PROVE  Goal
  <2>1. /\ UNCHANGED <<status, generation, writer, runStatus, retries>>
        /\ \A v \in Workers : pc'[v] = "executing" => pc[v] = "executing" /\ held'[v] = held[v]
    BY <1>1, <1>5 DEF ListExpired, ClaimNothing, ReleaseLease, ReleaseRecovered, Crash, ReadLeased,
       rows, requests, TypeOK
  <2> QED
    BY <1>1, <2>1, OtherStepsPreserveSInv DEF TypeOK
<1>6. ASSUME UNCHANGED <<rows, locals, requests>>
      PROVE  Goal
  BY <1>1, <1>6, OtherStepsPreserveSInv DEF rows, locals, requests, TypeOK
<1>7. ASSUME NEW t \in Tasks, ClientStep(t)
      PROVE  Goal
  <2>1. UNCHANGED <<generation, writer, pc, held>>
    BY <1>7, WhatClientsWrite
  <2>2. ASSUME NEW u \in Tasks
        PROVE  /\ retries'[u] \in Nat /\ retries'[u] >= retries[u]
               /\ status'[u] = "queued" /\ status[u] # "queued" => retries'[u] > 0
    <3>1. retries[u] \in Nat
      BY <1>1 DEF TypeOK
    <3>2. CASE status' = status /\ retries' = retries
      BY <3>1, <3>2
    <3>3. CASE status' = [status EXCEPT ![t] = "cancelled"] /\ retries' = retries
      BY <1>1, <3>1, <3>3 DEF TypeOK
    <3>4. CASE /\ status' = [status EXCEPT ![t] = "queued"]
               /\ retries' = [retries EXCEPT ![t] = retries[t] + 1]
      <4>1. CASE u = t
        <5>1. retries'[u] = retries[u] + 1
          BY <1>1, <3>4, <4>1 DEF TypeOK
        <5> QED
          BY <3>1, <5>1
      <4>2. CASE u # t
        BY <1>1, <3>1, <3>4, <4>2 DEF TypeOK
      <4> QED
        BY <4>1, <4>2
    <3> QED
      BY <1>7, <3>2, <3>3, <3>4, WhatClientsWrite
  <2>3. ASSUME NEW u \in Tasks, runStatus'[u] # runStatus[u]
        PROVE  runStatus[u] \in {"queued", "running"} /\ runStatus'[u] # "succeeded"
    BY <1>1, <1>7, <2>3, WhatClientsWrite DEF TypeOK
  <2> QED
    BY <1>1, <2>1, <2>2, <2>3, OtherStepsPreserveSInv
<1>8. Goal
  BY <1>2, <1>3, <1>4, <1>5, <1>6, <1>7
  DEF Next, Work, ClientStep, ReleaseFails, Heartbeat, Lapse, vars
<1> QED
  BY <1>1, <1>8 DEF SInv

(* The weather does not change.                                            *)
LEMMA CalmStays == [Next]_vars => calm' = calm
<1>1. ASSUME NEW t \in Tasks, ClientStep(t) PROVE calm' = calm
  BY <1>1, WhatClientsWrite
<1> QED
  BY <1>1 DEF Next, Work, ListExpired, ReadLeased, Recover, ReleaseRecovered, ClaimTask,
         ClaimNothing, Finalize, Publish, Fenced, ReleaseLease, Heartbeat, ReleaseFails,
         Crash, Lapse, ClientStep, vars

(* While the database accepts every release, the success of a run is taken *)
(* away only by the result of a later execution, after a client retried    *)
(* the task.                                                               *)
THEOREM SuccessIsFinal == Spec => SucceededRunStays
<1> DEFINE Inv == calm => SInv
<1>1. Init => Inv
  <2> SUFFICES ASSUME Init PROVE SInv
    OBVIOUS
  <2>1. Unwritten /\ SuccessIsLatest
    BY DEF Init, Unwritten, SuccessIsLatest
  <2> QED
    BY <2>1, InitEstablishesIInv DEF SInv
<1>2. Inv /\ [Next]_vars => Inv'
  BY StepPreservesSInv, CalmStays
<1>3. Inv /\ [Next]_vars =>
        [calm => \A t \in Tasks :
            runStatus[t] = "succeeded" /\ runStatus'[t] # "succeeded" =>
                writer'[t] > writer[t] /\ retries[t] > 0]_vars
  BY StepPreservesSInv DEF KeepsSuccess
<1> QED
  BY <1>1, <1>2, <1>3, PTL DEF Spec, SucceededRunStays

-----------------------------------------------------------------------------
(* Apart from a claim, no step adds an active lease, when no heartbeat     *)
(* arrives after the expiry of its lease.                                  *)
CapInv == IInv /\ IsFiniteSet(open) /\ ActiveWithinCap

LEMMA ClaimKeepsCap ==
    ASSUME calm, CapInv, NEW w \in Workers, NEW t \in Tasks, ClaimTask(w, t)
    PROVE  IsFiniteSet(open') /\ ActiveWithinCap'
<1> DEFINE new == <<t, generation[t] + 1>>
<1>1. /\ open' = open \cup {new}
      /\ lapsed' = lapsed
      /\ Cardinality(Active) < MaxActiveRuns
  BY DEF ClaimTask, NextGeneration, HasCapacity
<1>2. IsFiniteSet(open) /\ IsFiniteSet(open')
  BY <1>1, FS_AddElement DEF CapInv
<1>3. IsFiniteSet(Active) /\ Active' \subseteq Active \cup {new}
  BY <1>1, <1>2, FS_Subset DEF Active
<1>4. /\ IsFiniteSet(Active \cup {new})
      /\ Cardinality(Active \cup {new}) <= Cardinality(Active) + 1
      /\ Cardinality(Active) \in Nat
  <2>1. Cardinality(Active) \in Nat
    BY <1>3, FS_CardinalityType
  <2>2. /\ IsFiniteSet(Active \cup {new})
        /\ Cardinality(Active \cup {new}) =
             IF new \in Active THEN Cardinality(Active) ELSE Cardinality(Active) + 1
    BY <1>3, FS_AddElement
  <2> QED
    BY <2>1, <2>2
<1>5. Cardinality(Active') <= Cardinality(Active \cup {new})
  BY <1>3, <1>4, FS_Subset
<1>6. /\ Cardinality(Active') \in Nat
      /\ Cardinality(Active \cup {new}) \in Nat
      /\ MaxActiveRuns \in Nat
  BY <1>3, <1>4, FS_Subset, FS_CardinalityType, CoordinatorAssumption
<1>7. Cardinality(Active') <= MaxActiveRuns
  BY <1>1, <1>4, <1>5, <1>6
<1> QED
  BY <1>2, <1>7 DEF ActiveWithinCap, Active

LEMMA ShrinkingKeepsCap ==
    ASSUME calm, CapInv, open' \subseteq open, Active' \subseteq Active
    PROVE  IsFiniteSet(open') /\ ActiveWithinCap'
<1>1. IsFiniteSet(open) /\ IsFiniteSet(open')
  BY FS_Subset DEF CapInv
<1>2. IsFiniteSet(Active)
  BY <1>1, FS_Subset DEF Active
<1>3. Cardinality(Active') <= Cardinality(Active) /\ IsFiniteSet(Active')
  BY <1>2, FS_Subset
<1>4. Cardinality(Active) \in Nat /\ Cardinality(Active') \in Nat /\ MaxActiveRuns \in Nat
  BY <1>2, <1>3, FS_CardinalityType, CoordinatorAssumption
<1>5. Cardinality(Active') <= MaxActiveRuns
  BY <1>3, <1>4 DEF CapInv, ActiveWithinCap
<1> QED
  BY <1>1, <1>5 DEF ActiveWithinCap, Active

LEMMA StepKeepsCap ==
    ASSUME calm, CapInv, [Next]_vars
    PROVE  CapInv'
<1> DEFINE Goal == IsFiniteSet(open') /\ ActiveWithinCap'
<1>1. IInv' /\ TypeOK
  BY StepPreservesIInv DEF CapInv, IInv
<1>2. ASSUME NEW w \in Workers, NEW t \in Tasks, ClaimTask(w, t)
      PROVE  Goal
  BY <1>2, ClaimKeepsCap
<1>3. ASSUME NEW w \in Workers, ReleaseLease(w) \/ ReleaseRecovered(w)
      PROVE  Goal
  BY <1>3, ShrinkingKeepsCap DEF ReleaseLease, ReleaseRecovered, Active
<1>4. ASSUME NEW w \in Workers, Heartbeat(w)
      PROVE  Goal
  <2>1. UNCHANGED <<open, lapsed>>
    BY <1>4 DEF Heartbeat
  <2> QED
    BY <2>1, ShrinkingKeepsCap DEF Active
<1>5. ASSUME NEW l \in Active, Lapse(l)
      PROVE  Goal
  BY <1>5, ShrinkingKeepsCap DEF Lapse, Active
<1>6. ASSUME UNCHANGED leases
      PROVE  Goal
  BY <1>6, ShrinkingKeepsCap DEF Active, leases
<1>7. ASSUME NEW w \in Workers, Work(w) \/ ReleaseFails(w) \/ Crash(w)
      PROVE  Goal
  BY <1>2, <1>3, <1>6, <1>7
  DEF Work, ListExpired, ReadLeased, Recover, ClaimNothing, Finalize, Publish, Fenced,
      ReleaseFails, Crash
<1>8. ASSUME NEW t \in Tasks, ClientStep(t)
      PROVE  Goal
  BY <1>6, <1>8, WhatClientsWrite DEF leases
<1> QED
  BY <1>1, <1>4, <1>5, <1>6, <1>7, <1>8 DEF Next, ClientStep, vars, CapInv

(* If every heartbeat arrives before its lease expires, the active leases  *)
(* never exceed the capacity passed to claim.                              *)
THEOREM CapacityIsRespected == Spec => []ActiveWithinCap
<1> DEFINE Inv == calm => CapInv
<1>1. Init => Inv
  <2> SUFFICES ASSUME Init PROVE CapInv
    OBVIOUS
  <2>1. open = {} /\ Active = {}
    BY DEF Init, Active
  <2>2. IsFiniteSet(open) /\ ActiveWithinCap
    BY <2>1, FS_EmptySet, CoordinatorAssumption DEF ActiveWithinCap
  <2> QED
    BY <2>2, InitEstablishesIInv DEF CapInv
<1>2. Inv /\ [Next]_vars => Inv'
  BY StepKeepsCap, CalmStays
<1>3. Inv => ActiveWithinCap
  BY DEF CapInv, ActiveWithinCap
<1> QED
  BY <1>1, <1>2, <1>3, PTL DEF Spec
-----------------------------------------------------------------------------
(* How often a task is claimed.  A sweep that means to requeue a task read *)
(* its attempts while one was left, and every claim needs the task in the  *)
(* queue: claims made, requeues on the way and the place in the queue      *)
(* together stay within the bound.  They exceed it by one where every      *)
(* worker is such a sweep; then nobody can claim before one of them is     *)
(* done.                                                                   *)
Requeues(t) ==
    {w \in Workers : pc[w] = "recover" /\ TaskOf(held[w]) = t /\ plan[w] = "queued"}

InQueue(t) == IF status[t] = "queued" THEN 1 ELSE 0

Counted(t) ==
    \/ attempts[t] + Cardinality(Requeues(t)) + InQueue(t)
          <= MaxAttempts + Cardinality(Workers) - 1 + retries[t]
    \/ attempts[t] < MaxAttempts /\ Requeues(t) = Workers

ClaimsLeft == \A t \in Tasks : Counted(t)

AttemptsAreClaims == \A t \in Tasks : attempts[t] = generation[t]

LEMMA SetsOfWorkers ==
    ASSUME NEW S \in SUBSET Workers
    PROVE  /\ IsFiniteSet(S) /\ Cardinality(S) \in Nat
           /\ Cardinality(Workers) \in Nat \ {0}
           /\ Cardinality(S) <= Cardinality(Workers)
           /\ S # Workers => Cardinality(S) <= Cardinality(Workers) - 1
<1>1. IsFiniteSet(Workers) /\ Workers # {}
  BY CoordinatorAssumption
<1>2. IsFiniteSet(S) /\ Cardinality(S) <= Cardinality(Workers)
  BY <1>1, FS_Subset
<1>3. Cardinality(S) \in Nat /\ Cardinality(Workers) \in Nat
  BY <1>1, <1>2, FS_CardinalityType
<1>4. Cardinality(Workers) # 0
  BY <1>1, FS_EmptySet
<1>5. S # Workers => Cardinality(S) # Cardinality(Workers)
  BY <1>1, FS_Subset
<1> QED
  BY <1>2, <1>3, <1>4, <1>5

(* What keeps the count: nothing is added, or a claim turns the place in   *)
(* the queue into an attempt, or a sweep turns its decision into a place   *)
(* in the queue, or a sweep decides while an attempt is left, or a client's*)
(* retry makes the place in the queue and is counted.                      *)
LEMMA CountIsKept ==
    ASSUME TypeOK, TypeOK', NEW t \in Tasks, Counted(t), retries'[t] >= retries[t],
           \/ /\ attempts'[t] = attempts[t] /\ InQueue(t)' <= InQueue(t)
              /\ Requeues(t)' \subseteq Requeues(t)
           \/ /\ attempts'[t] = attempts[t] + 1 /\ InQueue(t) = 1 /\ InQueue(t)' = 0
              /\ Requeues(t)' \subseteq Requeues(t) /\ Requeues(t) # Workers
           \/ /\ attempts'[t] = attempts[t]
              /\ \E w \in Requeues(t) : Requeues(t)' \subseteq Requeues(t) \ {w}
           \/ attempts'[t] = attempts[t] /\ attempts[t] < MaxAttempts
           \/ /\ attempts'[t] = attempts[t] /\ retries'[t] = retries[t] + 1
              /\ Requeues(t)' \subseteq Requeues(t)
    PROVE  Counted(t)'
<1>1. Requeues(t) \subseteq Workers /\ Requeues(t)' \subseteq Workers
  BY DEF Requeues
<1>2. PICK W, R, R1, Q, Q1, A, A1, B, B1 :
         /\ W = Cardinality(Workers) /\ R = Cardinality(Requeues(t))
         /\ R1 = Cardinality(Requeues(t)') /\ Q = InQueue(t) /\ Q1 = InQueue(t)'
         /\ A = attempts[t] /\ A1 = attempts'[t] /\ B = retries[t] /\ B1 = retries'[t]
  OBVIOUS
<1>3. /\ {W, R, R1, A, A1, B, B1} \subseteq Nat /\ W # 0 /\ Q \in 0..1 /\ Q1 \in 0..1
      /\ R <= W /\ R1 <= W /\ MaxAttempts \in Nat \ {0} /\ B <= B1
      /\ Requeues(t) # Workers => R <= W - 1
      /\ Requeues(t)' # Workers => R1 <= W - 1
  <2>1. /\ R \in Nat /\ W \in Nat \ {0} /\ R <= W
        /\ Requeues(t) # Workers => R <= W - 1
    BY <1>1, <1>2, SetsOfWorkers
  <2>2. R1 \in Nat /\ R1 <= W /\ (Requeues(t)' # Workers => R1 <= W - 1)
    BY <1>1, <1>2, SetsOfWorkers
  <2>3. A \in Nat /\ A1 \in Nat /\ B \in Nat /\ B1 \in Nat /\ B <= B1
    BY <1>2 DEF TypeOK
  <2>4. Q \in 0..1 /\ Q1 \in 0..1
    BY <1>2 DEF InQueue
  <2> QED
    BY <2>1, <2>2, <2>3, <2>4, CoordinatorAssumption
<1>4. \/ A + R + Q <= MaxAttempts + W - 1 + B
      \/ A < MaxAttempts /\ Requeues(t) = Workers
  BY <1>2 DEF Counted
<1>5. SUFFICES \/ A1 + R1 + Q1 <= MaxAttempts + W - 1 + B1
               \/ A1 < MaxAttempts /\ Requeues(t)' = Workers
  BY <1>2 DEF Counted
<1>6. Requeues(t)' \subseteq Requeues(t) => R1 <= R
  BY <1>1, <1>2, SetsOfWorkers, FS_Subset
<1>7. ASSUME A1 = A, A < MaxAttempts
      PROVE  \/ A1 + R1 + Q1 <= MaxAttempts + W - 1 + B1
             \/ A1 < MaxAttempts /\ Requeues(t)' = Workers
  BY <1>3, <1>7
<1>8. ASSUME A1 = A, Q1 <= Q \/ B1 = B + 1, Requeues(t)' \subseteq Requeues(t), A >= MaxAttempts
      PROVE  A1 + R1 + Q1 <= MaxAttempts + W - 1 + B1
  BY <1>3, <1>4, <1>6, <1>8
<1>9. ASSUME A1 = A + 1, Q = 1, Q1 = 0, Requeues(t)' \subseteq Requeues(t),
             Requeues(t) # Workers
      PROVE  A1 + R1 + Q1 <= MaxAttempts + W - 1 + B1
  BY <1>3, <1>4, <1>6, <1>9
<1>10. ASSUME A1 = A, A >= MaxAttempts,
              NEW w \in Requeues(t), Requeues(t)' \subseteq Requeues(t) \ {w}
       PROVE  A1 + R1 + Q1 <= MaxAttempts + W - 1 + B1
  <2>1. IsFiniteSet(Requeues(t)) /\ IsFiniteSet(Requeues(t) \ {w})
    BY <1>1, SetsOfWorkers, FS_Subset
  <2>2. Cardinality(Requeues(t) \ {w}) = R - 1
    BY <1>2, <2>1, FS_RemoveElement
  <2>3. R1 <= R - 1
    BY <1>2, <1>10, <2>1, <2>2, FS_Subset
  <2> QED
    BY <1>3, <1>4, <1>10, <2>3
<1>11. A < MaxAttempts \/ A >= MaxAttempts
  BY <1>3
<1> QED
  BY <1>2, <1>7, <1>8, <1>9, <1>10, <1>11

RetriesBounded == \A t \in Tasks : retries[t] <= MaxRetries

LEMMA RetriesGrow ==
    ASSUME TypeOK, [Next]_vars
    PROVE  /\ \A t \in Tasks : retries'[t] \in Nat /\ retries'[t] >= retries[t]
           /\ RetriesBounded => RetriesBounded'
<1>1. retries \in [Tasks -> Nat] /\ MaxRetries \in Nat
  BY CoordinatorAssumption DEF TypeOK
<1>2. ASSUME NEW t \in Tasks, ClientStep(t)
      PROVE  retries' = retries \/ /\ retries[t] < MaxRetries
                                   /\ retries' = [retries EXCEPT ![t] = retries[t] + 1]
  BY <1>2, WhatClientsWrite
<1>3. \/ retries' = retries
      \/ \E t \in Tasks : /\ retries[t] < MaxRetries
                          /\ retries' = [retries EXCEPT ![t] = retries[t] + 1]
  BY <1>2 DEF Next, Work, ListExpired, ReadLeased, Recover, ReleaseRecovered, ClaimTask,
     ClaimNothing, Finalize, Publish, Fenced, ReleaseLease, Heartbeat, ReleaseFails,
     Crash, Lapse, ClientStep, vars, requests
<1> QED
  BY <1>1, <1>3 DEF RetriesBounded

LEMMA StepKeepsCount ==
    ASSUME IInv, IInv', Next, NEW t \in Tasks, Counted(t)
    PROVE  Counted(t)'
<1> DEFINE Quiet == /\ attempts'[t] = attempts[t] /\ InQueue(t)' <= InQueue(t)
                    /\ Requeues(t)' \subseteq Requeues(t)
<1>1. TypeOK /\ TypeOK' /\ retries'[t] >= retries[t]
  BY RetriesGrow DEF IInv
<1>2. ASSUME Quiet PROVE Counted(t)'
  BY <1>1, <1>2, CountIsKept
<1>3. ASSUME NEW w \in Workers, NEW u \in Tasks, ClaimTask(w, u) PROVE Counted(t)'
  <2>1. /\ pc[w] = "sweep" /\ pc' = [pc EXCEPT ![w] = "executing"]
        /\ held' = [held EXCEPT ![w] = held'[w]] /\ plan' = plan
        /\ attempts' = [attempts EXCEPT ![u] = attempts[u] + 1]
        /\ status' = [status EXCEPT ![u] = "running"] /\ status[u] = "queued"
    BY <1>1, <1>3 DEF ClaimTask, Claimable, TypeOK
  <2>2. Requeues(t)' \subseteq Requeues(t) /\ w \notin Requeues(t)
    BY <1>1, <2>1 DEF Requeues, TypeOK
  <2>3. CASE u = t
    <3>1. attempts'[t] = attempts[t] + 1 /\ InQueue(t) = 1 /\ InQueue(t)' = 0
      BY <1>1, <2>1, <2>3 DEF InQueue, TypeOK
    <3> QED
      BY <1>1, <2>2, <3>1, CountIsKept
  <2>4. CASE u # t
    <3>1. attempts'[t] = attempts[t] /\ InQueue(t)' <= InQueue(t)
      BY <1>1, <2>1, <2>4 DEF InQueue, TypeOK
    <3> QED
      BY <1>2, <2>2, <3>1
  <2> QED
    BY <2>3, <2>4
<1>4. ASSUME NEW w \in Workers, NEW l \in todo[w], ReadLeased(w, l) PROVE Counted(t)'
  <2>1. /\ pc[w] = "sweep" /\ pc' = [pc EXCEPT ![w] = "recover"]
        /\ held' = [held EXCEPT ![w] = l] /\ plan' = [plan EXCEPT ![w] = plan'[w]]
        /\ attempts' = attempts /\ status' = status
        /\ plan'[w] = "queued" => ~Exhausted(TaskOf(l))
    BY <1>1, <1>4 DEF ReadLeased, TypeOK, rows
  <2>2. InQueue(t)' <= InQueue(t)
    BY <2>1 DEF InQueue
  <2>3. CASE TaskOf(l) = t /\ plan'[w] = "queued"
    <3>1. attempts[t] < MaxAttempts
      BY <1>1, <2>1, <2>3, CoordinatorAssumption DEF Exhausted, TypeOK
    <3> QED
      BY <1>1, <2>1, <3>1, CountIsKept
  <2>4. CASE TaskOf(l) # t \/ plan'[w] # "queued"
    <3>1. Requeues(t)' \subseteq Requeues(t)
      BY <1>1, <2>1, <2>4 DEF Requeues, TypeOK
    <3> QED
      BY <1>2, <2>1, <2>2, <3>1
  <2> QED
    BY <2>3, <2>4
<1>5. ASSUME NEW w \in Workers, Recover(w) PROVE Counted(t)'
  <2>1. /\ pc[w] = "recover" /\ pc' = [pc EXCEPT ![w] = "recovered"]
        /\ held' = held /\ plan' = plan /\ attempts' = attempts
        /\ \/ status' = [status EXCEPT ![TaskOf(held[w])] = plan[w]]
           \/ status' = status
    BY <1>5 DEF Recover
  <2>2. Requeues(t)' \subseteq Requeues(t) \ {w}
    BY <1>1, <2>1 DEF Requeues, TypeOK
  <2>3. CASE w \in Requeues(t)
    BY <1>1, <2>1, <2>2, <2>3, CountIsKept
  <2>4. CASE w \notin Requeues(t)
    <3>1. InQueue(t)' <= InQueue(t)
      BY <1>1, <2>1, <2>4 DEF Requeues, InQueue, TypeOK
    <3> QED
      BY <1>2, <2>1, <2>2, <3>1
  <2> QED
    BY <2>3, <2>4
<1>6. ASSUME attempts' = attempts, status'[t] = "queued" => status[t] = "queued",
             \A w \in Workers : pc'[w] = "recover" =>
                pc[w] = "recover" /\ held'[w] = held[w] /\ plan'[w] = plan[w]
      PROVE  Counted(t)'
  <2>1. Requeues(t)' \subseteq Requeues(t)
    BY <1>6 DEF Requeues
  <2>2. InQueue(t)' <= InQueue(t)
    BY <1>6 DEF InQueue
  <2> QED
    BY <1>2, <1>6, <2>1, <2>2
<1>7. ASSUME NEW w \in Workers, Finalize(w) \/ ReleaseFails(w) PROVE Counted(t)'
  <2>1. ASSUME NEW outcome \in {"succeeded", "failed"}, Publish(w, outcome) PROVE Counted(t)'
    BY <1>1, <1>6, <2>1 DEF Publish, TypeOK
  <2>2. CASE Fenced(w)
    BY <1>1, <1>6, <2>2 DEF Fenced, TypeOK, rows
  <2>3. CASE pc' = [pc EXCEPT ![w] = "idle"] /\ UNCHANGED rows /\ UNCHANGED plan
             /\ held' = [held EXCEPT ![w] = NoLease]
    BY <1>1, <1>6, <2>3 DEF TypeOK, rows
  <2> QED
    BY <1>7, <2>1, <2>2, <2>3 DEF Finalize, ReleaseFails
<1>8. ASSUME NEW w \in Workers,
             \/ ListExpired(w) \/ ClaimNothing(w) \/ ReleaseLease(w)
             \/ ReleaseRecovered(w) \/ Crash(w)
      PROVE  Counted(t)'
  BY <1>1, <1>6, <1>8
  DEF ListExpired, ClaimNothing, ReleaseLease, ReleaseRecovered, Crash, rows, TypeOK
<1>9. CASE UNCHANGED <<rows, locals>>
  BY <1>6, <1>9 DEF rows, locals
<1>10. ASSUME NEW u \in Tasks, ClientStep(u) PROVE Counted(t)'
  <2>1. /\ UNCHANGED <<attempts, pc, held, plan>>
        /\ \/ status'[t] = "queued" => status[t] = "queued"
           \/ retries'[t] = retries[t] + 1
    BY <1>1, <1>10, WhatClientsWrite DEF TypeOK
  <2>2. Requeues(t)' \subseteq Requeues(t)
    BY <2>1 DEF Requeues
  <2>3. CASE status'[t] = "queued" => status[t] = "queued"
    BY <1>6, <2>1, <2>3
  <2>4. CASE retries'[t] = retries[t] + 1
    BY <1>1, <2>1, <2>2, <2>4, CountIsKept
  <2> QED
    BY <2>1, <2>3, <2>4
<1> QED
  BY <1>3, <1>4, <1>5, <1>7, <1>8, <1>9, <1>10 DEF Next, Work, ClientStep, Heartbeat, Lapse

LEMMA StepKeepsAttempts == IInv /\ AttemptsAreClaims /\ [Next]_vars => AttemptsAreClaims'
<1> SUFFICES ASSUME IInv, AttemptsAreClaims, [Next]_vars PROVE AttemptsAreClaims'
  OBVIOUS
<1>1. ASSUME NEW w \in Workers, NEW t \in Tasks, ClaimTask(w, t) PROVE AttemptsAreClaims'
  BY <1>1 DEF AttemptsAreClaims, ClaimTask, NextGeneration, IInv, TypeOK
<1>2. CASE UNCHANGED <<attempts, generation>>
  BY <1>2 DEF AttemptsAreClaims
<1>3. ASSUME NEW t \in Tasks, ClientStep(t) PROVE AttemptsAreClaims'
  BY <1>2, <1>3, WhatClientsWrite
<1> QED
  BY <1>1, <1>2, <1>3 DEF Next, Work, ListExpired, ReadLeased, Recover, ReleaseRecovered,
     ClaimNothing, Finalize, Publish, Fenced, ReleaseLease, Heartbeat, ReleaseFails, Crash,
     Lapse, ClientStep, vars, rows

CountInv == ClaimsLeft /\ AttemptsAreClaims /\ RetriesBounded

THEOREM ClaimsAreCounted == Spec => [](IInv /\ CountInv)
<1>1. Init => CountInv
  <2> SUFFICES ASSUME Init, NEW t \in Tasks
               PROVE  Counted(t) /\ attempts[t] = generation[t] /\ retries[t] <= MaxRetries
    BY DEF CountInv, ClaimsLeft, AttemptsAreClaims, RetriesBounded
  <2>1. Requeues(t) = {} /\ InQueue(t) \in 0..1 /\ attempts[t] = 0 /\ generation[t] = 0
    BY DEF Init, Requeues, InQueue
  <2>2. Cardinality(Requeues(t)) = 0 /\ Cardinality(Workers) \in Nat \ {0}
    BY <2>1, FS_EmptySet, SetsOfWorkers
  <2>3. retries[t] \in Nat /\ retries[t] <= MaxRetries
    BY CoordinatorAssumption DEF Init
  <2>4. \A W, Q, B : W \in Nat \ {0} /\ Q \in 0..1 /\ B \in Nat =>
           0 + 0 + Q <= MaxAttempts + W - 1 + B
    BY CoordinatorAssumption
  <2> QED
    BY <2>1, <2>2, <2>3, <2>4 DEF Counted
<1>2. IInv /\ CountInv /\ [Next]_vars => CountInv'
  <2> SUFFICES ASSUME IInv, CountInv, [Next]_vars PROVE ClaimsLeft'
    BY StepKeepsAttempts, RetriesGrow DEF CountInv, IInv
  <2>1. CASE UNCHANGED vars
    BY <2>1 DEF CountInv, ClaimsLeft, Counted, Requeues, InQueue, vars, rows, locals, requests
  <2>2. CASE Next
    BY <2>2, StepKeepsCount, StepPreservesIInv DEF CountInv, ClaimsLeft
  <2> QED
    BY <2>1, <2>2
<1> QED
  BY <1>1, <1>2, Invariance, PTL DEF Spec

(* However sweeps and claims interleave, a task is claimed at most         *)
(* max_attempts times, once more for every retry a client asked for and    *)
(* once more for every further worker.                                     *)
THEOREM ClaimsStayBounded == Spec => []ClaimsBounded
<1>1. IInv /\ CountInv => ClaimsBounded
  <2> SUFFICES ASSUME IInv, CountInv, NEW t \in Tasks
               PROVE  attempts[t] <= MaxAttempts + Cardinality(Workers) - 1 + retries[t]
    BY DEF ClaimsBounded
  <2>1. PICK W, R, Q, A, B : /\ W = Cardinality(Workers) /\ R = Cardinality(Requeues(t))
                             /\ Q = InQueue(t) /\ A = attempts[t] /\ B = retries[t]
    OBVIOUS
  <2>2. /\ R \in Nat /\ W \in Nat \ {0}
    BY <2>1, SetsOfWorkers DEF Requeues
  <2>3. A \in Nat /\ B \in Nat /\ Q \in 0..1 /\ MaxAttempts \in Nat
    BY <2>1, CoordinatorAssumption DEF IInv, TypeOK, InQueue
  <2>4. A + R + Q <= MaxAttempts + W - 1 + B \/ A < MaxAttempts
    BY <2>1 DEF CountInv, ClaimsLeft, Counted
  <2>5. A <= MaxAttempts + W - 1 + B
    BY <2>2, <2>3, <2>4
  <2> QED
    BY <2>1, <2>5
<1> QED
  BY <1>1, ClaimsAreCounted, PTL

(* MaxGeneration, which only the model has, keeps nobody from claiming     *)
(* once it is at least that number.                                        *)
QueuedIsClaimable == \A t \in Tasks : status[t] = "queued" => Claimable(t)

THEOREM GenerationsSuffice ==
    ASSUME MaxGeneration >= MaxAttempts + Cardinality(Workers) - 1 + MaxRetries
    PROVE  Spec => []QueuedIsClaimable
<1>1. IInv /\ CountInv => QueuedIsClaimable
  <2> SUFFICES ASSUME IInv, CountInv, NEW t \in Tasks, status[t] = "queued"
               PROVE  generation[t] < MaxGeneration
    BY DEF QueuedIsClaimable, Claimable
  <2>1. PICK W, R, A, B : /\ W = Cardinality(Workers) /\ R = Cardinality(Requeues(t))
                          /\ A = attempts[t] /\ B = retries[t]
    OBVIOUS
  <2>2. /\ R \in Nat /\ W \in Nat \ {0}
    BY <2>1, SetsOfWorkers DEF Requeues
  <2>3. /\ A \in Nat /\ InQueue(t) = 1 /\ generation[t] = A /\ MaxAttempts \in Nat
        /\ MaxGeneration \in Nat /\ MaxRetries \in Nat /\ B \in Nat /\ B <= MaxRetries
    BY <2>1, CoordinatorAssumption
    DEF IInv, TypeOK, InQueue, CountInv, AttemptsAreClaims, RetriesBounded
  <2>4. A + R + 1 <= MaxAttempts + W - 1 + B \/ A < MaxAttempts
    BY <2>1, <2>3 DEF CountInv, ClaimsLeft, Counted
  <2>5. MaxGeneration >= MaxAttempts + W - 1 + MaxRetries
    BY <2>1
  <2>6. A < MaxGeneration
    BY <2>2, <2>3, <2>4, <2>5
  <2> QED
    BY <2>3, <2>6
<1> QED
  BY <1>1, ClaimsAreCounted, PTL

-----------------------------------------------------------------------------
(* Tasks and runs end together, except that a client who cancels a task    *)
(* leaves the run to itself.                                               *)
EndedTogether ==
    \A t \in Tasks : status[t] \in {"succeeded", "failed"} => runStatus[t] \in TerminalStatus

NoRunReopens ==
    \A t \in Tasks : runStatus[t] \in TerminalStatus => runStatus'[t] \in TerminalStatus

LEMMA StepEndsTogether ==
    IInv /\ EndedTogether /\ [Next]_vars => EndedTogether' /\ NoRunReopens
<1> SUFFICES ASSUME IInv, EndedTogether, [Next]_vars PROVE EndedTogether' /\ NoRunReopens
  OBVIOUS
<1> DEFINE Goal == EndedTogether' /\ NoRunReopens
<1>1. TypeOK /\ TypeOK'
  BY StepPreservesIInv DEF IInv
<1>2. ASSUME NEW w \in Workers, NEW t \in Tasks, ClaimTask(w, t) PROVE Goal
  BY <1>1, <1>2 DEF ClaimTask, EndedTogether, NoRunReopens, TerminalStatus, TypeOK
<1>3. ASSUME NEW w \in Workers, NEW outcome \in {"succeeded", "failed"}, Publish(w, outcome),
             CarriesLease(w)
      PROVE  Goal
  <2>1. TaskOf(held[w]) \in Tasks
    BY <1>3 DEF IInv, Issued, LeaseIds, TaskOf
  <2> QED
    BY <1>1, <1>3, <2>1 DEF Publish, RunAfter, EndedTogether, NoRunReopens, TerminalStatus, TypeOK
<1>4. ASSUME NEW w \in Workers, Recover(w) PROVE Goal
  <2>1. TaskOf(held[w]) \in Tasks /\ plan[w] \in {"queued", "failed", "cancelled"}
    BY <1>4 DEF IInv, Issued, Planned, Recover, CarriesLease, LeaseIds, TaskOf, TypeOK
  <2> QED
    BY <1>1, <1>4, <2>1
    DEF Recover, Recoverable, EndedTogether, NoRunReopens, TerminalStatus, Status, TypeOK
<1>5. ASSUME NEW t \in Tasks, ClientStep(t) PROVE Goal
  BY <1>1, <1>5, WhatClientsWrite DEF EndedTogether, NoRunReopens, TerminalStatus, TypeOK
<1>6. ASSUME UNCHANGED <<status, runStatus>> PROVE Goal
  BY <1>6 DEF EndedTogether, NoRunReopens
<1>7. ASSUME NEW w \in Workers, Finalize(w) \/ ReleaseFails(w) PROVE Goal
  <2>1. \A outcome : Publish(w, outcome) /\ outcome \in {"succeeded", "failed"}
            /\ pc[w] \in {"executing", "succeeded"} => Goal
    BY <1>3 DEF CarriesLease
  <2>2. Fenced(w) => Goal
    BY <1>6 DEF Fenced, rows
  <2> QED
    BY <1>6, <1>7, <2>1, <2>2 DEF Finalize, ReleaseFails, rows
<1> QED
  BY <1>2, <1>4, <1>5, <1>6, <1>7 DEF Next, Work, ClientStep, ListExpired, ReadLeased, ReleaseRecovered,
     ClaimNothing, ReleaseLease, Heartbeat, Crash, Lapse, vars, rows

THEOREM EndsAreShared == Spec => [](IInv /\ EndedTogether)
<1>1. Init => EndedTogether
  BY DEF Init, EndedTogether
<1>2. IInv /\ EndedTogether /\ [Next]_vars => EndedTogether'
  BY StepEndsTogether
<1> QED
  BY <1>1, <1>2, Invariance, PTL DEF Spec

(* A run that has ended is never shown as waiting or running again,        *)
(* although a late finalize or sweep may still exchange one end for        *)
(* another.                                                                *)
THEOREM EndedRunsStayEnded == Spec => [][NoRunReopens]_vars
<1>1. IInv /\ EndedTogether /\ [Next]_vars => NoRunReopens
  BY StepEndsTogether
<1> QED
  BY <1>1, EndsAreShared, PTL DEF Spec

(* What a claim or a sweep can still find: a task in the queue, or the     *)
(* lease of its latest claim.  Where nothing is left to find, every task   *)
(* has ended, and its run with it unless a client cancelled the task:      *)
(* nothing is at rest without being settled.                               *)
NothingIsLost ==
    \A t \in Tasks :
        \/ status[t] = "queued"
        \/ status[t] = "running" /\ CurrentLease(t) \in open
        \/ /\ status[t] \in TerminalStatus
           /\ runStatus[t] \in TerminalStatus \/ status[t] = "cancelled"

THEOREM RestIsSettled == Spec => []NothingIsLost
<1>1. IInv /\ EndedTogether => NothingIsLost
  BY DEF IInv, EndedTogether, NothingIsLost, RunningIsLeased, TypeOK, Status, TerminalStatus
<1> QED
  BY <1>1, EndsAreShared, PTL

-----------------------------------------------------------------------------
(* How many transactions of process_next a worker has before it at most:   *)
(* three for every lease of its snapshot, a claim, and what follows it.    *)
StepsLeft(w) ==
    CASE pc[w] = "idle" -> 0
      [] pc[w] = "failed" -> 1
      [] pc[w] = "succeeded" -> 2
      [] pc[w] = "executing" -> 3
      [] pc[w] = "sweep" -> 3 * Cardinality(todo[w]) + 4
      [] pc[w] = "recovered" -> 3 * Cardinality(todo[w]) + 5
      [] pc[w] = "recover" -> 3 * Cardinality(todo[w]) + 6

(* A pass begins with the leases that have lapsed by then; every step of   *)
(* the worker leaves it fewer, and nobody adds to them.                    *)
PassesComeToAnEnd ==
    \A w \in Workers :
        /\ StepsLeft(w) \in Nat
        /\ ListExpired(w) => StepsLeft(w)' = 3 * Cardinality(lapsed) + 4
        /\ ~ListExpired(w) => StepsLeft(w)' <= StepsLeft(w)
        /\ Work(w) \/ ReleaseFails(w) => ListExpired(w) \/ StepsLeft(w)' < StepsLeft(w)

SweepsAreFinite == IsFiniteSet(open) /\ \A w \in Workers : IsFiniteSet(todo[w])

LEMMA StepKeepsSweepsFinite ==
    IInv /\ SweepsAreFinite /\ [Next]_vars => SweepsAreFinite'
<1> SUFFICES ASSUME IInv, SweepsAreFinite, [Next]_vars PROVE SweepsAreFinite'
  OBVIOUS
<1>0. ASSUME NEW t \in Tasks, ClientStep(t) PROVE UNCHANGED <<open, todo>>
  BY <1>0, WhatClientsWrite
<1>1. IsFiniteSet(open')
  <2>1. (\E l : open' \subseteq open \cup {l}) \/ open' = open
    BY <1>0 DEF Next, Work, ListExpired, ReadLeased, Recover, ReleaseRecovered, ClaimTask,
           ClaimNothing, Finalize, Publish, Fenced, ReleaseLease, Heartbeat, ReleaseFails,
           Crash, Lapse, ClientStep, vars, leases
  <2> QED
    BY <2>1, FS_AddElement, FS_Subset DEF SweepsAreFinite
<1>2. ASSUME NEW w \in Workers PROVE IsFiniteSet(todo'[w])
  <2>1. todo'[w] \subseteq todo[w] \/ todo'[w] = lapsed
    <3>1. todo \in [Workers -> SUBSET LeaseIds]
      BY DEF IInv, TypeOK
    <3> QED
      BY <1>0, <3>1 DEF Next, Work, ListExpired, ReadLeased, Recover, ReleaseRecovered, ClaimTask,
           ClaimNothing, Finalize, Publish, Fenced, ReleaseLease, Heartbeat, ReleaseFails,
           Crash, Lapse, ClientStep, vars, locals
  <2>2. lapsed \subseteq open
    BY DEF IInv, TypeOK
  <2> QED
    BY <2>1, <2>2, FS_Subset DEF SweepsAreFinite
<1> QED
  BY <1>1, <1>2 DEF SweepsAreFinite
LEMMA LeasesLeft ==
    ASSUME SweepsAreFinite, TypeOK, NEW w \in Workers
    PROVE  /\ Cardinality(todo[w]) \in Nat
           /\ \A l \in todo[w] : /\ Cardinality(todo[w] \ {l}) \in Nat
                                 /\ Cardinality(todo[w] \ {l}) = Cardinality(todo[w]) - 1
<1>1. IsFiniteSet(todo[w])
  BY DEF SweepsAreFinite
<1>2. \A l \in todo[w] : IsFiniteSet(todo[w] \ {l})
                         /\ Cardinality(todo[w] \ {l}) = Cardinality(todo[w]) - 1
  BY <1>1, FS_RemoveElement
<1> QED
  BY <1>1, <1>2, FS_CardinalityType

(* The step a worker takes leaves it fewer.                                *)
LEMMA WorkIsCounted ==
    ASSUME TypeOK, SweepsAreFinite, NEW w \in Workers, Work(w) \/ ReleaseFails(w), ~ListExpired(w)
    PROVE  StepsLeft(w)' < StepsLeft(w)
<1>0. PICK n \in Nat : n = Cardinality(todo[w])
  BY LeasesLeft
<1> USE DEF StepsLeft
<1>1. ASSUME NEW l \in todo[w], ReadLeased(w, l) PROVE StepsLeft(w)' < StepsLeft(w)
  <2>1. /\ pc[w] = "sweep" /\ pc'[w] = "recover" /\ todo'[w] = todo[w] \ {l}
    BY <1>1 DEF ReadLeased, TypeOK
  <2>2. Cardinality(todo'[w]) = n - 1
    BY <1>0, <2>1, LeasesLeft
  <2>3. StepsLeft(w) = 3 * n + 4 /\ StepsLeft(w)' = 3 * (n - 1) + 6
    BY <1>0, <2>1, <2>2
  <2>4. 3 * (n - 1) + 6 < 3 * n + 4
    BY <1>0
  <2> HIDE DEF StepsLeft
  <2> QED
    BY <2>3, <2>4
<1>2. CASE Recover(w) \/ ReleaseRecovered(w) \/ ClaimNothing(w) \/ \E t \in Tasks : ClaimTask(w, t)
  <2>1. todo'[w] = todo[w]
    BY <1>2 DEF Recover, ReleaseRecovered, ClaimNothing, ClaimTask
  <2>2. \/ pc[w] = "recover" /\ pc'[w] = "recovered"
        \/ pc[w] = "recovered" /\ pc'[w] = "sweep"
        \/ pc[w] = "sweep" /\ pc'[w] \in {"idle", "executing"}
    BY <1>2 DEF Recover, ReleaseRecovered, ClaimNothing, ClaimTask, TypeOK
  <2> QED
    BY <1>0, <2>1, <2>2
<1>3. CASE Finalize(w) \/ ReleaseLease(w) \/ ReleaseFails(w)
  <2>1. \/ pc[w] = "executing" /\ pc'[w] \in {"succeeded", "failed", "idle"}
        \/ pc[w] = "succeeded" /\ pc'[w] \in {"failed", "idle"}
        \/ pc[w] = "failed" /\ pc'[w] = "idle"
    BY <1>3 DEF Finalize, Publish, Fenced, ReleaseLease, ReleaseFails, TypeOK
  <2> QED
    BY <2>1
<1> QED
  BY <1>1, <1>2, <1>3 DEF Work

(* The steps of others do not touch what a worker has before it.           *)
LEMMA OthersLeaveStepsAlone ==
    ASSUME TypeOK, Next, NEW w \in Workers, ~Work(w), ~ReleaseFails(w), ~Crash(w)
    PROVE  pc'[w] = pc[w] /\ todo'[w] = todo[w]
<1>1. ASSUME NEW v \in Workers \ {w}, Work(v) \/ ReleaseFails(v) \/ Crash(v)
      PROVE  pc'[w] = pc[w] /\ todo'[w] = todo[w]
  <2>1. /\ \E step : pc' = [pc EXCEPT ![v] = step]
        /\ todo' = todo \/ \E rest : todo' = [todo EXCEPT ![v] = rest]
    BY <1>1 DEF Work, ListExpired, ReadLeased, Recover, ReleaseRecovered, ClaimTask, ClaimNothing,
       Finalize, Publish, Fenced, ReleaseLease, ReleaseFails, Crash
  <2> QED
    BY <2>1 DEF TypeOK
<1>2. CASE UNCHANGED locals
  BY <1>2 DEF locals
<1>3. \/ \E v \in Workers : Work(v) \/ ReleaseFails(v) \/ Crash(v)
      \/ UNCHANGED locals
  <2>1. ASSUME NEW t \in Tasks, ClientStep(t) PROVE UNCHANGED locals
    BY <2>1, WhatClientsWrite DEF locals
  <2> QED
    BY <2>1 DEF Next, Heartbeat, Lapse, ClientStep
<1> QED
  BY <1>1, <1>2, <1>3

LEMMA PassesAreCounted == IInv /\ SweepsAreFinite /\ [Next]_vars => PassesComeToAnEnd
<1> SUFFICES ASSUME IInv, SweepsAreFinite, [Next]_vars, NEW w \in Workers
             PROVE  /\ StepsLeft(w) \in Nat
                    /\ ListExpired(w) => StepsLeft(w)' = 3 * Cardinality(lapsed) + 4
                    /\ ~ListExpired(w) => StepsLeft(w)' <= StepsLeft(w)
                    /\ Work(w) \/ ReleaseFails(w) =>
                          ListExpired(w) \/ StepsLeft(w)' < StepsLeft(w)
  BY DEF PassesComeToAnEnd
<1>1. TypeOK /\ TypeOK' /\ SweepsAreFinite'
  BY StepPreservesIInv, StepKeepsSweepsFinite DEF IInv
<1>2. StepsLeft(w) \in Nat
  BY <1>1, LeasesLeft DEF StepsLeft, TypeOK
<1>3. StepsLeft(w)' \in Nat
  <2>1. IsFiniteSet(todo'[w])
    BY <1>1 DEF SweepsAreFinite
  <2>2. Cardinality(todo'[w]) \in Nat
    BY <2>1, FS_CardinalityType
  <2> QED
    BY <1>1, <2>2 DEF StepsLeft, TypeOK
<1>4. ListExpired(w) => StepsLeft(w)' = 3 * Cardinality(lapsed) + 4
  BY <1>1 DEF ListExpired, StepsLeft, TypeOK
<1>5. (Work(w) \/ ReleaseFails(w)) /\ ~ListExpired(w) => StepsLeft(w)' < StepsLeft(w)
  BY <1>1, WorkIsCounted
<1>6. ~Work(w) /\ ~ReleaseFails(w) => StepsLeft(w)' <= StepsLeft(w)
  <2>1. CASE Crash(w)
    <3>1. StepsLeft(w)' = 0
      BY <1>1, <2>1 DEF Crash, StepsLeft, TypeOK
    <3> QED
      BY <1>2, <3>1
  <2>2. CASE UNCHANGED vars
    <3>1. StepsLeft(w)' = StepsLeft(w)
      BY <2>2 DEF vars, locals, StepsLeft
    <3> QED
      BY <1>2, <3>1
  <2>3. CASE Next /\ ~Work(w) /\ ~ReleaseFails(w) /\ ~Crash(w)
    <3>1. StepsLeft(w)' = StepsLeft(w)
      BY <1>1, <2>3, OthersLeaveStepsAlone DEF StepsLeft
    <3> QED
      BY <1>2, <3>1
  <2> QED
    BY <2>1, <2>2, <2>3
<1> QED
  BY <1>2, <1>3, <1>4, <1>5, <1>6

(* A pass of process_next through a sweep, a claim and an execution takes  *)
(* as many transactions as it found leases to recover, times three, and    *)
(* four more, whatever the other workers, the clock and the clients do.    *)
THEOREM EveryPassIsShort == Spec => [][PassesComeToAnEnd]_vars
<1>1. Init => SweepsAreFinite
  BY FS_EmptySet DEF Init, SweepsAreFinite
<1>2. IInv /\ SweepsAreFinite /\ [Next]_vars => SweepsAreFinite' /\ PassesComeToAnEnd
  BY StepKeepsSweepsFinite, PassesAreCounted
<1> QED
  BY <1>1, <1>2, Invariance, PTL DEF Spec
=============================================================================
