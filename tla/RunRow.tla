------------------------------- MODULE RunRow -------------------------------
(***************************************************************************)
(* The row of a research run, as the executions of its task share it with  *)
(* the clients of the API: the conditional UPDATEs of packages/tasks, the  *)
(* cancellation flag, and the row lock that writers of the run's timeline  *)
(* take.                                                                   *)
(*                                                                         *)
(* Executions overlap: a client may cancel and retry a task that is being  *)
(* executed, and a task whose worker died is claimed again.                *)
(*                                                                         *)
(* A definition that stands just before another with the same parameters   *)
(* and is used nowhere is a faulty variant of it; PROJECT.json names the   *)
(* property it breaks.                                                     *)
(***************************************************************************)
EXTENDS Naturals, FiniteSets

CONSTANTS
    Executions,     \* executions of the task: claims by some worker
    MaxFaults,      \* bound on failures of the database
    MaxCrashes      \* bound on workers that die

ASSUME RunRowAssumption ==
    /\ IsFiniteSet(Executions)
    /\ {MaxFaults, MaxCrashes} \subseteq Nat

VARIABLES
    dialect,    \* the database: it decides whether rows can be locked
    run,        \* runs.status
    asked,      \* runs.cancel_requested_at IS NOT NULL
    moved,      \* task_jobs.source_run_id names a run of the legacy workflow now
    fulfilled,  \* task_jobs.status = SUCCEEDED: nobody claims the task again
    pc,         \* where each execution is in process_next
    result,     \* how the handler ended: with a result, or an error of some kind
    budget,     \* the failures and deaths this behaviour may have
    faults,     \* failures of the database so far
    crashes     \* workers that died so far

rowVars == <<dialect, run, asked, moved, fulfilled>>
execVars == <<pc, result>>
accidents == <<budget, faults, crashes>>

Unfinished == {"queued", "running"}
RunStatus == Unfinished \cup {"succeeded", "failed", "cancelled"}

(* Executions that are dead from the start are claims that never come.     *)
InitRow ==
    /\ dialect \in {"postgresql", "sqlite"}
    /\ run = "queued"
    /\ asked = FALSE
    /\ moved = FALSE
    /\ fulfilled = FALSE
    /\ pc \in [Executions -> {"idle", "dead"}]
    /\ result = [e \in Executions |-> "none"]
    /\ budget \in [faults : 0..MaxFaults, crashes : 0..MaxCrashes]
    /\ faults = 0
    /\ crashes = 0

RowTypeOK ==
    /\ dialect \in {"postgresql", "sqlite"}
    /\ run \in RunStatus
    /\ {asked, moved, fulfilled} \subseteq BOOLEAN
    /\ pc \in [Executions -> {"idle", "claimed", "starting", "working", "closing",
                              "publishing", "announcing", "ended", "dead"}]
    /\ result \in [Executions -> {"none", "succeeded", "failed", "retry"}]
    /\ budget \in [faults : 0..MaxFaults, crashes : 0..MaxCrashes]
    /\ faults \in 0..budget.faults
    /\ crashes \in 0..budget.crashes

-----------------------------------------------------------------------------

Goes(e, stage) == pc' = [pc EXCEPT ![e] = stage]

(* The database fails one operation.                                       *)
Fault == faults < budget.faults /\ faults' = faults + 1 /\ UNCHANGED <<budget, crashes>>

(* _cas_update_run: UPDATE runs ... WHERE status IN (from).                *)
Cas(from, to) == run' = IF run \in from THEN to ELSE run

(* _cas_update_run on task_job.source_run_id, which the ORM reloads after  *)
(* a commit: once it names another run, whose status is final, no row      *)
(* matches.                                                                *)
CasOfTask(from, to) == IF moved THEN UNCHANGED run ELSE Cas(from, to)

(* The handler returns a result or raises; process_next goes on.           *)
Returns(e, how) ==
    /\ result' = [result EXCEPT ![e] = how]
    /\ Goes(e, "closing")
=============================================================================
