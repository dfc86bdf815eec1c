------------------------------ MODULE Delivery ------------------------------
(***************************************************************************)
(* One delivery job of DeliveryService: its approval, and its dispatch by  *)
(* requests that may run at the same time (dispatch_job is called by the   *)
(* API and by the handler of delivery tasks).  Every commit is a step of   *)
(* its own.  A session reads a row once per transaction and writes back    *)
(* only columns whose value differs from the one it read.                  *)
(*                                                                         *)
(* The connector may accept or refuse each item, as DeliveryConnector      *)
(* allows (the connectors of the repository are stand-ins that answer      *)
(* alike for all items of a job).  Receipts, exported paths, policy        *)
(* warnings and the rows of run steps, which nothing reads, are left out;  *)
(* a request that is refused changes nothing.                              *)
(*                                                                         *)
(* A definition that stands just before another with the same parameters   *)
(* and is used nowhere is a faulty variant of it; PROJECT.json names the   *)
(* property it breaks.                                                     *)
(***************************************************************************)
EXTENDS Naturals, FiniteSets

CONSTANTS
    ItemCount,      \* items of the job, in the order of their ids
    Clients,        \* requests that can be under way at once
    MaxRequests,    \* bound on requests
    MaxCrashes      \* bound on requests that die

ASSUME DeliveryAssumption ==
    /\ {ItemCount, MaxRequests, MaxCrashes} \subseteq Nat
    /\ IsFiniteSet(Clients)

Items == 1..ItemCount

VARIABLES
    job,        \* status and review_status of the job
    items,      \* status of each item
    run,        \* status of the Run of each client's dispatch
    pc,         \* where each client is
    next,       \* the item it is at
    known,      \* the status of the item, or of the job, that it has read
    result,     \* the status it is about to write there
    sent,       \* history: how often the connector has accepted each item
    repeats,    \* history: dispatches of a job that had failed in part
    overlap,    \* history: has a request begun during another?
    budget      \* what is left of the bounds

rows == <<job, items, run>>
locals == <<pc, next, known, result>>
history == <<sent, repeats, overlap>>
vars == <<rows, locals, history, budget>>

JobStatus == {"pending_review", "ready", "dispatching", "dispatched", "partial_failed", "failed"}
ItemStatus == {"pending", "dispatched", "failed"}

Init ==
    /\ job \in {[status |-> "pending_review", review |-> "pending"],
                [status |-> "ready", review |-> "not_required"]}
    /\ items = [i \in Items |-> "pending"]
    /\ run = [c \in Clients |-> "none"]
    /\ pc = [c \in Clients |-> "idle"]
    /\ next = [c \in Clients |-> 1]
    /\ known = [c \in Clients |-> "none"]
    /\ result = [c \in Clients |-> "none"]
    /\ sent = [i \in Items |-> 0]
    /\ repeats = 0
    /\ overlap = FALSE
    /\ budget = [requests |-> MaxRequests, crashes |-> MaxCrashes]

Go(c, step) == pc' = [pc EXCEPT ![c] = step]

Begin(c) ==
    /\ pc[c] = "idle"
    /\ budget.requests > 0
    /\ budget' = [budget EXCEPT !.requests = @ - 1]
    /\ overlap' = (overlap \/ \E d \in Clients : pc[d] # "idle")

-----------------------------------------------------------------------------
(* approve_job.                                                            *)

ApproveReads(c) ==
    /\ Begin(c)
    /\ job.review = "pending" /\ job.status = "pending_review"
    /\ Go(c, "approving")
    /\ UNCHANGED <<rows, next, known, result, sent, repeats>>

Approves(c) ==
    /\ pc[c] = "approving"
    /\ job' = [status |-> "ready", review |-> "approved"]
    /\ Go(c, "idle")
    /\ UNCHANGED <<items, run, next, known, result, history, budget>>

-----------------------------------------------------------------------------
(* dispatch_job.                                                           *)

RetriesFailures(j) == j.status \in {"ready", "partial_failed", "failed"}
                      /\ j.review \in {"not_required", "approved"}
Dispatchable(j) == /\ j.status \in {"ready", "partial_failed"}
                   /\ j.review \in {"not_required", "approved"}

DispatchReads(c) ==
    /\ Begin(c)
    /\ Dispatchable(job)
    /\ repeats' = IF job.status = "partial_failed" THEN repeats + 1 ELSE repeats
    /\ Go(c, "validated")
    /\ UNCHANGED <<rows, next, known, result, sent>>

Marks(c) ==
    /\ pc[c] = "validated"
    /\ job' = [job EXCEPT !.status = "dispatching"]
    /\ Go(c, "marked")
    /\ UNCHANGED <<items, run, next, known, result, history, budget>>

CreatesRun(c) ==
    /\ pc[c] = "marked"
    /\ run' = [run EXCEPT ![c] = "running"]
    /\ Go(c, "exporting")
    /\ UNCHANGED <<job, items, next, known, result, history, budget>>

(* The bundle is written, or the exception clause gives the job up with an *)
(* assignment that reads nothing.                                          *)
Exports(c) ==
    /\ pc[c] = "exporting"
    /\ \/ /\ Go(c, "items")
          /\ next' = [next EXCEPT ![c] = 1]
          /\ UNCHANGED <<known, result>>
       \/ /\ Go(c, "settling")
          /\ known' = [known EXCEPT ![c] = "none"]
          /\ result' = [result EXCEPT ![c] = "failed"]
          /\ UNCHANGED next
    /\ UNCHANGED <<rows, history, budget>>

(* Every item is sent, those that an earlier dispatch delivered included.  *)
Sends(c) ==
    /\ pc[c] = "items" /\ next[c] \in Items
    /\ known' = [known EXCEPT ![c] = items[next[c]]]
    /\ \/ /\ result' = [result EXCEPT ![c] = "dispatched"]
          /\ sent' = [sent EXCEPT ![next[c]] = @ + 1]
       \/ /\ result' = [result EXCEPT ![c] = "failed"]
          /\ UNCHANGED sent
    /\ Go(c, "sent")
    /\ UNCHANGED <<rows, next, repeats, overlap, budget>>

ForgetsRefusal(c) == items' = [items EXCEPT ![next[c]] = "dispatched"]
(* The flush of an item's status.                                          *)
Flushed(c) ==
    items' = IF result[c] = known[c] THEN items ELSE [items EXCEPT ![next[c]] = result[c]]

RecordsItem(c) ==
    /\ pc[c] = "sent"
    /\ Flushed(c)
    /\ next' = [next EXCEPT ![c] = @ + 1]
    /\ Go(c, "items")
    /\ UNCHANGED <<job, run, known, result, history, budget>>

(* derive_job_status_from_items.                                           *)
Derived(status) ==
    CASE Items = {} -> "failed"
      [] \A i \in Items : status[i] = "dispatched" -> "dispatched"
      [] \A i \in Items : status[i] = "failed" -> "failed"
      [] OTHER -> "partial_failed"

Derives(c) ==
    /\ pc[c] = "items" /\ next[c] \notin Items
    /\ known' = [known EXCEPT ![c] = job.status]
    /\ result' = [result EXCEPT ![c] = Derived(items)]
    /\ Go(c, "settling")
    /\ UNCHANGED <<rows, next, history, budget>>

Settles(c) ==
    /\ pc[c] = "settling"
    /\ job' = IF result[c] = known[c] THEN job ELSE [job EXCEPT !.status = result[c]]
    /\ Go(c, "finishing")
    /\ UNCHANGED <<items, run, next, known, result, history, budget>>

Leave(c) ==
    /\ Go(c, "idle")
    /\ next' = [next EXCEPT ![c] = 1]
    /\ known' = [known EXCEPT ![c] = "none"]
    /\ result' = [result EXCEPT ![c] = "none"]

FinishesRun(c) ==
    /\ pc[c] = "finishing"
    /\ run' = [run EXCEPT ![c] = IF result[c] = "failed" THEN "failed" ELSE "succeeded"]
    /\ Leave(c)
    /\ UNCHANGED <<job, items, history, budget>>

(* The process dies, or the database fails: the exception clause cannot    *)
(* commit on the failed session either.                                    *)
Crash(c) ==
    /\ pc[c] # "idle"
    /\ budget.crashes > 0
    /\ budget' = [budget EXCEPT !.crashes = @ - 1]
    /\ Leave(c)
    /\ UNCHANGED <<rows, history>>

-----------------------------------------------------------------------------
Proceed(c) ==
    \/ Approves(c)
    \/ Marks(c)
    \/ CreatesRun(c)
    \/ Exports(c)
    \/ Sends(c)
    \/ RecordsItem(c)
    \/ Derives(c)
    \/ Settles(c)
    \/ FinishesRun(c)

Next == \E c \in Clients : ApproveReads(c) \/ DispatchReads(c) \/ Proceed(c) \/ Crash(c)

(* A request that has begun is driven on.                                  *)
Spec == Init /\ [][Next]_vars /\ \A c \in Clients : WF_vars(Proceed(c))

-----------------------------------------------------------------------------
(* Properties.                                                             *)

(* Rows, local values and counters hold what the code can put there.       *)
TypeOK ==
    /\ job \in [status : JobStatus, review : {"pending", "not_required", "approved"}]
    /\ items \in [Items -> ItemStatus]
    /\ run \in [Clients -> {"none", "running", "succeeded", "failed"}]
    /\ pc \in [Clients -> {"idle", "approving", "validated", "marked", "exporting", "items",
                           "sent", "settling", "finishing"}]
    /\ next \in [Clients -> 1..(ItemCount + 1)]
    /\ known \in [Clients -> JobStatus \cup ItemStatus \cup {"none"}]
    /\ result \in [Clients -> {"none", "dispatched", "partial_failed", "failed"}]
    /\ sent \in [Items -> Nat]
    /\ repeats \in Nat
    /\ overlap \in BOOLEAN
    /\ budget \in [requests : Nat, crashes : Nat]

Crashed == budget.crashes < MaxCrashes

(* An item is called dispatched only when the connector has accepted it,   *)
(* and nothing is sent before the review, whatever overlaps and crashes.   *)
(* While requests keep apart, a job that came to an end tells its items'   *)
(* outcome (a failed one may have failed before they were sent), and an    *)
(* item is delivered twice only by a repeated dispatch.                    *)
JobTellsItems ==
    /\ \A i \in Items : items[i] = "dispatched" => sent[i] > 0
    /\ \A i \in Items : sent[i] > 0 => job.review # "pending"
    /\ ~overlap =>
        /\ job.status \in {"dispatched", "partial_failed"} => job.status = Derived(items)
        /\ \A i \in Items : sent[i] <= repeats + 1

(* While requests keep apart the job follows the promised flow; and as     *)
(* long as none dies no job is left dispatching.                           *)
DF == INSTANCE DeliveryFlow WITH status <- job.status
FollowsDeliveryFlow ==
    /\ DF!Init /\ [][~overlap' => DF!Next]_DF!vars
    /\ job.status = "dispatching" ~> job.status # "dispatching" \/ Crashed
=============================================================================
