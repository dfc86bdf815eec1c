---------------------------- MODULE DeliveryFlow ----------------------------
(***************************************************************************)
(* What the delivery workflow promises of one job: nothing is dispatched   *)
(* before it is reviewed, only a job that failed in part is dispatched     *)
(* again, and success and failure are final.                               *)
(***************************************************************************)

VARIABLE status

vars == status

Init == status \in {"pending_review", "ready"}

Approve == status = "pending_review" /\ status' = "ready"

Dispatch == status \in {"ready", "partial_failed"} /\ status' = "dispatching"

End == status = "dispatching" /\ status' \in {"dispatched", "partial_failed", "failed"}

Next == Approve \/ Dispatch \/ End

Spec == Init /\ [][Next]_vars
=============================================================================
