---------------------------- MODULE ResearchFlow ----------------------------
(***************************************************************************)
(* What the compiled research graph promises of one run, whatever crashes  *)
(* and is resumed: a draft is reported only once the gate or a reviewer    *)
(* has cleared it, a reviewed draft waits for its reviewer, and a report   *)
(* and a rejection are final.                                              *)
(***************************************************************************)

VARIABLE stage

vars == stage

Init == stage = "drafting"

(* The chief gate sends the draft on, to a reviewer, or back for evidence. *)
Gate == stage = "drafting" /\ stage' \in {"cleared", "review"}

Human == stage = "review" /\ stage' \in {"drafting", "cleared", "rejected"}

(* An approval is saved together with the report it leads to.              *)
Report == stage \in {"cleared", "review"} /\ stage' = "reported"

Next == Gate \/ Human \/ Report

Spec == Init /\ [][Next]_vars
=============================================================================
