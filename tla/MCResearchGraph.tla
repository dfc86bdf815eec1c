-------------------------- MODULE MCResearchGraph --------------------------
(* Instances of ResearchGraph for TLC.                                     *)
EXTENDS ResearchGraph

CONSTANTS i1, i2

OneInvocation == {i1}
TwoInvocations == {i1, i2}
=============================================================================
