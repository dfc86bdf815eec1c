--------------------------- MODULE MCRunAdmission ---------------------------
(* Instances of RunAdmission for TLC.                                      *)
EXTENDS RunAdmission

CONSTANTS c1, c2, c3, k1, b1, b2

TwoCallers == {c1, c2}
ThreeCallers == {c1, c2, c3}
OneKey == {k1}
OneBody == {b1}
TwoBodies == {b1, b2}
Legacy == {"legacy"}
BothPaths == {"gateway", "legacy"}
=============================================================================
