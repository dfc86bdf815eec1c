---------------------------- MODULE MCIngestion ----------------------------
(* Instances of Ingestion for TLC.                                         *)
EXTENDS Ingestion

CONSTANTS i1, i2, i3

Three == {i1, i2, i3}
Two == {i1, i2}

(* The first file name selects a parser that cuts one chunk more.          *)
Uneven == [i \in Ingestions |-> IF i = i1 THEN 2 ELSE 1]
=============================================================================
