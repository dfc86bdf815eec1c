---------------------------- MODULE MCTaskQueue ----------------------------
(* Instances of TaskQueue for TLC.                                         *)
EXTENDS TaskQueue

CONSTANTS t1, w1, w2, c1, c2

OneTask == {t1}
OneWorker == {w1}
TwoWorkers == {w1, w2}
NoClient == {}
TwoClients == {c1, c2}
=============================================================================
