--------------------------- MODULE MCCollectJobs ---------------------------
(* Instances of CollectJobs for TLC. *)
EXTENDS CollectJobs

CONSTANTS w1, w2, command

TwoWorkers == {w1, w2}
OneWorker == {w1}
OneCommand == {command}
NoCommand == {}
=============================================================================
