--------------------------- MODULE MCWorkerLaunch ---------------------------
(* Instances of WorkerLaunch for TLC: three submissions, a cap of one or   *)
(* two, and more drain tasks than the submissions can start.               *)
EXTENDS WorkerLaunch, TLC
=============================================================================
