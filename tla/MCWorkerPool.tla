---------------------------- MODULE MCWorkerPool ----------------------------
(* Two workers and two services, one of which may get a message that never      *)
(* returns.                                                                     *)
EXTENDS WorkerPool
=============================================================================
