---------------------------- MODULE MCWorkerPool ----------------------------
(* Three producers against two slots and two workers: producers queue up   *)
(* on cv_push_, workers on cv_pop_, and the destructor runs at any point.  *)
EXTENDS WorkerPool
=============================================================================
