---------------------------- MODULE MCLifecycle ----------------------------
(* Two DeletePost handlers race with the start and the stop of the process. *)
EXTENDS Lifecycle
=============================================================================
