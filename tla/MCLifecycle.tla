------------------------------ MODULE MCLifecycle ------------------------------
(* Model checking of WorkerLifecycle; the constants are in the .cfg files. *)
EXTENDS WorkerLifecycle
=============================================================================
