------------------------- MODULE MCExecutorLifecycle -------------------------
(* Instances of ExecutorLifecycle for TLC: one start, named by a model     *)
(* value, and the copies of its executor.                                  *)
EXTENDS ExecutorLifecycleProofs

CONSTANTS s1
=============================================================================
