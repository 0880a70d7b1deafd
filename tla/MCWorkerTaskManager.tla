------------------------- MODULE MCWorkerTaskManager -------------------------
(* WorkerTaskManager for TLC.                                              *)
EXTENDS WorkerTaskManager
==============================================================================
