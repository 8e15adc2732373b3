---------------------------- MODULE MCWorkerPool ----------------------------
(* Instances of WorkerPool for TLC.  Slots and tasks are numbered, and the *)
(* code scans slots in order, so there is no symmetry.                     *)
EXTENDS WorkerPool
=============================================================================
