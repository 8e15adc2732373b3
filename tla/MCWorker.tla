------------------------------ MODULE MCWorker ------------------------------
(* Instances of Worker for TLC. *)
EXTENDS Worker, TLC

(* Task identifiers are interchangeable: safety runs only. *)
TaskSymmetry == Permutations(Tasks)
=============================================================================
