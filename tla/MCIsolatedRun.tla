--------------------------- MODULE MCIsolatedRun ---------------------------
(* Instances of IsolatedRun for TLC. *)
EXTENDS IsolatedRun
=============================================================================
