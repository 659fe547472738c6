------------------------------ MODULE MCRunner ------------------------------
(* The whole state space of one workload is checked, on every backend.     *)
EXTENDS Runner

=============================================================================
