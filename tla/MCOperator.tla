------------------------------ MODULE MCOperator ------------------------------
(* The workloads of MCEngine, read, audited and rebuilt from outside. *)
EXTENDS MCEngine, Operator, Timeline
=============================================================================
