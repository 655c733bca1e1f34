------------------------------ MODULE MCStartup ------------------------------
(* Databases and processes for Startup. *)
EXTENDS Startup

CONSTANTS api, w1, w2, r1, r2
=============================================================================
