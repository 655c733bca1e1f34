----------------------------- MODULE Operations -----------------------------
(***************************************************************************)
(* What the engine and the tool agree on: operation keys and requests.     *)
(*                                                                         *)
(* An operation key is the string "{run_id}:{step_id}" the engine computes *)
(* once, when it materializes a run, and sends with every attempt of the   *)
(* step as the Idempotency-Key header.  It identifies the step, so Key is  *)
(* also the set of steps.  A payload stands for an operation name together *)
(* with the canonical request the tool hashes.                             *)
(***************************************************************************)

CONSTANTS
    Key,        \* operation keys, one per step of every run
    Payload     \* (operation, canonical request) pairs
=============================================================================
