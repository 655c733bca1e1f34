----------------------------- MODULE RetryPolicy -----------------------------
(***************************************************************************)
(* How long a retryable failure waits (crashsafe/engine.py,                *)
(* _handle_retryable_failure).                                             *)
(***************************************************************************)
EXTENDS Naturals

\* min(base * 2 ** (attempts - 1), max), for attempts >= 1.
BackoffDelay(base, max, attempts) ==
    LET delay == base * 2 ^ (attempts - 1)
    IN  IF delay < max THEN delay ELSE max
=============================================================================
