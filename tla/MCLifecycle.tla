------------------------------ MODULE MCLifecycle ------------------------------
(* Runs for the processes of Lifecycle: chains of steps. *)
EXTENDS Lifecycle

Chains(keys) == [k \in keys |-> {l \in keys : l[1] = k[1] /\ l[2] < k[2]}]

\* One run, a chain of two steps.
OneRun == {1}
OneKey == {<<1, 1>>, <<1, 2>>}
OneChain == Chains(OneKey)
=============================================================================
