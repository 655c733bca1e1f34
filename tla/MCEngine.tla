------------------------------ MODULE MCEngine ------------------------------
(* Workloads for TLC: which runs and steps there are, and their graphs. *)
EXTENDS Engine, History, RetryPolicy, TLC

CONSTANTS r1, r2, k1, k2, k3, t1, w1, w2, p1, BaseBackoff, MaxBackoff

\* A step's place follows the number in its name.
Place == [k \in {k1, k2, k3} |-> IF k = k1 THEN 0 ELSE IF k = k2 THEN 1 ELSE 2]

MCPosition == [k \in Key |-> Place[k]]
MCToolOf == [k \in Key |-> t1]
MCRequest == [k \in Key |-> p1]
MCBackoff ==
    [n \in 1 .. MaxAttempts |-> BackoffDelay(BaseBackoff, MaxBackoff, n)]

\* One run of a single step.
OneKey == {k1}
\* One run, k1 before k2.
Chain == {k1, k2}
\* One run, k1 before k2 and k3.
Fork == {k1, k2, k3}

OneRunOf == [k \in Key |-> r1]
AfterFirst == [k \in Key |-> IF k = k1 THEN {} ELSE {k1}]

\* Two runs of one step each, for the same tool.
TwoRunsOf == [k \in Key |-> IF k = k1 THEN r1 ELSE r2]
NoDependencies == [k \in Key |-> {}]

\* No definition tells one worker from another.
WorkerSymmetry == Permutations(Worker)
=============================================================================
