------------------------------ MODULE MCStorage ------------------------------
(* The storage on its own: one run of up to three steps. *)
EXTENDS StorageClients, History

CONSTANTS r1, k1, k2, k3, t1, w1, w2

\* k2 after k1.
Chain == {k1, k2}
\* k2 and k3 after k1.
Fork == {k1, k2, k3}

MCRunOf == [k \in Key |-> r1]
AfterFirst == [k \in Key |-> IF k = k1 THEN {} ELSE {k1}]
NoDependencies == [k \in Key |-> {}]
MCPosition == [k \in Key |-> IF k = k1 THEN 0 ELSE IF k = k2 THEN 1 ELSE 2]
MCToolOf == [k \in Key |-> t1]
=============================================================================
