---------------------------- MODULE MCDefinitions ----------------------------
(* Definitions of up to four steps. *)
EXTENDS Definitions

CONSTANTS a1, b1, c1, d1

\* Lists of up to two ids, with repetitions.
Lists == {<<>>} \cup {<<x>> : x \in Id} \cup {<<x, y>> : x, y \in Id}

\* Two steps: every id twice, any list of dependencies, known or not.
Pairs == {<<[id |-> x, dependsOn |-> p], [id |-> y, dependsOn |-> q]>> :
             x, y \in {a1, b1}, p, q \in Lists}

\* A set of ids as a list.
Listed(S) ==
    LET in(x) == IF x \in S THEN <<x>> ELSE <<>>
    IN  in(a1) \o in(b1) \o in(c1) \o in(d1)

\* Three and four steps with distinct ids: every graph over them.
Triples == {<<[id |-> a1, dependsOn |-> Listed(p)],
              [id |-> b1, dependsOn |-> Listed(q)],
              [id |-> c1, dependsOn |-> Listed(r)]>> :
               p, q, r \in SUBSET {a1, b1, c1}}
Fours == {<<[id |-> a1, dependsOn |-> Listed(p)],
            [id |-> b1, dependsOn |-> Listed(q)],
            [id |-> c1, dependsOn |-> Listed(r)],
            [id |-> d1, dependsOn |-> Listed(s)]>> :
             p \in SUBSET {b1, c1, d1}, q \in SUBSET {a1, c1, d1},
             r \in SUBSET {a1, b1, d1}, s \in SUBSET {a1, b1, c1}}

Small == Pairs \cup Triples \cup Fours
=============================================================================
