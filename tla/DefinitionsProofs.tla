-------------------------- MODULE DefinitionsProofs --------------------------
(***************************************************************************)
(* validate_graph accepts exactly the well-formed acyclic definitions, for *)
(* any number of steps and any graph.                                      *)
(***************************************************************************)
EXTENDS Definitions, FiniteSetTheorems, TLAPS

Listed == Elements(ready) \cup Elements(visited)

Walking == at \in {"collect", "visit", "scan"}

\* Satisfied dependencies that the i-th candidate has been relieved of.
Removed(i) ==
    IF at = "scan" /\ index <= i THEN Elements(visited) \ {current}
                                 ELSE Elements(visited)

\* The dictionary holds what is left of each step's dependencies.
WaitsForRest ==
    Walking => /\ WellFormed
               /\ \A i \in DOMAIN definition :
                     dependencies[Ids[i]] = Graph[Ids[i]] \ Removed(i)

\* Every listed step has all its dependencies in `visited`.
ListedAreFree == \A c \in Listed : Graph[c] \subseteq Elements(visited)

\* Every step that waits for nothing is listed, once it has been collected.
FreeAreListed ==
    Walking => \A i \in DOMAIN definition :
        (dependencies[Ids[i]] = {} /\ (at = "collect" => i < index))
            => Ids[i] \in Listed

\* No step is listed twice.
ListedOnce ==
    /\ IsUnique(ready) /\ IsUnique(visited)
    /\ Elements(ready) \cap Elements(visited) = {}

\* No step of a set that waits for itself is ever listed.
StuckAreUnlisted ==
    \A S \in SUBSET Known : Stuck(S) => S \cap Listed = {}

\* Where the loops are.
LoopsInStep ==
    /\ at = "check" => ready = <<>> /\ visited = <<>> /\ index = 1
    /\ at = "collect" => /\ visited = <<>>
                         /\ \A c \in Elements(ready) :
                               \E i \in DOMAIN definition : i < index /\ Ids[i] = c
    /\ at = "visit" => index = 1
    /\ at = "scan" => current \in Elements(visited)
    /\ at \in {"check", "collect", "visit", "scan"} => verdict = "none"

DefinitionsInv ==
    /\ TypeOK
    /\ WaitsForRest
    /\ ListedAreFree
    /\ FreeAreListed
    /\ ListedOnce
    /\ StuckAreUnlisted
    /\ LoopsInStep
    /\ VerdictIsRight
    /\ VisitedInOrder

-----------------------------------------------------------------------------
(* Sequences as sets. *)

LEMMA AppendElements ==
    ASSUME NEW T, NEW s \in Seq(T), NEW x \in T
    PROVE  Elements(Append(s, x)) = Elements(s) \cup {x}
  <1>1. /\ Len(s) \in Nat /\ DOMAIN s = 1 .. Len(s)
        /\ DOMAIN Append(s, x) = 1 .. Len(s) + 1
        /\ \A i \in 1 .. Len(s) : Append(s, x)[i] = s[i]
        /\ Append(s, x)[Len(s) + 1] = x
    OBVIOUS
  <1>2. DOMAIN Append(s, x) = DOMAIN s \cup {Len(s) + 1}
    BY <1>1
  <1>3. QED
    BY <1>1, <1>2 DEF Elements

LEMMA AppendUnique ==
    ASSUME NEW T, NEW s \in Seq(T), NEW x \in T, IsUnique(s), x \notin Elements(s)
    PROVE  IsUnique(Append(s, x))
  BY DEF Elements, IsUnique

LEMMA HeadAndTail ==
    ASSUME NEW T, NEW s \in Seq(T), s # <<>>
    PROVE  /\ Head(s) \in T /\ Tail(s) \in Seq(T)
           /\ Elements(s) = {Head(s)} \cup Elements(Tail(s))
  <1>1. /\ Len(s) \in Nat \ {0} /\ Head(s) = s[1] /\ Tail(s) \in Seq(T)
        /\ Len(Tail(s)) = Len(s) - 1
        /\ \A i \in 1 .. Len(s) - 1 : Tail(s)[i] = s[i + 1]
    OBVIOUS
  <1>2. ASSUME NEW i \in DOMAIN s
        PROVE  s[i] \in {Head(s)} \cup Elements(Tail(s))
    <2>1. CASE i = 1
      BY <1>1, <2>1
    <2>2. CASE i # 1
      <3>1. i - 1 \in 1 .. Len(s) - 1 /\ s[i] = Tail(s)[i - 1]
        BY <1>1, <2>2
      <3>2. QED
        BY <1>1, <3>1 DEF Elements
    <2>3. QED
      BY <2>1, <2>2
  <1>3. ASSUME NEW i \in DOMAIN Tail(s)
        PROVE  Tail(s)[i] \in Elements(s)
    BY <1>1 DEF Elements
  <1>4. Head(s) \in Elements(s) /\ Head(s) \in T
    BY <1>1 DEF Elements
  <1>5. QED
    BY <1>1, <1>2, <1>3, <1>4 DEF Elements

LEMMA TailUnique ==
    ASSUME NEW T, NEW s \in Seq(T), s # <<>>, IsUnique(s)
    PROVE  IsUnique(Tail(s)) /\ Head(s) \notin Elements(Tail(s))
  <1>1. /\ Len(s) \in Nat \ {0} /\ Head(s) = s[1] /\ Tail(s) \in Seq(T)
        /\ Len(Tail(s)) = Len(s) - 1
        /\ \A i \in 1 .. Len(s) - 1 : Tail(s)[i] = s[i + 1]
    OBVIOUS
  <1>2. IsUnique(Tail(s))
    BY <1>1 DEF IsUnique
  <1>3. ASSUME NEW i \in DOMAIN Tail(s), Tail(s)[i] = Head(s)
        PROVE  FALSE
    BY <1>1, <1>3 DEF IsUnique
  <1>4. QED
    BY <1>2, <1>3 DEF Elements

\* A list without repetitions has as many elements as it is long.
LEMMA UniqueLength ==
    ASSUME NEW T, NEW s \in Seq(T), IsUnique(s)
    PROVE  IsFiniteSet(Elements(s)) /\ Cardinality(Elements(s)) = Len(s)
  <1>1. s \in [1 .. Len(s) -> Elements(s)] /\ Len(s) \in Nat
    BY DEF Elements
  <1>2. \A y \in Elements(s) : \E i \in 1 .. Len(s) : s[i] = y
    BY DEF Elements
  <1>3. s \in Bijection(1 .. Len(s), Elements(s))
    BY <1>1, <1>2 DEF Bijection, Injection, Surjection, IsInjective, IsUnique
  <1>4. ExistsBijection(1 .. Len(s), Elements(s))
    BY <1>3 DEF ExistsBijection
  <1>5. QED
    BY <1>1, <1>4, FS_NatBijection, FS_CountingElements

-----------------------------------------------------------------------------
(* The graph. *)

LEMMA IdsType ==
    ASSUME DefinitionsAssumption, TypeOK
    PROVE  /\ Ids \in Seq(Known) /\ Len(Ids) = Len(definition)
           /\ DOMAIN Ids = DOMAIN definition
           /\ DOMAIN definition = 1 .. Len(definition) /\ Len(definition) \in Nat
           /\ \A i \in DOMAIN definition : Ids[i] \in Known
           /\ \A c \in Known : \E i \in DOMAIN definition : c = Ids[i]
           /\ NoId \notin Known
  <1>1. definition \in Seq(Step) /\ NoId \notin Id
    BY DEF TypeOK, DefinitionsAssumption
  <1>2. /\ Len(definition) \in Nat
        /\ DOMAIN definition = 1 .. Len(definition)
        /\ \A i \in DOMAIN definition : definition[i] \in Step
    BY <1>1
  <1>3. \A i \in DOMAIN definition : definition[i].id \in Id
    BY <1>2 DEF Step
  <1>4. DOMAIN Ids = DOMAIN definition
    BY DEF Ids
  <1>5. Known = {Ids[i] : i \in DOMAIN definition}
    BY <1>4 DEF Known, Elements
  <1>6. Ids = [i \in 1 .. Len(definition) |-> Ids[i]]
    BY <1>2 DEF Ids
  <1>7. Ids \in Seq(Known) /\ Len(Ids) = Len(definition)
    <2>1. \A i \in 1 .. Len(definition) : Ids[i] \in Known
      BY <1>2, <1>5
    <2>2. Ids \in [1 .. Len(definition) -> Known]
      BY <1>6, <2>1
    <2>3. QED
      BY <1>2, <2>2
  <1>8. Known \subseteq Id
    BY <1>3, <1>5 DEF Ids
  <1>9. QED
    BY <1>1, <1>2, <1>4, <1>5, <1>7, <1>8

LEMMA GraphType ==
    ASSUME DefinitionsAssumption, TypeOK, WellFormed
    PROVE  Graph \in [Known -> SUBSET Known]
  BY IdsType DEF WellFormed, Graph

\* No action changes the definition, and with it the graph.
LEMMA Frame ==
    ASSUME definition' = definition
    PROVE  /\ Ids' = Ids /\ Known' = Known /\ Graph' = Graph
           /\ WellFormed' = WellFormed
           /\ \A S : Stuck(S)' = Stuck(S)
  <1>1. Ids' = Ids
    BY DEF Ids
  <1>2. Known' = Known
    BY <1>1 DEF Known
  <1>3. Graph' = Graph
    BY <1>1, <1>2 DEF Graph
  <1>4. WellFormed' = WellFormed
    BY <1>1, <1>2 DEF WellFormed
  <1>5. QED
    BY <1>1, <1>2, <1>3, <1>4 DEF Stuck

\* Two steps of a well-formed definition have different ids.
LEMMA IdsDiffer ==
    ASSUME DefinitionsAssumption, TypeOK, WellFormed,
           NEW i \in DOMAIN definition, NEW j \in DOMAIN definition, Ids[i] = Ids[j]
    PROVE  i = j
  BY IdsType DEF WellFormed, IsUnique

\* The empty list, with which everything starts.
LEMMA EmptyList ==
    /\ Elements(<<>>) = {} /\ IsUnique(<<>>)
    /\ \A T : <<>> \in Seq(T)
  BY DEF Elements, IsUnique

LEMMA InitInvariant ==
    ASSUME DefinitionsAssumption, Init
    PROVE  DefinitionsInv
  <1>1. definition \in Seq(Step) /\ Len(definition) \in Nat
    BY DEF Init, DefinitionsAssumption
  <1>2. TypeOK
    BY <1>1, EmptyList DEF Init, TypeOK, Verdict
  <1>3. ~ Walking /\ Listed = {}
    BY EmptyList DEF Init, Walking, Listed
  <1>4. ListedOnce /\ VisitedInOrder
    BY EmptyList DEF Init, ListedOnce, VisitedInOrder
  <1>5. QED
    BY <1>2, <1>3, <1>4 DEF Init, DefinitionsInv, WaitsForRest, ListedAreFree,
       FreeAreListed, StuckAreUnlisted, LoopsInStep, VerdictIsRight

-----------------------------------------------------------------------------
(* One lemma per action. *)

LEMMA CheckPreserves ==
    ASSUME DefinitionsAssumption, DefinitionsInv, Check
    PROVE  DefinitionsInv'
  <1>1. definition' = definition
    BY DEF Check
  <1>2. /\ Ids' = Ids /\ Known' = Known /\ Graph' = Graph
        /\ WellFormed' = WellFormed
        /\ \A S : Stuck(S)' = Stuck(S)
    BY <1>1, Frame
  <1>3. /\ at = "check" /\ ready = <<>> /\ visited = <<>> /\ index = 1
        /\ verdict = "none" /\ TypeOK
        /\ UNCHANGED <<definition, ready, visited, current, index, replayVars>>
    BY DEF Check, DefinitionsInv, LoopsInStep
  <1>4. Listed' = {} /\ Elements(visited') = {} /\ Elements(ready') = {}
    BY <1>3, EmptyList DEF Listed
  <1>5. ListedAreFree' /\ ListedOnce' /\ StuckAreUnlisted' /\ VisitedInOrder'
    BY <1>2, <1>3, <1>4, EmptyList
       DEF ListedAreFree, ListedOnce, StuckAreUnlisted, VisitedInOrder
  <1>6. CASE WellFormed
    <2>1. at' = "collect" /\ dependencies' = Graph /\ verdict' = verdict
      BY <1>6 DEF Check
    <2>2. TypeOK'
      BY <1>2, <1>3, <1>6, <2>1, GraphType DEF TypeOK, Verdict, replayVars
    <2>3. WaitsForRest'
      <3>1. ASSUME NEW i \in DOMAIN definition
            PROVE  dependencies'[Ids[i]] = Graph[Ids[i]] \ Removed(i)'
        BY <1>4, <2>1 DEF Removed
      <3>2. QED
        BY <1>1, <1>2, <1>6, <3>1 DEF WaitsForRest
    <2>4. FreeAreListed'
      BY <1>1, <1>3, <2>1, IdsType DEF FreeAreListed
    <2>5. LoopsInStep' /\ VerdictIsRight'
      BY <1>3, <1>4, <2>1 DEF LoopsInStep, VerdictIsRight
    <2>6. QED
      BY <1>5, <2>2, <2>3, <2>4, <2>5 DEF DefinitionsInv
  <1>7. CASE ~ WellFormed
    <2>1. at' = "replay" /\ verdict' = "rejected" /\ dependencies' = dependencies
      BY <1>7 DEF Check
    <2>2. TypeOK'
      BY <1>2, <1>3, <2>1 DEF TypeOK, Verdict, replayVars
    <2>3. ~ Walking'
      BY <2>1 DEF Walking
    <2>4. LoopsInStep' /\ VerdictIsRight'
      BY <1>2, <1>7, <2>1 DEF LoopsInStep, VerdictIsRight
    <2>5. QED
      BY <1>5, <2>2, <2>3, <2>4 DEF DefinitionsInv, WaitsForRest, FreeAreListed
  <1>8. QED
    BY <1>6, <1>7

LEMMA CollectPreserves ==
    ASSUME DefinitionsAssumption, DefinitionsInv, Collect
    PROVE  DefinitionsInv'
  <1>1. definition' = definition
    BY DEF Collect
  <1>2. /\ Ids' = Ids /\ Known' = Known /\ Graph' = Graph
        /\ WellFormed' = WellFormed
        /\ \A S : Stuck(S)' = Stuck(S)
    BY <1>1, Frame
  <1>3. /\ at = "collect" /\ visited = <<>> /\ verdict = "none" /\ TypeOK
        /\ WellFormed
        /\ UNCHANGED <<definition, visited, dependencies, current, verdict,
                       replayVars>>
    BY DEF Collect, DefinitionsInv, LoopsInStep, WaitsForRest, Walking
  <1>4. Elements(visited) = {} /\ Elements(visited') = {} /\ Listed = Elements(ready)
        /\ Listed' = Elements(ready')
    BY <1>3, EmptyList DEF Listed
  <1>5. \A i \in DOMAIN definition : dependencies[Ids[i]] = Graph[Ids[i]]
    BY <1>3, <1>4 DEF DefinitionsInv, WaitsForRest, Walking, Removed
  <1>6. VisitedInOrder' /\ VerdictIsRight'
    BY <1>2, <1>3 DEF DefinitionsInv, VisitedInOrder, VerdictIsRight
  <1>7. ASSUME at' \in {"collect", "visit"} PROVE WaitsForRest'
    BY <1>1, <1>2, <1>3, <1>4, <1>5, <1>7 DEF WaitsForRest, Removed
  <1>8. CASE index <= Len(definition) /\ dependencies[Ids[index]] = {}
    <2> DEFINE c == Ids[index]
    <2>1. ready' = Append(ready, c) /\ index' = index + 1 /\ at' = at
      BY <1>8 DEF Collect
    <2>2. index \in DOMAIN definition /\ index \in Nat /\ c \in Known
      BY <1>3, <1>8, IdsType DEF TypeOK
    <2>3. Elements(ready') = Elements(ready) \cup {c}
      BY <1>3, <2>1, <2>2, AppendElements DEF TypeOK
    <2>4. Graph[c] = {}
      BY <1>5, <1>8, <2>2
    <2>5. c \notin Elements(ready)
      <3>1. SUFFICES ASSUME c \in Elements(ready) PROVE FALSE
        OBVIOUS
      <3>2. PICK i \in DOMAIN definition : i < index /\ Ids[i] = Ids[index]
        BY <1>3, <3>1 DEF DefinitionsInv, LoopsInStep
      <3>3. QED
        BY <1>3, <2>2, <3>2, IdsDiffer
    <2>6. TypeOK'
      <3>1. ready' \in Seq(Known)
        BY <1>3, <2>1, <2>2 DEF TypeOK
      <3>2. index' \in 1 .. Len(definition) + 1
        BY <1>8, <2>1, <2>2, IdsType, <1>3 DEF TypeOK
      <3>3. QED
        BY <1>2, <1>3, <2>1, <3>1, <3>2 DEF TypeOK, replayVars
    <2>7. ListedOnce'
      <3>1. IsUnique(ready')
        BY <1>3, <2>1, <2>2, <2>5, AppendUnique
           DEF TypeOK, DefinitionsInv, ListedOnce
      <3>2. QED
        BY <1>3, <1>4, <3>1, EmptyList DEF ListedOnce
    <2>8. ListedAreFree'
      BY <1>2, <1>4, <2>3, <2>4 DEF DefinitionsInv, ListedAreFree
    <2>9. StuckAreUnlisted'
      BY <1>2, <1>4, <2>3, <2>4 DEF DefinitionsInv, StuckAreUnlisted, Stuck
    <2>10. FreeAreListed'
      <3>1. ASSUME NEW i \in DOMAIN definition, dependencies[Ids[i]] = {},
                   i < index + 1
            PROVE  Ids[i] \in Elements(ready')
        <4>1. CASE i = index
          BY <2>3, <4>1
        <4>2. CASE i < index
          BY <1>3, <1>4, <2>3, <3>1, <4>2
             DEF DefinitionsInv, FreeAreListed, Walking
        <4>3. QED
          BY <2>2, <3>1, <4>1, <4>2, IdsType, <1>3
      <3>2. QED
        BY <1>1, <1>2, <1>3, <1>4, <2>1, <3>1 DEF FreeAreListed
    <2>11. LoopsInStep'
      <3>1. ASSUME NEW d \in Elements(ready')
            PROVE  \E i \in DOMAIN definition : i < index + 1 /\ Ids[i] = d
        <4>1. CASE d = c
          BY <2>2, <4>1
        <4>2. CASE d \in Elements(ready)
          <5>1. PICK i \in DOMAIN definition : i < index /\ Ids[i] = d
            BY <1>3, <4>2 DEF DefinitionsInv, LoopsInStep
          <5>2. QED
            BY <2>2, <5>1, IdsType, <1>3
        <4>3. QED
          BY <2>3, <4>1, <4>2
      <3>2. QED
        BY <1>1, <1>2, <1>3, <2>1, <3>1 DEF LoopsInStep
    <2>12. WaitsForRest'
      BY <1>3, <1>7, <2>1
    <2>13. QED
      BY <1>6, <2>6, <2>7, <2>8, <2>9, <2>10, <2>11, <2>12 DEF DefinitionsInv
  <1>9. CASE index <= Len(definition) /\ dependencies[Ids[index]] # {}
    <2>1. ready' = ready /\ index' = index + 1 /\ at' = at
      BY <1>9 DEF Collect
    <2>2. index \in DOMAIN definition /\ index \in Nat
      BY <1>3, <1>9, IdsType DEF TypeOK
    <2>3. index' \in 1 .. Len(definition) + 1
      BY <1>3, <1>9, <2>1, <2>2, IdsType DEF TypeOK
    <2>4. TypeOK'
      BY <1>2, <1>3, <2>1, <2>3 DEF TypeOK, replayVars
    <2>5. ListedOnce' /\ ListedAreFree' /\ StuckAreUnlisted'
      BY <1>2, <1>3, <1>4, <2>1 DEF DefinitionsInv, ListedOnce, ListedAreFree,
         StuckAreUnlisted
    <2>6. FreeAreListed'
      <3>1. ASSUME NEW i \in DOMAIN definition, dependencies[Ids[i]] = {},
                   i < index + 1
            PROVE  i < index
        BY <1>3, <1>9, <2>2, <3>1, IdsType
      <3>2. QED
        BY <1>1, <1>2, <1>3, <1>4, <2>1, <3>1
           DEF DefinitionsInv, FreeAreListed, Walking
    <2>7. LoopsInStep'
      <3>1. ASSUME NEW d \in Elements(ready)
            PROVE  \E i \in DOMAIN definition : i < index + 1 /\ Ids[i] = d
        <4>1. PICK i \in DOMAIN definition : i < index /\ Ids[i] = d
          BY <1>3, <3>1 DEF DefinitionsInv, LoopsInStep
        <4>2. QED
          BY <2>2, <4>1, IdsType, <1>3
      <3>2. QED
        BY <1>1, <1>2, <1>3, <2>1, <3>1 DEF LoopsInStep
    <2>8. WaitsForRest'
      BY <1>3, <1>7, <2>1
    <2>9. QED
      BY <1>6, <2>4, <2>5, <2>6, <2>7, <2>8 DEF DefinitionsInv
  <1>10. CASE ~ (index <= Len(definition))
    <2>1. ready' = ready /\ index' = 1 /\ at' = "visit"
      BY <1>10 DEF Collect
    <2>2. TypeOK'
      BY <1>2, <1>3, <2>1, IdsType DEF TypeOK, replayVars
    <2>3. ListedOnce' /\ ListedAreFree' /\ StuckAreUnlisted'
      BY <1>2, <1>3, <1>4, <2>1 DEF DefinitionsInv, ListedOnce, ListedAreFree,
         StuckAreUnlisted
    <2>4. \A i \in DOMAIN definition : i < index
      BY <1>3, <1>10, IdsType DEF TypeOK
    <2>5. FreeAreListed'
      BY <1>1, <1>2, <1>3, <1>4, <2>1, <2>4
         DEF DefinitionsInv, FreeAreListed, Walking
    <2>6. LoopsInStep'
      BY <1>3, <2>1 DEF LoopsInStep
    <2>7. WaitsForRest'
      BY <1>7, <2>1
    <2>8. QED
      BY <1>6, <2>2, <2>3, <2>5, <2>6, <2>7 DEF DefinitionsInv
  <1>11. QED
    BY <1>8, <1>9, <1>10

LEMMA VisitPreserves ==
    ASSUME DefinitionsAssumption, DefinitionsInv, Visit, ready # <<>>
    PROVE  DefinitionsInv'
  <1> DEFINE c == Head(ready)
  <1>1. definition' = definition
    BY DEF Visit
  <1>2. /\ Ids' = Ids /\ Known' = Known /\ Graph' = Graph
        /\ WellFormed' = WellFormed
        /\ \A S : Stuck(S)' = Stuck(S)
    BY <1>1, Frame
  <1>3. /\ at = "visit" /\ index = 1 /\ verdict = "none" /\ TypeOK /\ WellFormed
        /\ current' = c /\ ready' = Tail(ready) /\ visited' = Append(visited, c)
        /\ at' = "scan"
        /\ UNCHANGED <<definition, dependencies, index, verdict, replayVars>>
    BY DEF Visit, DefinitionsInv, LoopsInStep, WaitsForRest, Walking
  <1>4. /\ c \in Known /\ ready' \in Seq(Known)
        /\ Elements(ready) = {c} \cup Elements(ready')
        /\ IsUnique(ready') /\ c \notin Elements(ready')
    BY <1>3, HeadAndTail, TailUnique DEF TypeOK, DefinitionsInv, ListedOnce
  <1>5. Elements(visited') = Elements(visited) \cup {c}
    BY <1>3, <1>4, AppendElements DEF TypeOK
  <1>6. Listed' = Listed /\ c \in Listed
    BY <1>4, <1>5 DEF Listed
  <1>7. c \notin Elements(visited)
    BY <1>4 DEF DefinitionsInv, ListedOnce
  <1>8. TypeOK'
    BY <1>2, <1>3, <1>4 DEF TypeOK, replayVars
  <1>9. WaitsForRest'
    <2>1. ASSUME NEW i \in DOMAIN definition
          PROVE  dependencies[Ids[i]] = Graph[Ids[i]] \ Removed(i)'
      <3>1. dependencies[Ids[i]] = Graph[Ids[i]] \ Elements(visited)
        BY <1>3 DEF DefinitionsInv, WaitsForRest, Walking, Removed
      <3>2. index <= i
        BY <1>3, IdsType
      <3>3. Removed(i)' = Elements(visited') \ {c}
        BY <1>3, <3>2 DEF Removed
      <3>4. QED
        BY <1>5, <1>7, <3>1, <3>3
    <2>2. QED
      BY <1>1, <1>2, <1>3, <2>1 DEF WaitsForRest
  <1>10. ListedAreFree'
    BY <1>2, <1>5, <1>6 DEF DefinitionsInv, ListedAreFree
  <1>11. FreeAreListed'
    BY <1>1, <1>2, <1>3, <1>6 DEF DefinitionsInv, FreeAreListed, Walking
  <1>12. ListedOnce'
    <2>1. IsUnique(visited')
      BY <1>3, <1>4, <1>7, AppendUnique DEF TypeOK, DefinitionsInv, ListedOnce
    <2>2. QED
      BY <1>4, <1>5, <2>1 DEF DefinitionsInv, ListedOnce
  <1>13. StuckAreUnlisted'
    BY <1>2, <1>6 DEF DefinitionsInv, StuckAreUnlisted
  <1>14. LoopsInStep'
    BY <1>3, <1>5 DEF LoopsInStep
  <1>15. VerdictIsRight'
    BY <1>2, <1>3 DEF DefinitionsInv, VerdictIsRight
  <1>16. VisitedInOrder'
    <2>1. /\ Len(visited) \in Nat /\ DOMAIN visited = 1 .. Len(visited)
          /\ DOMAIN visited' = 1 .. Len(visited) + 1
          /\ \A i \in 1 .. Len(visited) : visited'[i] = visited[i]
          /\ visited'[Len(visited) + 1] = c
      BY <1>3, <1>4 DEF TypeOK
    <2>2. ASSUME NEW i \in DOMAIN visited'
          PROVE  Graph[visited'[i]] \subseteq {visited'[j] : j \in 1 .. i - 1}
      <3>1. CASE i = Len(visited) + 1
        <4>1. Graph[c] \subseteq Elements(visited)
          BY <1>6 DEF DefinitionsInv, ListedAreFree
        <4>2. Elements(visited) = {visited[j] : j \in 1 .. i - 1}
          BY <2>1, <3>1 DEF Elements
        <4>3. QED
          BY <2>1, <3>1, <4>1, <4>2
      <3>2. CASE i \in 1 .. Len(visited)
        <4>1. Graph[visited[i]] \subseteq {visited[j] : j \in 1 .. i - 1}
          BY <2>1, <3>2 DEF DefinitionsInv, VisitedInOrder
        <4>2. \A j \in 1 .. i - 1 : visited'[j] = visited[j]
          BY <2>1, <3>2
        <4>3. QED
          BY <2>1, <3>2, <4>1, <4>2
      <3>3. QED
        BY <2>1, <3>1, <3>2
    <2>3. IsUnique(visited')
      BY <1>12 DEF ListedOnce
    <2>4. QED
      BY <1>2, <2>2, <2>3 DEF VisitedInOrder
  <1>17. QED
    BY <1>8, <1>9, <1>10, <1>11, <1>12, <1>13, <1>14, <1>15, <1>16
       DEF DefinitionsInv

\* Nothing is ready any more: every step has been visited, or the rest waits
\* for itself.
LEMMA DecidePreserves ==
    ASSUME DefinitionsAssumption, DefinitionsInv, Visit, ready = <<>>
    PROVE  DefinitionsInv'
  <1> DEFINE Rest == Known \ Elements(visited)
  <1>1. definition' = definition
    BY DEF Visit
  <1>2. /\ Ids' = Ids /\ Known' = Known /\ Graph' = Graph
        /\ WellFormed' = WellFormed
        /\ \A S : Stuck(S)' = Stuck(S)
    BY <1>1, Frame
  <1>3. /\ at = "visit" /\ index = 1 /\ verdict = "none" /\ TypeOK /\ WellFormed
        /\ verdict' = IF Len(visited) = Len(definition)
                      THEN "accepted" ELSE "rejected"
        /\ at' = "replay"
        /\ UNCHANGED <<definition, ready, visited, dependencies, current, index,
                       replayVars>>
    BY DEF Visit, DefinitionsInv, LoopsInStep, WaitsForRest, Walking
  <1>4. Listed = Elements(visited) /\ Listed' = Listed
    BY <1>3, EmptyList DEF Listed
  <1>5. Elements(visited) \subseteq Known
    BY <1>3 DEF TypeOK, Elements
  <1>6. CASE Len(visited) = Len(definition)
    <2>1. Cardinality(Elements(visited)) = Len(visited)
      BY <1>3, UniqueLength DEF TypeOK, DefinitionsInv, ListedOnce
    <2>2. IsFiniteSet(Known) /\ Cardinality(Known) = Len(definition)
      BY <1>3, UniqueLength, IdsType DEF WellFormed, Known
    <2>3. Elements(visited) = Known
      BY <1>5, <1>6, <2>1, <2>2, FS_Subset
    <2>4. \A S \in SUBSET Known : ~ Stuck(S)
      BY <1>4, <2>3 DEF DefinitionsInv, StuckAreUnlisted, Stuck
    <2>5. QED
      <3>1. verdict' = "accepted"
        BY <1>3, <1>6
      <3>2. VerdictIsRight'
        BY <1>2, <1>3, <2>4, <3>1 DEF VerdictIsRight
      <3>3. TypeOK'
        BY <1>2, <1>3, <3>1 DEF TypeOK, Verdict, replayVars
      <3>4. WaitsForRest' /\ FreeAreListed' /\ LoopsInStep'
        BY <1>3 DEF WaitsForRest, FreeAreListed, LoopsInStep, Walking
      <3>5. ListedAreFree' /\ ListedOnce' /\ StuckAreUnlisted' /\ VisitedInOrder'
        BY <1>2, <1>3, <1>4 DEF DefinitionsInv, ListedAreFree, ListedOnce,
           StuckAreUnlisted, VisitedInOrder
      <3>6. QED
        BY <3>2, <3>3, <3>4, <3>5 DEF DefinitionsInv
  <1>7. CASE Len(visited) # Len(definition)
    <2>1. Rest # {}
      <3>1. SUFFICES ASSUME Elements(visited) = Known PROVE FALSE
        BY <1>5
      <3>2. Cardinality(Elements(visited)) = Len(visited)
        BY <1>3, UniqueLength DEF TypeOK, DefinitionsInv, ListedOnce
      <3>3. Cardinality(Known) = Len(definition)
        BY <1>3, UniqueLength, IdsType DEF WellFormed, Known
      <3>4. QED
        BY <1>7, <3>1, <3>2, <3>3
    <2>2. ASSUME NEW c \in Rest PROVE Graph[c] \cap Rest # {}
      <3>1. PICK i \in DOMAIN definition : c = Ids[i]
        BY <1>3, IdsType
      <3>2. dependencies[c] # {}
        BY <1>3, <1>4, <3>1 DEF DefinitionsInv, FreeAreListed, Walking
      <3>3. dependencies[c] = Graph[c] \ Elements(visited)
        BY <1>3, <3>1 DEF DefinitionsInv, WaitsForRest, Walking, Removed
      <3>4. dependencies[c] \subseteq Known
        BY <1>3 DEF TypeOK
      <3>5. QED
        BY <3>2, <3>3, <3>4
    <2>3. Rest \in SUBSET Known /\ Stuck(Rest)
      BY <2>1, <2>2 DEF Stuck
    <2>4. QED
      <3>1. verdict' = "rejected"
        BY <1>3, <1>7
      <3>2. VerdictIsRight'
        BY <1>2, <1>3, <2>3, <3>1 DEF VerdictIsRight
      <3>3. TypeOK'
        BY <1>2, <1>3, <3>1 DEF TypeOK, Verdict, replayVars
      <3>4. WaitsForRest' /\ FreeAreListed' /\ LoopsInStep'
        BY <1>3 DEF WaitsForRest, FreeAreListed, LoopsInStep, Walking
      <3>5. ListedAreFree' /\ ListedOnce' /\ StuckAreUnlisted' /\ VisitedInOrder'
        BY <1>2, <1>3, <1>4 DEF DefinitionsInv, ListedAreFree, ListedOnce,
           StuckAreUnlisted, VisitedInOrder
      <3>6. QED
        BY <3>2, <3>3, <3>4, <3>5 DEF DefinitionsInv
  <1>8. QED
    BY <1>6, <1>7

LEMMA ScanPreserves ==
    ASSUME DefinitionsAssumption, DefinitionsInv, Scan
    PROVE  DefinitionsInv'
  <1> DEFINE c == Ids[index]
             Ready == /\ current \in dependencies[c]
                      /\ dependencies[c] \subseteq {current}
                      /\ c \notin Elements(visited) \cup Elements(ready)
  <1>1. definition' = definition
    BY DEF Scan
  <1>2. /\ Ids' = Ids /\ Known' = Known /\ Graph' = Graph
        /\ WellFormed' = WellFormed
        /\ \A S : Stuck(S)' = Stuck(S)
    BY <1>1, Frame
  <1>3. /\ at = "scan" /\ current \in Elements(visited) /\ verdict = "none"
        /\ TypeOK /\ WellFormed /\ index <= Len(definition)
        /\ ready' = IF Ready THEN Append(ready, c) ELSE ready
        /\ dependencies' = [dependencies EXCEPT ![c] = @ \ {current}]
        /\ index' = index + 1 /\ at' = at
        /\ UNCHANGED <<definition, visited, current, verdict, replayVars>>
    BY DEF Scan, DefinitionsInv, LoopsInStep, WaitsForRest, Walking
  <1>4. /\ index \in DOMAIN definition /\ index \in Nat /\ c \in Known
        /\ index' \in 1 .. Len(definition) + 1
    BY <1>3, IdsType DEF TypeOK
  <1>5. dependencies \in [Known -> SUBSET Known]
    BY <1>3 DEF TypeOK
  <1>6. dependencies[c] = Graph[c] \ (Elements(visited) \ {current})
    BY <1>3, <1>4 DEF DefinitionsInv, WaitsForRest, Walking, Removed
  <1>7. ready' \in Seq(Known)
        /\ Elements(ready') = IF Ready THEN Elements(ready) \cup {c}
                                       ELSE Elements(ready)
    <2> HIDE DEF c, Ready
    <2>1. /\ ready \in Seq(Known)
          /\ Append(ready, c) \in Seq(Known)
          /\ Elements(Append(ready, c)) = Elements(ready) \cup {c}
      BY <1>3, <1>4, AppendElements DEF TypeOK
    <2>2. QED
      BY <1>3, <2>1
  <1>8. Listed' = IF Ready THEN Listed \cup {c} ELSE Listed
    BY <1>3, <1>7 DEF Listed
  <1>9. ASSUME Ready PROVE Graph[c] \subseteq Elements(visited)
    BY <1>3, <1>6, <1>9
  <1>10. dependencies'[c] = dependencies[c] \ {current}
    BY <1>3, <1>4, <1>5
  <1>11. ASSUME NEW i \in DOMAIN definition, i # index
         PROVE  dependencies'[Ids[i]] = dependencies[Ids[i]]
    <2>1. Ids[i] # c /\ Ids[i] \in Known
      BY <1>3, <1>4, <1>11, IdsDiffer, IdsType
    <2>2. QED
      BY <1>3, <1>5, <2>1
  <1>12. TypeOK'
    <2>1. dependencies' \in [Known -> SUBSET Known]
      BY <1>3, <1>4, <1>5
    <2>2. QED
      BY <1>2, <1>3, <1>4, <1>7, <2>1 DEF TypeOK, replayVars
  <1>13. WaitsForRest'
    <2>1. ASSUME NEW i \in DOMAIN definition
          PROVE  dependencies'[Ids[i]] = Graph[Ids[i]] \ Removed(i)'
      <3>1. i \in Nat
        BY <1>3, IdsType
      <3>2. CASE i = index
        <4>1. ~ (index' <= i)
          BY <1>3, <1>4, <3>2
        <4>2. Removed(i)' = Elements(visited)
          BY <1>3, <4>1 DEF Removed
        <4>3. QED
          BY <1>3, <1>6, <1>10, <3>2, <4>2
      <3>3. CASE i # index
        <4>1. (index' <= i) = (index <= i)
          BY <1>3, <1>4, <3>1, <3>3
        <4>2. Removed(i)' = Removed(i)
          BY <1>3, <4>1 DEF Removed
        <4>3. QED
          BY <1>3, <1>11, <3>3, <4>2 DEF DefinitionsInv, WaitsForRest, Walking
      <3>4. QED
        BY <3>2, <3>3
    <2>2. QED
      BY <1>1, <1>2, <1>3, <2>1 DEF WaitsForRest
  <1>14. ListedAreFree'
    BY <1>2, <1>3, <1>8, <1>9 DEF DefinitionsInv, ListedAreFree
  <1>15. FreeAreListed'
    <2>1. ASSUME NEW i \in DOMAIN definition, dependencies'[Ids[i]] = {}
          PROVE  Ids[i] \in Listed'
      <3>1. CASE dependencies[Ids[i]] = {}
        BY <1>3, <1>8, <3>1 DEF DefinitionsInv, FreeAreListed, Walking
      <3>2. CASE dependencies[Ids[i]] # {}
        <4>1. i = index
          BY <1>11, <2>1, <3>2
        <4>2. /\ current \in dependencies[c]
              /\ dependencies[c] \subseteq {current}
          BY <1>10, <2>1, <3>2, <4>1
        <4>3. QED
          BY <1>8, <4>1, <4>2 DEF Listed
      <3>3. QED
        BY <3>1, <3>2
    <2>2. QED
      BY <1>1, <1>2, <1>3, <2>1 DEF FreeAreListed
  <1>16. ListedOnce'
    <2>1. ASSUME Ready PROVE IsUnique(ready')
      BY <1>3, <1>4, <2>1, AppendUnique DEF TypeOK, DefinitionsInv, ListedOnce
    <2>2. QED
      BY <1>3, <1>7, <2>1 DEF DefinitionsInv, ListedOnce
  <1>17. StuckAreUnlisted'
    <2>1. ASSUME NEW S \in SUBSET Known, Stuck(S), Ready PROVE c \notin S
      BY <1>9, <2>1 DEF DefinitionsInv, StuckAreUnlisted, Stuck, Listed
    <2>2. QED
      BY <1>2, <1>8, <2>1 DEF DefinitionsInv, StuckAreUnlisted
  <1>18. LoopsInStep'
    BY <1>3 DEF LoopsInStep
  <1>19. VerdictIsRight' /\ VisitedInOrder'
    BY <1>2, <1>3 DEF DefinitionsInv, VerdictIsRight, VisitedInOrder
  <1>20. QED
    BY <1>12, <1>13, <1>14, <1>15, <1>16, <1>17, <1>18, <1>19 DEF DefinitionsInv

LEMMA EndScanPreserves ==
    ASSUME DefinitionsAssumption, DefinitionsInv, EndScan
    PROVE  DefinitionsInv'
  <1>1. definition' = definition
    BY DEF EndScan
  <1>2. /\ Ids' = Ids /\ Known' = Known /\ Graph' = Graph
        /\ WellFormed' = WellFormed
        /\ \A S : Stuck(S)' = Stuck(S)
    BY <1>1, Frame
  <1>3. /\ at = "scan" /\ index > Len(definition) /\ verdict = "none"
        /\ TypeOK /\ WellFormed
        /\ at' = "visit" /\ index' = 1
        /\ UNCHANGED <<definition, ready, visited, dependencies, current,
                       verdict, replayVars>>
    BY DEF EndScan, DefinitionsInv, LoopsInStep, WaitsForRest, Walking
  <1>4. TypeOK'
    BY <1>2, <1>3, IdsType DEF TypeOK, replayVars
  <1>5. ASSUME NEW i \in DOMAIN definition PROVE Removed(i)' = Removed(i)
    <2>1. ~ (index <= i)
      BY <1>3, IdsType DEF TypeOK
    <2>2. QED
      BY <1>3, <2>1 DEF Removed
  <1>6. WaitsForRest'
    BY <1>1, <1>2, <1>3, <1>5 DEF DefinitionsInv, WaitsForRest, Walking
  <1>7. Listed' = Listed
    BY <1>3 DEF Listed
  <1>8. ListedAreFree' /\ FreeAreListed' /\ ListedOnce' /\ StuckAreUnlisted'
    BY <1>1, <1>2, <1>3, <1>7 DEF DefinitionsInv, ListedAreFree, FreeAreListed,
       ListedOnce, StuckAreUnlisted, Walking
  <1>9. LoopsInStep' /\ VerdictIsRight' /\ VisitedInOrder'
    BY <1>2, <1>3 DEF DefinitionsInv, LoopsInStep, VerdictIsRight, VisitedInOrder
  <1>10. QED
    BY <1>4, <1>6, <1>8, <1>9 DEF DefinitionsInv

LEMMA ReplayPreserves ==
    ASSUME DefinitionsAssumption, DefinitionsInv, Replay
    PROVE  DefinitionsInv'
  <1>1. definition' = definition /\ apiVars' = apiVars
        /\ at = "replay" /\ at' \in {"replay", "done"}
    BY DEF Replay, DefinitionsInv, TypeOK
  <1>2. /\ Ids' = Ids /\ Known' = Known /\ Graph' = Graph
        /\ WellFormed' = WellFormed
        /\ \A S : Stuck(S)' = Stuck(S)
    BY <1>1, Frame
  <1>3. replayed' \subseteq Known /\ replay' \in Verdict
    <2>1. \A i \in Candidates : Ids[i] \in Known
      BY IdsType DEF Candidates, DefinitionsInv
    <2>2. QED
      BY <2>1 DEF Replay, DefinitionsInv, TypeOK, Verdict
  <1>4. TypeOK'
    BY <1>1, <1>2, <1>3 DEF DefinitionsInv, TypeOK, apiVars
  <1>5. WaitsForRest' /\ FreeAreListed' /\ LoopsInStep'
    BY <1>1 DEF WaitsForRest, FreeAreListed, LoopsInStep, Walking
  <1>6. Listed' = Listed
    BY <1>1 DEF Listed, apiVars
  <1>7. ListedAreFree' /\ ListedOnce' /\ StuckAreUnlisted'
    BY <1>1, <1>2, <1>6 DEF DefinitionsInv, ListedAreFree, ListedOnce,
       StuckAreUnlisted, apiVars
  <1>8. VerdictIsRight' /\ VisitedInOrder'
    BY <1>1, <1>2 DEF DefinitionsInv, VerdictIsRight, VisitedInOrder, apiVars
  <1>9. QED
    BY <1>4, <1>5, <1>7, <1>8 DEF DefinitionsInv

LEMMA StutterPreserves ==
    ASSUME DefinitionsInv, UNCHANGED definitionVars
    PROVE  DefinitionsInv'
  <1>1. definition' = definition /\ at' = at /\ apiVars' = apiVars
        /\ replayVars' = replayVars
    BY DEF definitionVars
  <1>2. /\ Ids' = Ids /\ Known' = Known /\ Graph' = Graph
        /\ WellFormed' = WellFormed
        /\ \A S : Stuck(S)' = Stuck(S)
    BY <1>1, Frame
  <1>3. Listed' = Listed /\ \A i : Removed(i)' = Removed(i)
    BY <1>1 DEF Listed, Removed, apiVars
  <1>4. TypeOK' /\ WaitsForRest' /\ FreeAreListed' /\ LoopsInStep'
    BY <1>1, <1>2, <1>3 DEF DefinitionsInv, TypeOK, WaitsForRest, FreeAreListed,
       LoopsInStep, Walking, apiVars, replayVars
  <1>5. /\ ListedAreFree' /\ ListedOnce' /\ StuckAreUnlisted'
        /\ VerdictIsRight' /\ VisitedInOrder'
    BY <1>1, <1>2, <1>3 DEF DefinitionsInv, ListedAreFree, ListedOnce,
       StuckAreUnlisted, VerdictIsRight, VisitedInOrder, apiVars
  <1>6. QED
    BY <1>4, <1>5 DEF DefinitionsInv

-----------------------------------------------------------------------------
(* The theorems. *)

LEMMA DefinitionsInvAlways == Spec => []DefinitionsInv
  <1>1. DefinitionsAssumption
    BY DefinitionsAssumption
  <1>2. Init => DefinitionsInv
    BY <1>1, InitInvariant
  <1>3. DefinitionsInv /\ [Next]_definitionVars => DefinitionsInv'
    BY <1>1, CheckPreserves, CollectPreserves, VisitPreserves, DecidePreserves,
       ScanPreserves, EndScanPreserves, ReplayPreserves, StutterPreserves DEF Next
  <1>4. QED
    BY <1>2, <1>3, PTL DEF Spec

\* The variables of the two validations have their types, whatever the graph.
THEOREM DefinitionsTyped == Spec => []TypeOK
  <1>1. DefinitionsInv => TypeOK
    BY DEF DefinitionsInv
  <1>2. QED
    BY <1>1, DefinitionsInvAlways, PTL

\* "Reject dependency graphs that cannot finish" (models.py, validate_graph):
\* the walk accepts exactly the well-formed definitions without a set of steps
\* that wait for each other.
THEOREM VerdictIsAlwaysRight == Spec => []VerdictIsRight
  <1>1. DefinitionsInv => VerdictIsRight
    BY DEF DefinitionsInv
  <1>2. QED
    BY <1>1, DefinitionsInvAlways, PTL

\* The list that the walk builds is an order in which the steps can run.
THEOREM VisitedIsAlwaysInOrder == Spec => []VisitedInOrder
  <1>1. DefinitionsInv => VisitedInOrder
    BY DEF DefinitionsInv
  <1>2. QED
    BY <1>1, DefinitionsInvAlways, PTL

-----------------------------------------------------------------------------
(* The reducer agrees. *)

\* No step of a set that waits for itself is ever replayed; the API has decided
\* by the time the reducer starts.
ReplayInv ==
    /\ \A S \in SUBSET Known : Stuck(S) => S \cap replayed = {}
    /\ at \in {"replay", "done"} => verdict # "none"
    /\ ReplayAgrees

LEMMA ReplayInvPreserved ==
    ASSUME DefinitionsAssumption, DefinitionsInv, DefinitionsInv', ReplayInv,
           [Next]_definitionVars
    PROVE  ReplayInv'
  <1>1. definition' = definition
    BY DEF Next, Check, Collect, Visit, Scan, EndScan, Replay, definitionVars
  <1>2. /\ Ids' = Ids /\ Known' = Known /\ Graph' = Graph
        /\ WellFormed' = WellFormed
        /\ \A S : Stuck(S)' = Stuck(S)
    BY <1>1, Frame
  <1>3. TypeOK /\ VerdictIsRight /\ LoopsInStep
    BY DEF DefinitionsInv
  <1>4. CASE replayVars' = replayVars /\ at' # "done"
    <2>1. at' = "replay" => verdict' # "none"
      BY <1>3, <1>4 DEF Next, Check, Collect, Visit, Scan, EndScan, Replay,
         definitionVars, replayVars, apiVars, ReplayInv
    <2>2. QED
      BY <1>2, <1>4, <2>1 DEF ReplayInv, ReplayAgrees, replayVars
  <1>5. CASE UNCHANGED definitionVars
    BY <1>2, <1>5 DEF ReplayInv, ReplayAgrees, definitionVars, replayVars, apiVars
  <1>6. CASE Replay
    <2>1. at = "replay" /\ verdict' = verdict /\ verdict \in {"accepted", "rejected"}
      BY <1>3, <1>6 DEF Replay, ReplayInv, apiVars, TypeOK, Verdict
    <2>2. CASE replayed' = replayed /\ at' = "done"
      <3>1. replay' = verdict
        <4>1. CASE ~ WellFormed
          BY <1>3, <1>6, <2>1, <4>1 DEF Replay, VerdictIsRight
        <4>2. CASE WellFormed /\ replayed = Known
          <5>1. \A S \in SUBSET Known : ~ Stuck(S)
            BY <4>2 DEF ReplayInv, Stuck
          <5>2. verdict = "accepted"
            BY <1>3, <2>1, <4>2, <5>1 DEF VerdictIsRight
          <5>3. QED
            BY <1>6, <2>2, <4>2, <5>2 DEF Replay
        <4>3. CASE WellFormed /\ replayed # Known
          <5> DEFINE Rest == Known \ replayed
          <5>1. Candidates = {} /\ replay' = "rejected"
            BY <1>3, <1>6, <2>1, <2>2, <4>3 DEF Replay
          <5>2. Rest # {} /\ Rest \in SUBSET Known
            BY <1>3, <4>3 DEF TypeOK
          <5>3. ASSUME NEW c \in Rest PROVE Graph[c] \cap Rest # {}
            <6>1. PICK i \in DOMAIN definition : c = Ids[i]
              BY <1>3, IdsType
            <6>2. ~ (Graph[c] \subseteq replayed)
              BY <5>1, <6>1 DEF Candidates, Replayable
            <6>3. Graph[c] \subseteq Known
              BY <1>3, <4>3, GraphType
            <6>4. QED
              BY <6>2, <6>3
          <5>4. Stuck(Rest)
            BY <5>2, <5>3 DEF Stuck
          <5>5. QED
            BY <1>3, <2>1, <5>1, <5>2, <5>4 DEF VerdictIsRight
        <4>4. QED
          BY <4>1, <4>2, <4>3
      <3>2. QED
        BY <1>2, <2>1, <2>2, <3>1 DEF ReplayInv, ReplayAgrees
    <2>3. CASE \E i \in Candidates : replayed' = replayed \cup {Ids[i]} /\ at' = at
      <3>1. PICK i \in Candidates : replayed' = replayed \cup {Ids[i]} /\ at' = at
        BY <2>3
      <3>2. Graph[Ids[i]] \subseteq replayed
        BY DEF Candidates, Replayable
      <3>3. ASSUME NEW S \in SUBSET Known, Stuck(S) PROVE Ids[i] \notin S
        BY <3>2, <3>3 DEF Stuck, ReplayInv
      <3>4. QED
        BY <1>2, <2>1, <3>1, <3>3 DEF ReplayInv, ReplayAgrees
    <2>4. QED
      BY <1>6, <2>2, <2>3 DEF Replay
  <1>7. CASE Check \/ Collect \/ Visit \/ Scan \/ EndScan
    <2>1. replayVars' = replayVars
      BY <1>7 DEF Check, Collect, Visit, Scan, EndScan, replayVars
    <2>2. at' # "done"
      BY <1>7 DEF Check, Collect, Visit, Scan, EndScan
    <2>3. QED
      BY <1>4, <2>1, <2>2
  <1>8. QED
    BY <1>5, <1>6, <1>7 DEF Next

\* Whatever the API accepts, the reducer can replay (history.py,
\* _validate_definitions), and it accepts nothing else.
THEOREM ReducerAlwaysAgrees == Spec => []ReplayAgrees
  <1>1. DefinitionsAssumption
    BY DefinitionsAssumption
  <1>2. Init => ReplayInv
    BY DEF Init, ReplayInv, ReplayAgrees
  <1>3. DefinitionsInv /\ DefinitionsInv' /\ ReplayInv /\ [Next]_definitionVars
            => ReplayInv'
    BY <1>1, ReplayInvPreserved
  <1>4. ReplayInv => ReplayAgrees
    BY DEF ReplayInv
  <1>5. QED
    BY <1>2, <1>3, <1>4, DefinitionsInvAlways, PTL DEF Spec
=============================================================================
