----------------------------- MODULE Definitions -----------------------------
(***************************************************************************)
(* Which workflow definitions may become runs.  The API validates a        *)
(* definition when it is submitted (crashsafe/models.py, validate_graph:   *)
(* a breadth-first walk that removes satisfied dependencies); the reducer  *)
(* validates it again whenever it replays the run's history                *)
(* (crashsafe/history.py, _validate_definitions: by another algorithm).    *)
(* A definition that one accepts and the other rejects would be a run      *)
(* whose history cannot be read, and one that both accept although it      *)
(* cannot finish would be a run that never ends.                           *)
(*                                                                         *)
(* A definition is a list of steps with the list of the ids they depend    *)
(* on.  Both algorithms are run on it, one after the other.                *)
(***************************************************************************)
EXTENDS Naturals, Sequences

CONSTANTS
    Id,             \* step ids
    Definition,     \* the definitions submitted
    NoId

Step == [id : Id, dependsOn : Seq(Id)]

DefinitionsAssumption ==
    /\ Definition \subseteq Seq(Step)
    /\ <<>> \notin Definition
    /\ NoId \notin Id

ASSUME DefinitionsAssumption

VARIABLES
    definition,     \* the definition under test
    at,             \* where the validation is
    ready,          \* list `ready`
    visited,        \* list `visited`
    dependencies,   \* dict `dependencies`: what each step still waits for
    current,        \* the step taken from `ready` last
    index,          \* the next candidate in a loop over the ids
    verdict,        \* the API's: "none", "accepted" or "rejected"
    replayed,       \* the set `visited` of the reducer
    replay          \* the reducer's verdict

apiVars == <<ready, visited, dependencies, current, index, verdict>>
replayVars == <<replayed, replay>>
definitionVars == <<definition, at, apiVars, replayVars>>

Elements(s) == {s[i] : i \in DOMAIN s}

IsUnique(s) == \A i, j \in DOMAIN s : s[i] = s[j] => i = j

Ids == [i \in DOMAIN definition |-> definition[i].id]
Known == Elements(Ids)

\* {step.id: set(step.depends_on)}
Graph ==
    [c \in Known |-> UNION {Elements(definition[i].dependsOn) :
                               i \in {j \in DOMAIN definition : Ids[j] = c}}]

\* Plausible bug: unknown ids are left for the walk to find.
AlmostWellFormed ==
    /\ IsUnique(Ids)
    /\ \A i \in DOMAIN definition :
          /\ IsUnique(definition[i].dependsOn)
          /\ definition[i].id \notin Elements(definition[i].dependsOn)

\* What both test before they look at the graph as a whole.
WellFormed ==
    /\ IsUnique(Ids)
    /\ \A i \in DOMAIN definition :
          /\ IsUnique(definition[i].dependsOn)
          /\ definition[i].id \notin Elements(definition[i].dependsOn)
          /\ Elements(definition[i].dependsOn) \subseteq Known

Init ==
    /\ definition \in Definition
    /\ at = "check"
    /\ ready = <<>>
    /\ visited = <<>>
    /\ dependencies = <<>>
    /\ current = NoId
    /\ index = 1
    /\ verdict = "none"
    /\ replayed = {}
    /\ replay = "none"

Verdict == {"none", "accepted", "rejected"}

TypeOK ==
    /\ definition \in Seq(Step)
    /\ at \in {"check", "collect", "visit", "scan", "replay", "done"}
    /\ ready \in Seq(Known)
    /\ visited \in Seq(Known)
    /\ at \in {"collect", "visit", "scan"} =>
          dependencies \in [Known -> SUBSET Known]
    /\ current \in Known \cup {NoId}
    /\ index \in 1 .. Len(definition) + 1
    /\ verdict \in Verdict /\ replay \in Verdict
    /\ replayed \subseteq Known

-----------------------------------------------------------------------------
(* validate_graph *)

\* Unique ids, unique, known dependencies, none of a step on itself.
Check ==
    /\ at = "check"
    /\ IF WellFormed
       THEN /\ at' = "collect"
            /\ dependencies' = Graph
            /\ UNCHANGED verdict
       ELSE /\ at' = "replay"
            /\ verdict' = "rejected"
            /\ UNCHANGED dependencies
    /\ UNCHANGED <<definition, ready, visited, current, index, replayVars>>

\* ready = [id for id in ids if not dependencies[id]]
Collect ==
    /\ at = "collect"
    /\ IF index <= Len(definition)
       THEN /\ ready' = IF dependencies[Ids[index]] = {}
                        THEN Append(ready, Ids[index]) ELSE ready
            /\ index' = index + 1
            /\ UNCHANGED at
       ELSE /\ at' = "visit"
            /\ index' = 1
            /\ UNCHANGED ready
    /\ UNCHANGED <<definition, visited, dependencies, current, verdict, replayVars>>

\* The head of the while loop: the next step, or the final comparison.
Visit ==
    /\ at = "visit"
    /\ IF ready # <<>>
       THEN /\ current' = Head(ready)
            /\ ready' = Tail(ready)
            /\ visited' = Append(visited, Head(ready))
            /\ at' = "scan"
            /\ UNCHANGED verdict
       ELSE /\ verdict' = IF Len(visited) = Len(definition)
                          THEN "accepted" ELSE "rejected"
            /\ at' = "replay"
            /\ UNCHANGED <<current, ready, visited>>
    /\ UNCHANGED <<definition, dependencies, index, replayVars>>

\* Plausible bug: a step is ready as soon as one of its dependencies is.
ReadyAfterOne ==
    /\ at = "scan" /\ index <= Len(definition)
    /\ LET c == Ids[index] IN
         ready' = IF /\ current \in dependencies[c]
                     /\ c \notin Elements(visited) \cup Elements(ready)
                  THEN Append(ready, c) ELSE ready
    /\ dependencies' = [dependencies EXCEPT ![Ids[index]] = @ \ {current}]
    /\ index' = index + 1
    /\ UNCHANGED <<definition, at, visited, current, verdict, replayVars>>

\* One candidate of the for loop.
Scan ==
    /\ at = "scan" /\ index <= Len(definition)
    /\ LET c == Ids[index] IN
         ready' = IF /\ current \in dependencies[c]
                     /\ dependencies[c] \subseteq {current}
                     /\ c \notin Elements(visited) \cup Elements(ready)
                  THEN Append(ready, c) ELSE ready
    /\ dependencies' = [dependencies EXCEPT ![Ids[index]] = @ \ {current}]
    /\ index' = index + 1
    /\ UNCHANGED <<definition, at, visited, current, verdict, replayVars>>

\* Plausible bug: the walk starts with the first candidate once only.
EndScanKeepingIndex ==
    /\ at = "scan" /\ index > Len(definition)
    /\ at' = "visit"
    /\ UNCHANGED <<definition, ready, visited, dependencies, current, index,
                   verdict, replayVars>>

EndScan ==
    /\ at = "scan" /\ index > Len(definition)
    /\ at' = "visit"
    /\ index' = 1
    /\ UNCHANGED <<definition, ready, visited, dependencies, current, verdict,
                   replayVars>>

-----------------------------------------------------------------------------
(* _validate_definitions *)

\* Plausible bug: a step may be replayed after any step it depends on.
SomeReplayed(c) == Graph[c] = {} \/ Graph[c] \cap replayed # {}

\* remaining[step_id] <= visited
Replayable(c) == Graph[c] \subseteq replayed

\* Plausible bug: the first step is taken again and again.
FreeSteps == {i \in DOMAIN definition : Replayable(Ids[i])}

\* The list `ready` of the reducer: positions of steps that can come next.
Candidates ==
    {i \in DOMAIN definition : Ids[i] \notin replayed /\ Replayable(Ids[i])}

\* Takes the first step that is not visited and waits for nothing.  The order
\* of the positions and the operation keys are right by the way the API
\* materializes a definition.
Replay ==
    /\ at = "replay"
    /\ IF ~ WellFormed
       THEN replay' = "rejected" /\ at' = "done" /\ UNCHANGED replayed
       ELSE \/ /\ replayed = Known
               /\ replay' = "accepted" /\ at' = "done"
               /\ UNCHANGED replayed
            \/ /\ replayed # Known /\ Candidates = {}
               /\ replay' = "rejected" /\ at' = "done"
               /\ UNCHANGED replayed
            \/ \E i \in Candidates :
                  /\ replayed # Known
                  /\ \A j \in Candidates : i <= j
                  /\ replayed' = replayed \cup {Ids[i]}
                  /\ UNCHANGED <<at, replay>>
    /\ UNCHANGED <<definition, apiVars>>

Next == Check \/ Collect \/ Visit \/ Scan \/ EndScan \/ Replay

\* Both are plain loops: they go on until they return or raise.
Spec == Init /\ [][Next]_definitionVars /\ WF_definitionVars(Next)

-----------------------------------------------------------------------------
(* Properties. *)

\* A set of steps that wait for each other: none of them can be the first.
Stuck(S) == S # {} /\ \A c \in S : Graph[c] \cap S # {}

\* "Reject dependency graphs that cannot finish": the API accepts exactly the
\* well-formed definitions in which no steps wait for each other.
VerdictIsRight ==
    /\ verdict = "accepted" =>
          WellFormed /\ \A S \in SUBSET Known : ~ Stuck(S)
    /\ verdict = "rejected" =>
          ~ WellFormed \/ \E S \in SUBSET Known : Stuck(S)

\* The list `visited` is an order in which the steps can be executed, and no
\* step is twice in it: counting its length is enough.
VisitedInOrder ==
    /\ IsUnique(visited)
    /\ \A i \in DOMAIN visited :
          Graph[visited[i]] \subseteq {visited[j] : j \in 1 .. i - 1}

\* The reducer accepts exactly what the API has accepted, so that no accepted
\* run has a history that cannot be replayed for its definition.
ReplayAgrees == at = "done" => replay = verdict

\* Both loops end on every definition, cyclic ones included.
ValidationEnds == <>(at = "done")
=============================================================================
