--------------------------- MODULE DurableWorkflow ---------------------------
(***************************************************************************)
(* What the system promises whoever submits a workflow, without leases,    *)
(* retries, workers or time: every step has its effect at most once, after *)
(* the steps it depends on are done; a step is done only after its effect; *)
(* a run is completed exactly when its last step is, and an ended run      *)
(* never changes.  A failed run promises nothing about its failed step:    *)
(* the outcome of the last request may be unknown, and its effect may      *)
(* still happen.                                                           *)
(***************************************************************************)

CONSTANTS
    Key,        \* steps
    Run,        \* workflow runs
    RunOf,      \* the run of a step
    DependsOn   \* the steps a step depends on

VARIABLES
    outcome,    \* per run: absent, running, completed or failed
    performed,  \* steps whose effect has happened
    done        \* steps recorded as completed

durableVars == <<outcome, performed, done>>

DurableInit ==
    /\ outcome = [r \in Run |-> "absent"]
    /\ performed = {}
    /\ done = {}

SubmitRun(r) ==
    /\ outcome[r] = "absent"
    /\ outcome' = [outcome EXCEPT ![r] = "running"]
    /\ UNCHANGED <<performed, done>>

Perform(k) ==
    /\ outcome[RunOf[k]] # "absent"
    /\ k \notin performed
    /\ DependsOn[k] \subseteq done
    /\ performed' = performed \cup {k}
    /\ UNCHANGED <<outcome, done>>

Finish(k) ==
    /\ outcome[RunOf[k]] = "running"
    /\ k \in performed \ done
    /\ done' = done \cup {k}
    /\ outcome' = IF {j \in Key : RunOf[j] = RunOf[k]} \subseteq done'
                  THEN [outcome EXCEPT ![RunOf[k]] = "completed"]
                  ELSE outcome
    /\ UNCHANGED performed

FailRun(r) ==
    /\ outcome[r] = "running"
    /\ outcome' = [outcome EXCEPT ![r] = "failed"]
    /\ UNCHANGED <<performed, done>>

DurableNext ==
    \/ \E r \in Run : SubmitRun(r) \/ FailRun(r)
    \/ \E k \in Key : Perform(k) \/ Finish(k)

DurableSpec == DurableInit /\ [][DurableNext]_durableVars
=============================================================================
