------------------------------- MODULE History -------------------------------
(***************************************************************************)
(* The strict reducer (crashsafe/history.py): it folds the events of a run *)
(* into the projection and rejects a history that no legal sequence of     *)
(* transitions writes.                                                     *)
(*                                                                         *)
(* A projection is a run row together with the rows of its steps.  A       *)
(* rejected history (HistoryIntegrityError) reduces to Rejected.  Sequence *)
(* numbers are positions here, so gaps cannot occur, and an event has the  *)
(* step and attempt its type requires by the way it is written.            *)
(***************************************************************************)
EXTENDS Storage

Rejected == [accepted |-> FALSE, run |-> NewRun, steps |-> <<>>]

\* WorkflowRunCreated: first and only creation.
ReduceCreated(p, r, e) ==
    IF p.run.status = "absent"
    THEN [accepted |-> TRUE,
          run |-> [status |-> "running", createdAt |-> e.at],
          steps |-> [k \in StepsOf(r) |-> NewStep]]
    ELSE Rejected

\* An attempt starts from a runnable state, counts up by one, and only when
\* the step's dependencies are completed.
AttemptIsLegal(p, e) ==
    LET step == p.steps[e.key]
    IN  /\ step.status \in Runnable
        /\ e.attempt = step.attempts + 1
        /\ \A d \in DependsOn[e.key] : p.steps[d].status = "completed"

\* _require_current_attempt
CurrentAttempt(p, e) ==
    /\ p.steps[e.key].status = "intent_recorded"
    /\ p.steps[e.key].attempts = e.attempt

\* The step's new row, for events that the step's state allows.
ReduceStep(p, e, legal, row) ==
    IF legal THEN [p EXCEPT !.steps[e.key] = row] ELSE Rejected

\* A run ends only when the steps say so.
ReduceEnd(p, legal, status) ==
    IF legal THEN [accepted |-> TRUE,
                   run |-> [status |-> status, createdAt |-> p.run.createdAt],
                   steps |-> p.steps]
             ELSE Rejected

ReduceStepEvent(p, e) ==
    LET step == p.steps[e.key] IN
    CASE e.type = "StepAttemptStarted" ->
            ReduceStep(p, e, AttemptIsLegal(p, e),
                [status |-> "intent_recorded", attempts |-> e.attempt,
                 nextAt |-> 0, error |-> "none", output |-> step.output])
      [] e.type = "StepRetryScheduled" ->
            ReduceStep(p, e, CurrentAttempt(p, e),
                [status |-> "retry_wait", attempts |-> step.attempts,
                 nextAt |-> e.until, error |-> e.error,
                 output |-> step.output])
      [] e.type = "StepCompleted" ->
            ReduceStep(p, e, CurrentAttempt(p, e),
                [status |-> "completed", attempts |-> step.attempts,
                 nextAt |-> 0, error |-> "none", output |-> e.output])
      [] e.type = "StepFailed" ->
            ReduceStep(p, e, CurrentAttempt(p, e),
                [status |-> "failed", attempts |-> step.attempts,
                 nextAt |-> 0, error |-> e.error, output |-> step.output])

\* The tests come in this order.
ReduceEvent(r, p, e) ==
    IF ~ p.accepted THEN Rejected
    ELSE IF e.type = "WorkflowRunCreated" THEN ReduceCreated(p, r, e)
    ELSE IF p.run.status # "running" THEN Rejected
    ELSE IF e.type = "WorkflowRunCompleted"
    THEN ReduceEnd(p, \A k \in StepsOf(r) : p.steps[k].status = "completed",
                   "completed")
    ELSE IF e.type = "WorkflowRunFailed"
    THEN ReduceEnd(p, /\ p.steps[e.key].status = "failed"
                      /\ p.steps[e.key].error = e.error,
                   "failed")
    ELSE ReduceStepEvent(p, e)

\* What the reducer requires of the whole history, after the last event: a
\* failed step, or no step left to complete, comes with the run's own event.
Settled(p) ==
    p.run.status = "running" =>
        /\ \A k \in DOMAIN p.steps : p.steps[k].status # "failed"
        /\ \E k \in DOMAIN p.steps : p.steps[k].status # "completed"

Unreduced == [accepted |-> TRUE, run |-> NewRun, steps |-> <<>>]

\* The reducer's loop: what it holds after the n-th event.
Reduced(r, history) ==
    LET reduced[n \in 0 .. Len(history)] ==
          IF n = 0 THEN Unreduced ELSE ReduceEvent(r, reduced[n - 1], history[n])
    IN  reduced

\* reduce_workflow_run_history, over a non-empty history.
ReduceHistory(r, history) ==
    LET p == Reduced(r, history)[Len(history)]
    IN  IF p.accepted /\ Settled(p) THEN p ELSE Rejected

\* The rows readers and the scheduler use (get_workflow_run).
Projection(r) ==
    [accepted |-> TRUE, run |-> runs[r], steps |-> [k \in StepsOf(r) |-> steps[k]]]

-----------------------------------------------------------------------------
\* History is the truth and the rows are an index of it: in every state the
\* strict reducer accepts every run's history and yields exactly the rows
\* (projection_matches_history), whoever wrote them in whatever order.
ProjectionMatchesHistory ==
    \A r \in Run : runs[r].status # "absent" =>
        ReduceHistory(r, events[r]) = Projection(r)
=============================================================================
