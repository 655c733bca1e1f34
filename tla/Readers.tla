------------------------------- MODULE Readers -------------------------------
(***************************************************************************)
(* A reader of a run beside the running engine (crashsafe/storage.py):     *)
(* get_workflow_run, which GET /workflow_runs/{run_id}, --until-terminal   *)
(* and the demo poll, and projection_matches_history, which goes on to     *)
(* read the history and reduces it.  A connection outside a transaction    *)
(* sees the last commit anew with every SELECT, so that workers may commit *)
(* between the run's row, its steps' rows and its events.                  *)
(***************************************************************************)
EXTENDS Engine, History

VARIABLES
    asked,      \* the run being read
    seen,       \* the SELECTs of this read that have been made
    view        \* what they have returned

readVars == <<asked, seen, view>>

NoView == [run |-> NewRun, steps |-> <<>>, history |-> <<>>]

ReaderInit ==
    /\ asked = NoRun
    /\ seen = {}
    /\ view = NoView

\* Plausible bug: the steps' rows come from before the run's.
SelectStepsFirst(r) ==
    \/ /\ seen = {}
       /\ runs[r].status # "absent"
       /\ asked' = r
       /\ seen' = {"steps"}
       /\ view' = [NoView EXCEPT !.steps = Projection(r).steps]
       /\ UNCHANGED vars
    \/ /\ seen = {"steps"} /\ asked = r
       /\ seen' = {"run", "steps"}
       /\ view' = [view EXCEPT !.run = runs[r]]
       /\ UNCHANGED <<vars, asked>>

\* SELECT * FROM workflow_runs; a run that does not exist ends the read.
SelectRun(r) ==
    /\ seen = {}
    /\ runs[r].status # "absent"
    /\ asked' = r
    /\ seen' = {"run"}
    /\ view' = [NoView EXCEPT !.run = runs[r]]
    /\ UNCHANGED vars

\* SELECT * FROM steps; the dependencies, read last, never change.
SelectSteps ==
    /\ seen = {"run"}
    /\ seen' = {"run", "steps"}
    /\ view' = [view EXCEPT !.steps = Projection(asked).steps]
    /\ UNCHANGED <<vars, asked>>

\* list_events, for projection_matches_history.
SelectEvents ==
    /\ seen = {"run", "steps"}
    /\ seen' = {"run", "steps", "events"}
    /\ view' = [view EXCEPT !.history = events[asked]]
    /\ UNCHANGED <<vars, asked>>

\* The caller has its answer.
EndRead ==
    /\ "steps" \in seen
    /\ asked' = NoRun
    /\ seen' = {}
    /\ view' = NoView
    /\ UNCHANGED vars

Read == SelectSteps \/ SelectEvents \/ EndRead \/ \E r \in Run : SelectRun(r)

-----------------------------------------------------------------------------
(* Properties. *)

RunEnded == view.run.status \in {"completed", "failed"}

\* "Readers never see a completed run missing its last durable result": what a
\* read returns for an ended run is whole, whatever commits between its SELECTs.
\* A completed run comes with all its results as the tool has them, a failed one
\* with its failed step, and an audit of either finds no difference.  (Of a run
\* that is under way an audit may report one: its SELECTs see different moments.)
EndedRunIsWhole ==
    {"run", "steps"} \subseteq seen /\ RunEnded =>
        /\ \A k \in StepsOf(asked) :
              view.steps[k].status = "completed" =>
                  view.steps[k].output = results[k].ref
        /\ view.run.status = "completed"
              <=> \A k \in StepsOf(asked) : view.steps[k].status = "completed"
        /\ view.run.status = "failed"
              <=> \E k \in StepsOf(asked) : view.steps[k].status = "failed"
        /\ "events" \in seen =>
              ReduceHistory(asked, view.history) =
                  [accepted |-> TRUE, run |-> view.run, steps |-> view.steps]
=============================================================================
