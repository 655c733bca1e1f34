------------------------------- MODULE Rebuild -------------------------------
(***************************************************************************)
(* rebuild_projection (crashsafe/storage.py) beside the running engine.    *)
(*                                                                         *)
(* An operator reduces a run's history on one connection and replaces the  *)
(* run's rows in a later transaction; workers may commit in between.  The  *)
(* lease row goes with the others and is not written again, so that the    *)
(* run's next claim starts at token 1.  Cooldowns are not rebuilt.         *)
(***************************************************************************)
EXTENDS Engine, History

CONSTANTS
    Quiet,          \* nobody writes to the run while it is being rebuilt
    MaxRebuilds     \* bound: calls of rebuild_projection

RebuildAssumption == Quiet \in BOOLEAN /\ MaxRebuilds \in Nat

ASSUME RebuildAssumption

VARIABLES
    snapshot,       \* what the call under way has reduced from history
    rebuilds        \* calls begun

rebuildVars == <<snapshot, rebuilds>>

NoSnapshot == [run |-> NoRun, length |-> 0, rows |-> Rejected]

RebuildInit ==
    /\ snapshot = NoSnapshot
    /\ rebuilds = 0

\* list_events and the reducer; either may raise, and nothing is changed.
ReadHistory(r) ==
    /\ snapshot = NoSnapshot
    /\ rebuilds < MaxRebuilds
    /\ events[r] # <<>>
    /\ ReduceHistory(r, events[r]).accepted
    /\ snapshot' = [run |-> r, length |-> Len(events[r]),
                    rows |-> ReduceHistory(r, events[r])]
    /\ rebuilds' = rebuilds + 1
    /\ UNCHANGED vars

\* The run's rows go, and those given come in their place.
ReplaceBy(rows) ==
    /\ snapshot # NoSnapshot
    /\ Quiet => Len(events[snapshot.run]) = snapshot.length
    /\ runs' = [runs EXCEPT ![snapshot.run] = snapshot.rows.run]
    /\ steps' = [k \in Key |-> IF RunOf[k] = snapshot.run THEN rows[k]
                                                           ELSE steps[k]]
    /\ leases' = [leases EXCEPT ![snapshot.run] = NoLease]
    /\ snapshot' = NoSnapshot
    /\ UNCHANGED <<throttles, events, clock, toolVars, workerVars, rebuilds>>

\* Plausible bug: an attempt without an outcome is forgotten, as its lease is.
ReplaceForgettingIntents ==
    ReplaceBy([k \in DOMAIN snapshot.rows.steps |->
                  IF snapshot.rows.steps[k].status = "intent_recorded"
                  THEN NewStep ELSE snapshot.rows.steps[k]])

\* The transaction that deletes the run's rows and inserts the reduced ones.
ReplaceRows == ReplaceBy(snapshot.rows.steps)

Rebuild == ReplaceRows \/ \E r \in Run : ReadHistory(r)

-----------------------------------------------------------------------------
(* Properties. *)

\* "Completed steps never reopen": history holds no attempt of a step after
\* the completion of that step (README.md, failure modes).  rebuild_projection
\* writes what it read before its transaction began, so a completion that
\* commits in between disappears from the rows and the step is claimed again.
NoAttemptAfterCompletion ==
    \A r \in Run : \A i, j \in DOMAIN events[r] :
        (/\ i < j
         /\ events[r][i].type = "StepCompleted"
         /\ events[r][j].type = "StepAttemptStarted")
        => events[r][i].key # events[r][j].key
=============================================================================
