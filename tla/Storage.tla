------------------------------- MODULE Storage -------------------------------
(***************************************************************************)
(* engine.db (crashsafe/storage.py): the durable queue, the leases, the    *)
(* cooldowns and the append-only history of every workflow run.            *)
(*                                                                         *)
(* Every operation is one BEGIN IMMEDIATE transaction, hence one action on *)
(* the tables.  Operations read the wall clock into `now` before they get  *)
(* the write lock and _require_lease reads it again inside, so `now` may   *)
(* be older than `clock`.  Processes share one host and one clock.         *)
(*                                                                         *)
(* 0 stands for SQL NULL: no deadline, no output; token 0 is "no lease     *)
(* row", cooldown 0 is "no tool_throttles row".  An operation that raises  *)
(* or returns without writing leaves every table alone; it is a step of    *)
(* its caller, never of this module.                                       *)
(***************************************************************************)
EXTENDS Operations, Naturals, Sequences

CONSTANTS
    Run,            \* workflow runs
    RunOf,          \* the run of a step
    DependsOn,      \* the steps a step depends on (table step_dependencies)
    Position,       \* a step's place in the definition
    ToolName,       \* tool_key values
    ToolOf,         \* the tool_key of a step
    Worker,         \* owner ids
    NoWorker,       \* owner of a run nobody has ever claimed
    LeaseTtl,       \* CRASHSAFE_LEASE_TTL, in ticks
    MaxLag,         \* bound: ticks a transaction may wait for the write lock
    MaxTime,        \* bound: last tick
    AttemptCap      \* bound: attempts of one step

StorageAssumption ==
    /\ RunOf \in [Key -> Run]
    /\ \A r \in Run : \E k \in Key : RunOf[k] = r  \* a run has steps
    /\ DependsOn \in [Key -> SUBSET Key]
    /\ \A k \in Key : \A d \in DependsOn[k] : RunOf[d] = RunOf[k]
    /\ Position \in [Key -> Nat]
    /\ ToolOf \in [Key -> ToolName]
    /\ NoWorker \notin Worker
    /\ LeaseTtl \in Nat \ {0}
    /\ MaxLag \in Nat /\ MaxTime \in Nat /\ AttemptCap \in Nat

ASSUME StorageAssumption

VARIABLES
    runs,       \* workflow_runs: status and created_at
    steps,      \* steps: scheduling state, deadline, error, output
    leases,     \* workflow_run_leases
    throttles,  \* tool_throttles: blocked_until
    events,     \* workflow_run_events, in sequence order
    clock       \* utc_now()

tables == <<runs, steps, leases, throttles, events>>
storageVars == <<runs, steps, leases, throttles, events, clock>>

-----------------------------------------------------------------------------
(* Rows. *)

Runnable == {"pending", "intent_recorded", "retry_wait"}
StepStatus == Runnable \cup {"completed", "failed"}
RunStatus == {"absent", "running", "completed", "failed"}

\* Errors the engine records; "none" is NULL.
Error == {"transport", "throttled", "error", "conflict", "rejected", "exhausted"}

NewRun == [status |-> "absent", createdAt |-> 0]
NewStep == [status |-> "pending", attempts |-> 0, nextAt |-> 0,
            error |-> "none", output |-> 0]
NoLease == [owner |-> NoWorker, token |-> 0, expires |-> 0]

RunRow == [status : RunStatus, createdAt : Nat]
StepRow == [status : StepStatus, attempts : Nat, nextAt : Nat,
            error : Error \cup {"none"}, output : Nat]
LeaseRow == [owner : Worker \cup {NoWorker}, token : Nat, expires : Nat]

Event ==
    [type : {"WorkflowRunCreated", "WorkflowRunCompleted"}, at : Nat]
    \cup [type : {"StepAttemptStarted"}, key : Key, attempt : Nat,
          owner : Worker, token : Nat, at : Nat]
    \cup [type : {"StepRetryScheduled"}, key : Key, attempt : Nat,
          error : Error, until : Nat, at : Nat]
    \cup [type : {"StepCompleted"}, key : Key, attempt : Nat,
          output : Nat \ {0}, at : Nat]
    \cup [type : {"StepFailed"}, key : Key, attempt : Nat,
          error : Error, at : Nat]
    \cup [type : {"WorkflowRunFailed"}, key : Key, error : Error, at : Nat]

StorageTypeOK ==
    /\ runs \in [Run -> RunRow]
    /\ steps \in [Key -> StepRow]
    /\ leases \in [Run -> LeaseRow]
    /\ throttles \in [ToolName -> Nat]
    /\ events \in [Run -> Seq(Event)]
    /\ clock \in Nat

StorageInit ==
    /\ runs = [r \in Run |-> NewRun]
    /\ steps = [k \in Key |-> NewStep]
    /\ leases = [r \in Run |-> NoLease]
    /\ throttles = [t \in ToolName |-> 0]
    /\ events = [r \in Run |-> <<>>]
    /\ clock = 1

\* Readings of the clock a transaction that commits now may have taken.
Recent == {t \in 1 .. clock : clock <= t + MaxLag}

\* Plausible bug: the newer deadline wins, even a shorter one.
Newer(s, t) == t

\* MAX(tool_throttles.blocked_until, excluded.blocked_until)
Later(s, t) == IF s < t THEN t ELSE s

StepsOf(r) == {k \in Key : RunOf[k] = r}

\* Plausible bug: a dependency that has been attempted counts as satisfied.
DependenciesAttempted(k) ==
    \A d \in DependsOn[k] : steps[d].status # "pending"

\* No row of step_dependencies leads to a step that is not completed.
DependenciesCompleted(k) ==
    \A d \in DependsOn[k] : steps[d].status = "completed"

\* _append_event: sequence numbers are positions in the sequence.
AppendEvents(r, es) == events' = [events EXCEPT ![r] = @ \o es]

-----------------------------------------------------------------------------
(* Leases. *)

\* Plausible bug: the retry deadline is not part of the WHERE clause.
EligibleBeforeDeadline(k, now) ==
    /\ runs[RunOf[k]].status = "running"
    /\ steps[k].status \in Runnable
    /\ throttles[ToolOf[k]] <= now
    /\ leases[RunOf[k]].expires <= now
    /\ DependenciesCompleted(k)

\* WHERE clause of _select_runnable.
Eligible(k, now) ==
    /\ runs[RunOf[k]].status = "running"
    /\ steps[k].status \in Runnable
    /\ steps[k].nextAt <= now
    /\ throttles[ToolOf[k]] <= now
    /\ leases[RunOf[k]].expires <= now
    /\ DependenciesCompleted(k)

\* ORDER BY w.created_at, s.position; equal rows come in any order.
Before(j, k) ==
    LET cj == runs[RunOf[j]].createdAt
        ck == runs[RunOf[k]].createdAt
    IN  cj < ck \/ (cj = ck /\ Position[j] < Position[k])

SelectRunnable(now) ==
    {k \in Key : Eligible(k, now)
                 /\ \A j \in Key : Eligible(j, now) => ~ Before(j, k)}

\* Plausible bug: a takeover keeps the token.
ClaimWithOldToken(w, k, now) ==
    /\ k \in SelectRunnable(now)
    /\ leases' = [leases EXCEPT ![RunOf[k]] =
            [owner |-> w, token |-> Later(leases[RunOf[k]].token, 1),
             expires |-> now + LeaseTtl]]
    /\ UNCHANGED <<runs, steps, throttles, events>>

\* claim_runnable_step: a new row starts at token 1, a takeover adds 1.
ClaimRunnableStep(w, k, now) ==
    /\ k \in SelectRunnable(now)
    /\ leases' = [leases EXCEPT ![RunOf[k]] =
            [owner |-> w, token |-> leases[RunOf[k]].token + 1,
             expires |-> now + LeaseTtl]]
    /\ UNCHANGED <<runs, steps, throttles, events>>

\* Plausible bug: tokens are taken to be unique within a run.
OwnsByToken(r, w, token) == leases[r].token = token

\* WHERE run_id = ? AND owner_id = ? AND fence_token = ?
Owns(r, w, token) == leases[r].owner = w /\ leases[r].token = token

\* renew_lease: rowcount 0 when the lease moved on or has run out.
RenewLease(r, w, token, now) ==
    /\ leases' = IF Owns(r, w, token) /\ leases[r].expires > now
                 THEN [leases EXCEPT ![r].expires = now + LeaseTtl]
                 ELSE leases
    /\ UNCHANGED <<runs, steps, throttles, events>>

\* Plausible bug: the row is deleted, and with it the last token.
ReleaseDeletingRow(r, w, token, now) ==
    /\ leases' = IF Owns(r, w, token)
                 THEN [leases EXCEPT ![r] = NoLease]
                 ELSE leases
    /\ UNCHANGED <<runs, steps, throttles, events>>

\* release_lease: compares owner and token, not the expiry.
ReleaseLease(r, w, token, now) ==
    /\ leases' = IF Owns(r, w, token)
                 THEN [leases EXCEPT ![r].expires = now]
                 ELSE leases
    /\ UNCHANGED <<runs, steps, throttles, events>>

\* Plausible bug: the run has some live lease, no matter whose.
SomeLiveLease(k, w, token) == leases[RunOf[k]].expires > clock

\* _require_lease: reads the clock inside the transaction.
RequireLease(k, w, token) ==
    Owns(RunOf[k], w, token) /\ leases[RunOf[k]].expires > clock

-----------------------------------------------------------------------------
(* Transitions: each commits its events together with the rows they change. *)

\* create_workflow_run: the definition, every step and the first event.
CreateWorkflowRun(r, now) ==
    /\ runs[r].status = "absent"
    /\ runs' = [runs EXCEPT ![r] = [status |-> "running", createdAt |-> now]]
    /\ steps' = [k \in Key |-> IF RunOf[k] = r THEN NewStep ELSE steps[k]]
    /\ AppendEvents(r, <<[type |-> "WorkflowRunCreated", at |-> now]>>)
    /\ UNCHANGED <<leases, throttles>>

\* The UPDATE steps statements of the four transitions.
IntentRow(row) ==
    [status |-> "intent_recorded", attempts |-> row.attempts + 1,
     nextAt |-> 0, error |-> "none", output |-> row.output]
RetryRow(row, e, until) ==
    [status |-> "retry_wait", attempts |-> row.attempts,
     nextAt |-> until, error |-> e, output |-> row.output]
FailedRow(row, e) ==
    [status |-> "failed", attempts |-> row.attempts,
     nextAt |-> row.nextAt, error |-> e, output |-> row.output]
CompletedRow(row, result) ==
    [status |-> "completed", attempts |-> row.attempts,
     nextAt |-> 0, error |-> "none", output |-> result]

\* record_attempt: the write-ahead intent.
RecordAttempt(k, w, token, now) ==
    /\ RequireLease(k, w, token)
    /\ steps[k].status \in Runnable
    /\ DependenciesCompleted(k)
    /\ steps' = [steps EXCEPT ![k] = IntentRow(steps[k])]
    /\ AppendEvents(RunOf[k],
            <<[type |-> "StepAttemptStarted", key |-> k,
               attempt |-> steps[k].attempts + 1,
               owner |-> w, token |-> token, at |-> now]>>)
    /\ UNCHANGED <<runs, leases, throttles>>

\* Plausible bug: only the lease is checked, not the step's status.
LeaseIsEnough(k, w, token) == RequireLease(k, w, token)

\* _require_active_attempt, and complete_step's own two tests.
ActiveAttempt(k, w, token) ==
    /\ RequireLease(k, w, token)
    /\ steps[k].status = "intent_recorded"

\* schedule_retry: event, deadline and, after a 429, the shared cooldown.
ScheduleRetry(k, w, token, error, until, throttleTool, now) ==
    /\ ActiveAttempt(k, w, token)
    /\ AppendEvents(RunOf[k],
            <<[type |-> "StepRetryScheduled", key |-> k,
               attempt |-> steps[k].attempts,
               error |-> error, until |-> until, at |-> now]>>)
    /\ steps' = [steps EXCEPT ![k] = RetryRow(steps[k], error, until)]
    /\ throttles' = IF throttleTool
                    THEN [throttles EXCEPT ![ToolOf[k]] =
                                         Later(throttles[ToolOf[k]], until)]
                    ELSE throttles
    /\ UNCHANGED <<runs, leases>>

\* fail_step: the failed step and the failed run in one commit.
FailStep(k, w, token, error, now) ==
    /\ ActiveAttempt(k, w, token)
    /\ AppendEvents(RunOf[k],
            <<[type |-> "StepFailed", key |-> k,
               attempt |-> steps[k].attempts, error |-> error, at |-> now],
              [type |-> "WorkflowRunFailed", key |-> k,
               error |-> error, at |-> now]>>)
    /\ steps' = [steps EXCEPT ![k] = FailedRow(steps[k], error)]
    /\ runs' = [runs EXCEPT ![RunOf[k]].status = "failed"]
    /\ UNCHANGED <<leases, throttles>>

\* Plausible bug: the count is taken before the step's own update.
LastStepBeforeUpdate(k) ==
    \A j \in StepsOf(RunOf[k]) : steps[j].status = "completed"

\* COUNT(*) of the run's steps still not completed, once k is.
LastStep(k) ==
    \A j \in StepsOf(RunOf[k]) \ {k} : steps[j].status = "completed"

\* Plausible bug: the event restates the row's old output.
CompleteWithOldOutput(k, w, token, output, now) ==
    /\ ActiveAttempt(k, w, token)
    /\ steps' = [steps EXCEPT ![k] = CompletedRow(steps[k], output)]
    /\ AppendEvents(RunOf[k],
            <<[type |-> "StepCompleted", key |-> k,
               attempt |-> steps[k].attempts,
               output |-> steps[k].output, at |-> now]>>)
    /\ UNCHANGED <<runs, leases, throttles>>

\* complete_step: the last one completes the run in the same commit.
CompleteStep(k, w, token, output, now) ==
    /\ ActiveAttempt(k, w, token)
    /\ steps' = [steps EXCEPT ![k] = CompletedRow(steps[k], output)]
    /\ LET done == [type |-> "StepCompleted", key |-> k,
                    attempt |-> steps[k].attempts,
                    output |-> output, at |-> now]
           end  == [type |-> "WorkflowRunCompleted", at |-> now]
       IN  IF LastStep(k)
           THEN /\ AppendEvents(RunOf[k], <<done, end>>)
                /\ runs' = [runs EXCEPT ![RunOf[k]].status = "completed"]
           ELSE /\ AppendEvents(RunOf[k], <<done>>)
                /\ UNCHANGED runs
    /\ UNCHANGED <<leases, throttles>>

-----------------------------------------------------------------------------
(* Properties. *)

\* Nothing follows a terminal event: once a run has completed or failed, no
\* late result, retry or takeover changes its row, its steps or its history.
TerminalIsFinal ==
    [][\A r \in Run : runs[r].status \in {"completed", "failed"} =>
         /\ runs'[r] = runs[r]
         /\ events'[r] = events[r]
         /\ \A k \in StepsOf(r) : steps'[k] = steps[k]]_storageVars

\* Every 429 deadline recorded in any run's history is still covered by the
\* shared cooldown of the tool: a later, shorter Retry-After does not cut it.
CooldownRemembered ==
    \A r \in Run : \A i \in DOMAIN events[r] :
        (events[r][i].type = "StepRetryScheduled"
            /\ events[r][i].error = "throttled")
        => events[r][i].until <= throttles[ToolOf[events[r][i].key]]
=============================================================================
