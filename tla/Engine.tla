------------------------------- MODULE Engine -------------------------------
(***************************************************************************)
(* The workers (crashsafe/engine.py) over engine.db and the tool: run_once *)
(* as a sequence of transactions and one HTTP call, with the heartbeat     *)
(* thread, crashes and other workers between any two of them.              *)
(*                                                                         *)
(*   idle --claim--> claimed --record_attempt--> intent --POST--> sent     *)
(*     sent --complete_step / schedule_retry / fail_step--> settled        *)
(*     settled --heartbeat.stop, release_lease--> idle                     *)
(*                                                                         *)
(* A request is numbered by the attempt that sends it.  A step that raises *)
(* LeaseLostError goes to settled without writing.  A crash loses all but  *)
(* the two databases; the slot's replacement has the same owner id.        *)
(***************************************************************************)
EXTENDS Storage, Tool

CONSTANTS
    Request,        \* the request of a step, fixed when the run is created
    MaxAttempts,    \* CRASHSAFE_MAX_ATTEMPTS
    Backoff,        \* delay after the n-th attempt without Retry-After
    RetryAfters,    \* Retry-After values of 429 answers
    MaxLate,        \* bound: heartbeats outliving stop(), per worker (0 or 1)
    NoKey, NoRun    \* neither a step nor a run

EngineAssumption ==
    /\ Request \in [Key -> Payload]
    /\ MaxAttempts \in Nat
    /\ Backoff \in [1 .. MaxAttempts -> Nat]
    /\ RetryAfters \subseteq Nat
    /\ MaxLate \in {0, 1}
    /\ NoKey \notin Key /\ NoRun \notin Run

ASSUME EngineAssumption

VARIABLES
    pc,         \* where run_once is
    claim,      \* its ClaimedStep: key, fence token, attempt once recorded
    since,      \* earliest clock reading the worker's next operation may hold
    late        \* a heartbeat waiting for the write lock after stop() gave up

workerVars == <<pc, claim, since, late>>
vars == <<runs, steps, leases, throttles, events, clock,
          results, effects, calls, open, replies,
          pc, claim, since, late>>

NoClaim == [key |-> NoKey, token |-> 0, attempt |-> 0]
NoBeat == [run |-> NoRun, token |-> 0, at |-> 0]

Location == {"idle", "claimed", "intent", "sent", "settled"}
Claim == [key : Key, token : Nat \ {0}, attempt : Nat]
Beat == [run : Run, token : Nat \ {0}, at : Nat]

WorkerTypeOK ==
    /\ pc \in [Worker -> Location]
    /\ claim \in [Worker -> Claim \cup {NoClaim}]
    /\ \A w \in Worker : pc[w] = "idle" <=> claim[w] = NoClaim
    /\ \A w \in Worker : pc[w] \in {"intent", "sent"} => claim[w].attempt > 0
    /\ since \in [Worker -> Nat]
    /\ late \in [Worker -> Beat \cup {NoBeat}]

TypeOK == StorageTypeOK /\ ToolTypeOK /\ WorkerTypeOK

Init ==
    /\ StorageInit
    /\ ToolInit
    /\ pc = [w \in Worker |-> "idle"]
    /\ claim = [w \in Worker |-> NoClaim]
    /\ since = [w \in Worker |-> 1]
    /\ late = [w \in Worker |-> NoBeat]

\* Clock readings the next transaction of w's main thread may carry.
Reading(w) == {t \in Recent : since[w] <= t}

\* Worker w goes on from here; its next reading is not older than this step.
Goto(w, place) ==
    /\ pc' = [pc EXCEPT ![w] = place]
    /\ since' = [since EXCEPT ![w] = clock]

Stay(w, place) == Goto(w, place) /\ UNCHANGED <<claim, late>>

Holds(w) == RequireLease(claim[w].key, w, claim[w].token)

-----------------------------------------------------------------------------
(* The API process: POST /workflow_runs. *)

Submit(r) ==
    /\ \E now \in Recent : CreateWorkflowRun(r, now)
    /\ UNCHANGED <<clock, toolVars, workerVars>>

-----------------------------------------------------------------------------
(* WorkflowEngine.run_once. *)

\* claim_runnable_step; without an eligible step the worker polls again.
ClaimStep(w) ==
    /\ pc[w] = "idle"
    /\ \E now \in Reading(w), k \in Key :
          /\ steps[k].attempts < AttemptCap
          /\ ClaimRunnableStep(w, k, now)
          /\ claim' = [claim EXCEPT ![w] =
                [key |-> k, token |-> leases'[RunOf[k]].token, attempt |-> 0]]
    /\ Goto(w, "claimed")
    /\ UNCHANGED <<clock, toolVars, late>>

\* record_attempt, then the heartbeat starts.
Record(w) ==
    /\ pc[w] = "claimed"
    /\ \E now \in Reading(w) :
          RecordAttempt(claim[w].key, w, claim[w].token, now)
    /\ claim' = [claim EXCEPT ![w].attempt = steps'[claim[w].key].attempts]
    /\ Goto(w, "intent")
    /\ UNCHANGED <<clock, toolVars, late>>

\* The lease ran out between the claim and record_attempt.
RecordTooLate(w) ==
    /\ pc[w] = "claimed"
    /\ ~ Holds(w)
    /\ Stay(w, "settled")
    /\ UNCHANGED <<storageVars, toolVars>>

\* Plausible bug: the request may leave before the intent is recorded.
SendUnrecorded(w) ==
    /\ pc[w] \in {"claimed", "intent"}
    /\ Invoke(claim[w].key, claim[w].attempt, Request[claim[w].key])
    /\ Stay(w, "sent")
    /\ UNCHANGED storageVars

\* gateway.execute: the request leaves; no transaction is open meanwhile.
Send(w) ==
    /\ pc[w] = "intent"
    /\ Invoke(claim[w].key, claim[w].attempt, Request[claim[w].key])
    /\ Stay(w, "sent")
    /\ UNCHANGED storageVars

\* gateway.execute returns or raises: an answer has come, or the transport
\* failed, which it may do at any time, whatever the tool has done so far.
Answered(w, outcomes) ==
    {r \in replies : /\ r.key = claim[w].key
                     /\ r.id = claim[w].attempt
                     /\ r.outcome \in outcomes}

Failures(w) ==
    {"transport"} \cup {r.outcome : r \in Answered(w, Outcome \ {"ok"})}

HangUp(w) == Close(claim[w].key, claim[w].attempt)

\* Plausible bug: any answer counts as success.
CompleteOnAnyAnswer(w) ==
    /\ pc[w] = "sent"
    /\ \E r \in Answered(w, Outcome), now \in Reading(w) :
          CompleteStep(claim[w].key, w, claim[w].token, r.ref, now)
    /\ HangUp(w)
    /\ Stay(w, "settled")
    /\ UNCHANGED clock

Complete(w) ==
    /\ pc[w] = "sent"
    /\ \E r \in Answered(w, {"ok"}), now \in Reading(w) :
          CompleteStep(claim[w].key, w, claim[w].token, r.ref, now)
    /\ HangUp(w)
    /\ Stay(w, "settled")
    /\ UNCHANGED clock

Retryable == {"transport", "throttled", "error"}
Permanent == {"conflict", "rejected"}

\* Retry-After when the 429 carries one, else the backoff of the attempt.
Delays(error, attempt) ==
    {Backoff[attempt]} \cup (IF error = "throttled" THEN RetryAfters ELSE {})

\* _handle_retryable_failure: two clock readings, the first for the deadline.
Retry(w) ==
    /\ pc[w] = "sent"
    /\ claim[w].attempt < MaxAttempts
    /\ \E error \in Failures(w) \cap Retryable :
          \E from, now \in Reading(w), d \in Delays(error, claim[w].attempt) :
             /\ from <= now
             /\ ScheduleRetry(claim[w].key, w, claim[w].token, error,
                              from + d, error = "throttled", now)
    /\ HangUp(w)
    /\ Stay(w, "settled")
    /\ UNCHANGED clock

\* A permanent answer, or the attempt that exhausts the retry budget.
GiveUp(w) ==
    /\ pc[w] = "sent"
    /\ \E now \in Reading(w), failure \in Failures(w) :
          \E error \in Error :
             /\ \/ failure \in Permanent /\ error = failure
                \/ /\ failure \in Retryable \cup {"endless"}
                   /\ claim[w].attempt >= MaxAttempts
                   /\ error = "exhausted"
             /\ FailStep(claim[w].key, w, claim[w].token, error, now)
    /\ HangUp(w)
    /\ Stay(w, "settled")
    /\ UNCHANGED clock

\* The call has ended, but LeaseLostError discards its outcome.
Discard(w) ==
    /\ pc[w] = "sent"
    /\ ~ Holds(w)
    /\ HangUp(w)
    /\ Stay(w, "settled")
    /\ UNCHANGED storageVars

\* A malformed body, or a Retry-After that timedelta cannot hold and that the
\* retry budget does not keep from being used, raises past every handler but
\* the finally clause; the process then ends after its release, and the
\* supervisor replaces it.
Raise(w) ==
    /\ pc[w] = "sent"
    /\ \/ Answered(w, {"malformed"}) # {}
       \/ /\ Answered(w, {"endless"}) # {}
          /\ claim[w].attempt < MaxAttempts
    /\ HangUp(w)
    /\ Stay(w, "settled")
    /\ UNCHANGED storageVars

\* Plausible bug: the worker polls again with the claim it has released.
ReleaseKeepingClaim(w) ==
    /\ pc[w] = "settled"
    /\ \E now \in Reading(w) :
          ReleaseLease(RunOf[claim[w].key], w, claim[w].token, now)
    /\ Goto(w, "idle")
    /\ UNCHANGED <<clock, toolVars, claim, late>>

\* finally: heartbeat.stop joins for a limited time, so that a renewal that
\* already has its reading may commit after release_lease.
Release(w) ==
    /\ pc[w] = "settled"
    /\ \E now \in Reading(w) :
          /\ ReleaseLease(RunOf[claim[w].key], w, claim[w].token, now)
          /\ \/ UNCHANGED late
             \/ /\ late[w] = NoBeat /\ MaxLate = 1 /\ claim[w].attempt > 0
                /\ Owns(RunOf[claim[w].key], w, claim[w].token)
                /\ \E at \in Recent :
                      /\ at < now
                      /\ at + LeaseTtl >= leases[RunOf[claim[w].key]].expires
                      /\ late' = [late EXCEPT ![w] =
                            [run |-> RunOf[claim[w].key],
                             token |-> claim[w].token, at |-> at]]
    /\ claim' = [claim EXCEPT ![w] = NoClaim]
    /\ Goto(w, "idle")
    /\ UNCHANGED <<clock, toolVars>>

-----------------------------------------------------------------------------
(* The heartbeat thread, from record_attempt until stop(). *)

\* One renewal; its reading is not older than the one it renews from.
Renew(w) ==
    /\ pc[w] \in {"intent", "sent", "settled"}
    /\ claim[w].attempt > 0
    /\ \E at \in Recent :
          /\ at + LeaseTtl > leases[RunOf[claim[w].key]].expires
          /\ RenewLease(RunOf[claim[w].key], w, claim[w].token, at)
    /\ UNCHANGED <<clock, toolVars, workerVars>>

\* The renewal stop() did not wait for; it may revive a released lease.
RenewLate(w) ==
    /\ late[w] # NoBeat
    /\ late[w].at \in Recent
    /\ RenewLease(late[w].run, w, late[w].token, late[w].at)
    /\ late' = [late EXCEPT ![w] = NoBeat]
    /\ UNCHANGED <<clock, toolVars, pc, claim, since>>

-----------------------------------------------------------------------------
(* The environment. *)

\* SIGKILL, os._exit, power loss; the replacement starts polling.
Crash(w) ==
    /\ pc[w] # "idle"
    /\ HangUp(w)
    /\ claim' = [claim EXCEPT ![w] = NoClaim]
    /\ late' = [late EXCEPT ![w] = NoBeat]
    /\ Goto(w, "idle")
    /\ UNCHANGED storageVars

\* Time passes; readings no transaction could still carry are forgotten.
Tick ==
    /\ clock < MaxTime
    /\ clock' = clock + 1
    /\ since' = [w \in Worker |->
                    IF since[w] + MaxLag < clock' THEN clock' - MaxLag
                                                  ELSE since[w]]
    /\ UNCHANGED <<tables, toolVars, pc, claim, late>>

ToolStep == Serve /\ UNCHANGED <<storageVars, workerVars>>

RunOnce(w) ==
    \/ ClaimStep(w) \/ Record(w) \/ RecordTooLate(w) \/ Send(w)
    \/ Complete(w) \/ Retry(w) \/ GiveUp(w) \/ Discard(w) \/ Raise(w)
    \/ Release(w)

Heartbeat(w) == Renew(w) \/ RenewLate(w)

Next ==
    \/ \E r \in Run : Submit(r)
    \/ \E w \in Worker : RunOnce(w) \/ Heartbeat(w) \/ Crash(w)
    \/ ToolStep
    \/ Tick

Spec == Init /\ [][Next]_vars

-----------------------------------------------------------------------------
(* Properties. *)

\* A worker whose lease is live works on the truth it captured: while a claim
\* is not recorded its step is still eligible for record_attempt; once it is,
\* the step's row is that very attempt and the attempt is the last event of
\* the run.  So a live owner's result never meets "not runnable", "no active
\* attempt" or complete_step's silent return, however late it comes.
OwnerIsCurrent ==
    \A w \in Worker :
        LET k == claim[w].key IN
        /\ (pc[w] = "claimed" /\ Holds(w)) =>
              /\ runs[RunOf[k]].status = "running"
              /\ steps[k].status \in Runnable
              /\ DependenciesCompleted(k)
        /\ (pc[w] \in {"intent", "sent"} /\ Holds(w)) =>
              /\ runs[RunOf[k]].status = "running"
              /\ steps[k].status = "intent_recorded"
              /\ steps[k].attempts = claim[w].attempt
              /\ LET e == events[RunOf[k]][Len(events[RunOf[k]])]
                 IN  e.type = "StepAttemptStarted" /\ e.key = k

Attempted(k, id) ==
    \E i \in DOMAIN events[RunOf[k]] :
        LET e == events[RunOf[k]][i]
        IN  e.type = "StepAttemptStarted" /\ e.key = k /\ e.attempt = id

\* Write-ahead intent: for every request inside the tool and every effect it
\* has had, history already holds an attempt that may have sent it.
IntentPrecedesEffect ==
    /\ \A c \in calls : Attempted(c.key, c.id)
    /\ \A e \in effects : \E id \in 1 .. steps[e.key].attempts :
            Attempted(e.key, id)

\* The tool performs a step's effect only after the effects of all the steps
\* it depends on: the DAG orders the outside world, not just the rows.
EffectsFollowDependencies ==
    \A k \in Key : results[k] # NoResult =>
        \A d \in DependsOn[k] : results[d] # NoResult

\* A completed step's recorded output is the reference of its one effect in
\* the ledger, whichever attempt was the first to have the effect.
CompletedHasEffect ==
    \A k \in Key : steps[k].status = "completed" =>
        results[k] # NoResult /\ results[k].ref = steps[k].output

Started(r) ==
    {i \in DOMAIN events[r] : events[r][i].type = "StepAttemptStarted"}

\* Every attempt of a run is made under a token of its own, higher than those
\* of all attempts before it: no two workers, and no two terms of one worker,
\* ever record attempts under the same fence.
FenceTokensIncrease ==
    \A r \in Run : \A i, j \in Started(r) :
        i < j => events[r][i].token < events[r][j].token

\* occurred_at never goes back within a run's history, although every reading
\* is taken before the write lock is held.
HistoryTimesMonotone ==
    \A r \in Run : \A i, j \in DOMAIN events[r] :
        i < j => events[r][i].at <= events[r][j].at

\* No attempt is recorded before the deadline that the step's previous attempt
\* scheduled, across crashes and changes of owner.
NoEarlyRetry ==
    \A r \in Run : \A i, j \in DOMAIN events[r] :
        (/\ i < j
         /\ events[r][i].type = "StepRetryScheduled"
         /\ events[r][j].type = "StepAttemptStarted"
         /\ events[r][i].key = events[r][j].key)
        => events[r][j].at >= events[r][i].until

\* The engine with its two databases does what it promises: seen from outside,
\* as effects, completed steps and outcomes of runs, every behaviour of it is
\* one of DurableWorkflow, through crashes, takeovers and repeated requests.
Durable ==
    INSTANCE DurableWorkflow WITH
        outcome <- [r \in Run |-> runs[r].status],
        performed <- {k \in Key : results[k] # NoResult},
        done <- {k \in Key : steps[k].status = "completed"}

ImplementsDurableWorkflow == Durable!DurableSpec

\* "A 429 for workflow A prevents workflow B from calling the same tool before
\* the shared deadline": no request leaves while its tool's cooldown lasts.
\* The code consults the cooldown when it claims, so a worker that holds a
\* claim when another one records a 429 still sends its request.
NoCallDuringCooldown ==
    [][\A w \in Worker :
         (pc[w] = "intent" /\ pc'[w] = "sent") =>
            throttles[ToolOf[claim[w].key]] <= clock]_vars
=============================================================================
