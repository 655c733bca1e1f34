---------------------------- MODULE EngineProofs ----------------------------
(***************************************************************************)
(* Safety of the engine over its two databases, for any number of runs,    *)
(* steps, workers, attempts, requests and ticks: its inductive invariant,  *)
(* that it implements DurableWorkflow, that the rows follow history, and   *)
(* what history tells: its fence tokens rise, its times never go back, no  *)
(* attempt comes before its deadline, and no effect before its intent.     *)
(* Then what those get who read a run, audit it or rebuild it beside the   *)
(* engine, what a rebuild leaves intact that the engine overtakes, and     *)
(* last that the timeline of a run says what its rows and the clock say.   *)
(***************************************************************************)
EXTENDS Operator, Timeline, StorageProofs, ToolProofs

Busy == {"claimed", "intent", "sent"}

\* Between the claim and the end of the call, the step's dependencies are
\* completed and its run exists.
ClaimsAreReady ==
    \A w \in Worker : pc[w] \in Busy =>
        /\ runs[RunOf[claim[w].key]].status # "absent"
        /\ DependenciesCompleted(claim[w].key)

\* So they are for every request inside the tool and every result it saved.
CallsAreReady ==
    \A c \in calls :
        /\ runs[RunOf[c.key]].status # "absent"
        /\ DependenciesCompleted(c.key)

ResultsAreReady ==
    \A k \in Key : results[k] # NoResult =>
        /\ runs[RunOf[k]].status # "absent"
        /\ DependenciesCompleted(k)

\* A run that does not exist has no step that has moved.
AbsentIsNew ==
    \A k \in Key : runs[RunOf[k]].status = "absent" =>
        steps[k].status = "pending"

\* The last event of the step's run is the start of an attempt of the step.
LastIsStart(k) ==
    LET e == events[RunOf[k]][Len(events[RunOf[k]])]
    IN  e.type = "StepAttemptStarted" /\ e.key = k

\* A worker whose owner id and token are still those of the lease row, live
\* or not, knows the state of its step: nobody else has written to the run.
OwnerKnows ==
    \A w \in Worker :
        (pc[w] \in Busy /\ Owns(RunOf[claim[w].key], w, claim[w].token)) =>
            /\ runs[RunOf[claim[w].key]].status = "running"
            /\ pc[w] = "claimed" => steps[claim[w].key].status \in Runnable
            /\ pc[w] # "claimed" =>
                  /\ steps[claim[w].key].status = "intent_recorded"
                  /\ steps[claim[w].key].attempts = claim[w].attempt
                  /\ LastIsStart(claim[w].key)

\* The inductive invariant.
EngineInv ==
    /\ TypeOK
    /\ ToolInv
    /\ ClaimsAreReady
    /\ CallsAreReady
    /\ ResultsAreReady
    /\ AbsentIsNew
    /\ OwnerKnows
    /\ CompletedHasEffect

Assumptions == StorageAssumption /\ ToolAssumption /\ EngineAssumption

-----------------------------------------------------------------------------
(* Types. *)

\* A claim that is not NoClaim is a claim of a step.
LEMMA ClaimIsTyped ==
    ASSUME TypeOK, NEW w \in Worker, pc[w] # "idle"
    PROVE  /\ claim[w] \in Claim
           /\ claim[w].key \in Key
           /\ claim[w].token \in Nat \ {0}
           /\ claim[w].attempt \in Nat
  BY DEF TypeOK, WorkerTypeOK, Claim

LEMMA ReadingIsNat ==
    ASSUME TypeOK, NEW w \in Worker
    PROVE  Reading(w) \subseteq Nat
  BY RecentIsNat DEF TypeOK, Reading

LEMMA RunOfType ==
    ASSUME Assumptions, NEW k \in Key
    PROVE  RunOf[k] \in Run
  BY DEF Assumptions, StorageAssumption

\* A worker that moves on keeps the workers' variables well typed.
LEMMA GotoType ==
    ASSUME TypeOK, NEW w \in Worker, pc[w] # "idle",
           Stay(w, "settled") \/ (pc[w] = "intent" /\ Stay(w, "sent"))
    PROVE  WorkerTypeOK'
  BY DEF TypeOK, WorkerTypeOK, StorageTypeOK, Goto, Stay, Location

LEMMA SubmitType ==
    ASSUME Assumptions, TypeOK, NEW r \in Run, Submit(r)
    PROVE  StorageTypeOK' /\ WorkerTypeOK'
  <1>1. PICK now \in Recent : CreateWorkflowRun(r, now)
    BY DEF Submit
  <1>2. now \in Nat /\ StorageTypeOK
    BY RecentIsNat DEF TypeOK
  <1>3. StorageTypeOK'
    BY <1>1, <1>2, CreateType DEF Submit, Assumptions
  <1>4. WorkerTypeOK'
    BY DEF Submit, TypeOK, WorkerTypeOK, workerVars
  <1>5. QED
    BY <1>3, <1>4

LEMMA ClaimStepType ==
    ASSUME Assumptions, TypeOK, NEW w \in Worker, ClaimStep(w)
    PROVE  StorageTypeOK' /\ WorkerTypeOK'
  <1>1. PICK now \in Reading(w), k \in Key :
            /\ ClaimRunnableStep(w, k, now)
            /\ claim' = [claim EXCEPT ![w] =
                 [key |-> k, token |-> leases'[RunOf[k]].token, attempt |-> 0]]
    BY DEF ClaimStep
  <1>2. now \in Nat /\ StorageTypeOK /\ WorkerTypeOK
    BY ReadingIsNat DEF TypeOK
  <1>3. StorageTypeOK'
    BY <1>1, <1>2, ClaimType DEF ClaimStep, Assumptions
  <1>4. leases'[RunOf[k]].token \in Nat \ {0}
    BY <1>1, <1>2, RunOfType DEF ClaimRunnableStep, StorageTypeOK, LeaseRow
  <1>5. claim'[w] \in Claim /\ claim'[w] # NoClaim
    BY <1>1, <1>2, <1>4 DEF Claim, NoClaim, WorkerTypeOK
  <1>6. WorkerTypeOK'
    BY <1>1, <1>2, <1>5 DEF ClaimStep, WorkerTypeOK, Goto, Location,
                            StorageTypeOK
  <1>7. QED
    BY <1>3, <1>6

LEMMA RecordStepType ==
    ASSUME Assumptions, TypeOK, NEW w \in Worker, Record(w)
    PROVE  StorageTypeOK' /\ WorkerTypeOK'
  <1> DEFINE k == claim[w].key
  <1>1. PICK now \in Reading(w) : RecordAttempt(k, w, claim[w].token, now)
    BY DEF Record
  <1>2. /\ now \in Nat /\ StorageTypeOK /\ WorkerTypeOK
        /\ claim[w] \in Claim /\ k \in Key /\ claim[w].token \in Nat
    BY ReadingIsNat, ClaimIsTyped DEF TypeOK, Record
  <1>3. StorageTypeOK'
    BY <1>1, <1>2, RecordType DEF Record, Assumptions
  <1>4. steps'[k].attempts \in Nat \ {0}
    BY <1>1, <1>2 DEF RecordAttempt, IntentRow, StorageTypeOK, StepRow
  <1>5. /\ claim' = [claim EXCEPT ![w].attempt = steps'[k].attempts]
        /\ pc' = [pc EXCEPT ![w] = "intent"]
        /\ since' = [since EXCEPT ![w] = clock]
        /\ UNCHANGED late /\ pc[w] = "claimed"
    BY DEF Record, Goto
  <1>6. claim'[w] \in Claim /\ claim'[w] # NoClaim /\ claim'[w].attempt > 0
    BY <1>2, <1>4, <1>5 DEF Claim, NoClaim, WorkerTypeOK
  <1>7. WorkerTypeOK'
    BY <1>2, <1>5, <1>6 DEF WorkerTypeOK, Location, StorageTypeOK
  <1>8. QED
    BY <1>3, <1>7

\* A successful answer carries a reference.
LEMMA AnswerIsRef ==
    ASSUME TypeOK, ToolInv, NEW w \in Worker,
           NEW r \in Answered(w, {"ok"})
    PROVE  /\ r.ref \in Nat \ {0}
           /\ results[claim[w].key] # NoResult
           /\ results[claim[w].key].ref = r.ref
  <1>1. r \in replies /\ r.outcome = "ok" /\ r.key = claim[w].key
    BY DEF Answered
  <1>2. results[r.key] # NoResult /\ results[r.key].ref = r.ref /\ r.key \in Key
    BY <1>1 DEF ToolInv, AnswersMatchLedger, ToolTypeOK, Reply
  <1>3. QED
    BY <1>1, <1>2 DEF ToolInv, ToolTypeOK, Result

LEMMA CompleteStepType ==
    ASSUME Assumptions, TypeOK, ToolInv, NEW w \in Worker, Complete(w)
    PROVE  StorageTypeOK' /\ WorkerTypeOK'
  <1>1. PICK r \in Answered(w, {"ok"}), now \in Reading(w) :
            CompleteStep(claim[w].key, w, claim[w].token, r.ref, now)
    BY DEF Complete
  <1>2. /\ now \in Nat /\ StorageTypeOK /\ claim[w].key \in Key
        /\ r.ref \in Nat \ {0}
    BY ReadingIsNat, ClaimIsTyped, AnswerIsRef DEF TypeOK, Complete
  <1>3. StorageTypeOK'
    BY <1>1, <1>2, CompleteType DEF Complete, Assumptions
  <1>4. WorkerTypeOK'
    BY GotoType DEF Complete
  <1>5. QED
    BY <1>3, <1>4

\* The deadline of a retry is an instant: the backoff of the attempt is set,
\* or the answer carries a Retry-After.
LEMMA RetryDeadline ==
    ASSUME Assumptions, TypeOK, NEW w \in Worker, Retry(w)
    PROVE  \E error \in Failures(w) \cap Retryable, until \in Nat,
              now \in Reading(w) :
                 ScheduleRetry(claim[w].key, w, claim[w].token, error, until,
                               error = "throttled", now)
  <1>1. PICK error \in Failures(w) \cap Retryable :
            \E from, now \in Reading(w), d \in Delays(error, claim[w].attempt) :
               ScheduleRetry(claim[w].key, w, claim[w].token, error,
                             from + d, error = "throttled", now)
    BY DEF Retry
  <1>2. PICK from \in Reading(w), now \in Reading(w),
             d \in Delays(error, claim[w].attempt) :
            ScheduleRetry(claim[w].key, w, claim[w].token, error,
                          from + d, error = "throttled", now)
    BY <1>1
  <1>3. claim[w].attempt \in 1 .. MaxAttempts
    BY ClaimIsTyped DEF Retry, TypeOK, WorkerTypeOK, Assumptions,
                        EngineAssumption
  <1>4. d \in Nat /\ from \in Nat
    BY <1>3, ReadingIsNat DEF Delays, Assumptions, EngineAssumption
  <1>5. from + d \in Nat
    BY <1>4
  <1> DEFINE until == from + d
  <1>6. until \in Nat /\ ScheduleRetry(claim[w].key, w, claim[w].token, error,
                                       until, error = "throttled", now)
    BY <1>2, <1>5
  <1> HIDE DEF until
  <1>7. QED
    BY <1>6

LEMMA RetryStepType ==
    ASSUME Assumptions, TypeOK, NEW w \in Worker, Retry(w)
    PROVE  StorageTypeOK' /\ WorkerTypeOK'
  <1>1. PICK error \in Failures(w) \cap Retryable, until \in Nat,
             now \in Reading(w) :
            ScheduleRetry(claim[w].key, w, claim[w].token, error, until,
                          error = "throttled", now)
    BY RetryDeadline
  <1>2. now \in Nat /\ StorageTypeOK /\ claim[w].key \in Key
    BY ReadingIsNat, ClaimIsTyped DEF TypeOK, Retry
  <1>3. error \in Error /\ (error = "throttled") \in BOOLEAN
    BY DEF Retryable, Error
  <1>4. StorageTypeOK'
    BY <1>1, <1>2, <1>3, RetryType DEF Retry, Assumptions
  <1>5. WorkerTypeOK'
    BY GotoType DEF Retry
  <1>6. QED
    BY <1>4, <1>5

LEMMA GiveUpType ==
    ASSUME Assumptions, TypeOK, NEW w \in Worker, GiveUp(w)
    PROVE  StorageTypeOK' /\ WorkerTypeOK'
  <1>1. PICK now \in Reading(w), error \in Error :
            FailStep(claim[w].key, w, claim[w].token, error, now)
    BY DEF GiveUp
  <1>2. now \in Nat /\ StorageTypeOK /\ claim[w].key \in Key
    BY ReadingIsNat, ClaimIsTyped DEF TypeOK, GiveUp
  <1>3. StorageTypeOK'
    BY <1>1, <1>2, FailType DEF GiveUp, Assumptions
  <1>4. WorkerTypeOK'
    BY GotoType DEF GiveUp
  <1>5. QED
    BY <1>3, <1>4

LEMMA ReleaseStepType ==
    ASSUME Assumptions, TypeOK, NEW w \in Worker, Release(w)
    PROVE  StorageTypeOK' /\ WorkerTypeOK'
  <1>1. PICK now \in Reading(w) :
            /\ ReleaseLease(RunOf[claim[w].key], w, claim[w].token, now)
            /\ \/ UNCHANGED late
               \/ \E at \in Recent : late' = [late EXCEPT ![w] =
                            [run |-> RunOf[claim[w].key],
                             token |-> claim[w].token, at |-> at]]
    BY DEF Release
  <1>2. /\ now \in Nat /\ StorageTypeOK /\ claim[w].key \in Key
        /\ claim[w].token \in Nat \ {0} /\ RunOf[claim[w].key] \in Run
    BY ReadingIsNat, ClaimIsTyped, RunOfType DEF TypeOK, Release
  <1>3. StorageTypeOK'
    BY <1>1, <1>2, ReleaseType DEF Release, Assumptions
  <1>4. late' \in [Worker -> Beat \cup {NoBeat}]
    BY <1>1, <1>2, RecentIsNat DEF TypeOK, WorkerTypeOK, Beat
  <1>5. WorkerTypeOK'
    BY <1>4 DEF Release, TypeOK, WorkerTypeOK, Goto, Location, StorageTypeOK
  <1>6. QED
    BY <1>3, <1>5

LEMMA RenewStepType ==
    ASSUME Assumptions, TypeOK, NEW w \in Worker, Renew(w)
    PROVE  StorageTypeOK' /\ WorkerTypeOK'
  <1>1. PICK at \in Recent :
            RenewLease(RunOf[claim[w].key], w, claim[w].token, at)
    BY DEF Renew
  <1>2. at \in Nat /\ StorageTypeOK /\ RunOf[claim[w].key] \in Run
    BY RecentIsNat, ClaimIsTyped, RunOfType DEF TypeOK, Renew
  <1>3. StorageTypeOK'
    BY <1>1, <1>2, RenewType DEF Renew, Assumptions
  <1>4. WorkerTypeOK'
    BY DEF Renew, TypeOK, WorkerTypeOK, workerVars
  <1>5. QED
    BY <1>3, <1>4

LEMMA RenewLateType ==
    ASSUME Assumptions, TypeOK, NEW w \in Worker, RenewLate(w)
    PROVE  StorageTypeOK' /\ WorkerTypeOK'
  <1>1. late[w].at \in Nat /\ late[w].run \in Run /\ StorageTypeOK
    BY DEF RenewLate, TypeOK, WorkerTypeOK, Beat
  <1>2. StorageTypeOK'
    BY <1>1, RenewType DEF RenewLate, Assumptions
  <1>3. WorkerTypeOK'
    BY DEF RenewLate, TypeOK, WorkerTypeOK
  <1>4. QED
    BY <1>2, <1>3

LEMMA CrashType ==
    ASSUME TypeOK, NEW w \in Worker, Crash(w)
    PROVE  StorageTypeOK' /\ WorkerTypeOK'
  <1>1. StorageTypeOK'
    BY DEF Crash, TypeOK, StorageTypeOK, storageVars
  <1>2. WorkerTypeOK'
    BY DEF Crash, TypeOK, WorkerTypeOK, Goto, Location, StorageTypeOK
  <1>3. QED
    BY <1>1, <1>2

LEMMA TickType ==
    ASSUME Assumptions, TypeOK, Tick
    PROVE  StorageTypeOK' /\ WorkerTypeOK'
  <1>1. StorageTypeOK'
    BY DEF Tick, TypeOK, StorageTypeOK, tables
  <1>2. \A w \in Worker :
            since[w] + MaxLag < clock' => clock' - MaxLag \in Nat
    BY DEF Tick, TypeOK, StorageTypeOK, WorkerTypeOK, Assumptions,
           StorageAssumption
  <1>3. since' \in [Worker -> Nat]
    BY <1>2 DEF Tick, TypeOK, WorkerTypeOK
  <1>4. WorkerTypeOK'
    BY <1>3 DEF Tick, TypeOK, WorkerTypeOK
  <1>5. QED
    BY <1>1, <1>4

\* The steps of run_once that write nothing to engine.db.
Silent(w) == RecordTooLate(w) \/ Send(w) \/ Discard(w) \/ Raise(w)

LEMMA SilentType ==
    ASSUME TypeOK, NEW w \in Worker, Silent(w)
    PROVE  StorageTypeOK' /\ WorkerTypeOK'
  <1>1. UNCHANGED storageVars
    BY DEF Silent, RecordTooLate, Send, Discard, Raise
  <1>2. StorageTypeOK'
    BY <1>1 DEF TypeOK, StorageTypeOK, storageVars
  <1>3. /\ pc[w] # "idle"
        /\ Stay(w, "settled") \/ (pc[w] = "intent" /\ Stay(w, "sent"))
    BY DEF Silent, RecordTooLate, Send, Discard, Raise
  <1>4. WorkerTypeOK'
    BY <1>3, GotoType
  <1>5. QED
    BY <1>2, <1>4

LEMMA ToolStepType ==
    ASSUME TypeOK, UNCHANGED <<storageVars, workerVars>>
    PROVE  StorageTypeOK' /\ WorkerTypeOK'
  BY DEF TypeOK, StorageTypeOK, WorkerTypeOK, storageVars, workerVars

\* Every step keeps the types of the storage's and the workers' variables.
LEMMA NextType ==
    ASSUME Assumptions, TypeOK, ToolInv, Next
    PROVE  StorageTypeOK' /\ WorkerTypeOK'
  <1>1. CASE \E r \in Run : Submit(r)
    BY <1>1, SubmitType
  <1>2. ASSUME NEW w \in Worker, RunOnce(w)
        PROVE  StorageTypeOK' /\ WorkerTypeOK'
    BY <1>2, ClaimStepType, RecordStepType, CompleteStepType, RetryStepType,
       GiveUpType, ReleaseStepType, SilentType DEF RunOnce, Silent
  <1>3. ASSUME NEW w \in Worker, Heartbeat(w) \/ Crash(w)
        PROVE  StorageTypeOK' /\ WorkerTypeOK'
    BY <1>3, RenewStepType, RenewLateType, CrashType DEF Heartbeat
  <1>4. CASE ToolStep
    BY <1>4, ToolStepType DEF ToolStep
  <1>5. CASE Tick
    BY <1>5, TickType
  <1>6. QED
    BY <1>1, <1>2, <1>3, <1>4, <1>5 DEF Next

-----------------------------------------------------------------------------
(* The tool within the engine. *)

\* Every step of the engine is a step of the tool, of one of its clients, or
\* leaves the tool alone.
LEMMA NextToolInv ==
    ASSUME Assumptions, TypeOK, ToolInv, Next
    PROVE  ToolInv'
  <1>1. CASE UNCHANGED toolVars
    BY <1>1, ToolStutterInv
  <1>2. CASE Serve
    BY <1>2, ServeInv DEF Assumptions
  <1>3. ASSUME NEW w \in Worker, HangUp(w)
        PROVE  ToolInv'
    BY <1>3, CloseInv DEF HangUp
  <1>4. ASSUME NEW w \in Worker, Send(w)
        PROVE  ToolInv'
    <2>1. /\ claim[w].key \in Key /\ claim[w].attempt \in Nat
          /\ Request[claim[w].key] \in Payload
      BY <1>4, ClaimIsTyped DEF Send, Assumptions, EngineAssumption
    <2>2. QED
      BY <1>4, <2>1, InvokeInv DEF Send
  <1>5. \/ UNCHANGED toolVars \/ Serve
        \/ \E w \in Worker : HangUp(w) \/ Send(w)
    BY DEF Next, Submit, RunOnce, ClaimStep, Record, RecordTooLate, Complete,
           Retry, GiveUp, Discard, Raise, Release, Heartbeat, Renew,
           RenewLate, Crash, ToolStep, Tick
  <1>6. QED
    BY <1>1, <1>2, <1>3, <1>4, <1>5

-----------------------------------------------------------------------------
(***************************************************************************)
(* What a step may do to engine.db.  Every step is one of:                 *)
(*   Submit(r), ClaimStep(w);                                              *)
(*   a transition: the owner of a run changes its own step and perhaps     *)
(*   ends the run;                                                         *)
(*   a lease step: an expiry changes, nothing else;                        *)
(*   a step that writes nothing to engine.db.                              *)
(***************************************************************************)

TransitionStep(w) == Record(w) \/ Complete(w) \/ Retry(w) \/ GiveUp(w)

Transition(w) ==
    LET k == claim[w].key
    IN  /\ pc[w] \in {"claimed", "sent"}
        /\ Owns(RunOf[k], w, claim[w].token)
        /\ steps[k].status \in Runnable
        /\ \A j \in Key \ {k} : steps'[j] = steps[j]
        /\ \A r \in Run \ {RunOf[k]} :
              runs'[r] = runs[r] /\ events'[r] = events[r]
        /\ \/ runs'[RunOf[k]] = runs[RunOf[k]]
           \/ runs'[RunOf[k]].status \in {"completed", "failed"}
        /\ UNCHANGED leases

LeaseStep ==
    /\ UNCHANGED <<runs, steps, events>>
    /\ \A r \in Run : /\ leases'[r].owner = leases[r].owner
                      /\ leases'[r].token = leases[r].token

LEMMA TransitionFootprint ==
    ASSUME Assumptions, TypeOK, NEW w \in Worker, TransitionStep(w)
    PROVE  Transition(w)
  <1> DEFINE k == claim[w].key
  <1>1. pc[w] \in {"claimed", "sent"}
    BY DEF TransitionStep, Record, Complete, Retry, GiveUp
  <1>2. k \in Key /\ RunOf[k] \in Run
    BY <1>1, ClaimIsTyped, RunOfType
  <1>3. /\ steps \in [Key -> StepRow] /\ runs \in [Run -> RunRow]
        /\ events \in [Run -> Seq(Event)]
    BY DEF TypeOK, StorageTypeOK
  <1>a. ASSUME NEW es, AppendEvents(RunOf[k], es)
        PROVE  \A r \in Run \ {RunOf[k]} : events'[r] = events[r]
    BY <1>3, <1>a DEF AppendEvents
  <1>4. CASE Record(w)
    <2>1. PICK now : RecordAttempt(k, w, claim[w].token, now)
      BY <1>4 DEF Record
    <2>2. QED
      BY <1>1, <1>2, <1>3, <1>a, <2>1
         DEF RecordAttempt, RequireLease, Transition
  <1>5. CASE Complete(w)
    <2>1. PICK output, now : CompleteStep(k, w, claim[w].token, output, now)
      BY <1>5 DEF Complete
    <2>2. \/ UNCHANGED runs
          \/ runs' = [runs EXCEPT ![RunOf[k]].status = "completed"]
      BY <2>1 DEF CompleteStep
    <2>3. \A r \in Run \ {RunOf[k]} : events'[r] = events[r]
      BY <1>a, <2>1 DEF CompleteStep
    <2>4. QED
      BY <1>1, <1>2, <1>3, <2>1, <2>2, <2>3
         DEF CompleteStep, ActiveAttempt, RequireLease, Transition, Runnable,
             RunRow
  <1>6. CASE Retry(w)
    <2>1. PICK error, until, throttle, now :
            ScheduleRetry(k, w, claim[w].token, error, until, throttle, now)
      BY <1>6 DEF Retry
    <2>2. QED
      BY <1>1, <1>2, <1>3, <1>a, <2>1
         DEF ScheduleRetry, ActiveAttempt, RequireLease, Transition, Runnable
  <1>7. CASE GiveUp(w)
    <2>1. PICK error, now : FailStep(k, w, claim[w].token, error, now)
      BY <1>7 DEF GiveUp
    <2>2. QED
      BY <1>1, <1>2, <1>3, <1>a, <2>1
         DEF FailStep, ActiveAttempt, RequireLease, Transition, Runnable,
             RunRow
  <1>8. QED
    BY <1>4, <1>5, <1>6, <1>7 DEF TransitionStep

\* A renewal and a release change expiries only.
LEMMA RenewFootprint ==
    ASSUME TypeOK, NEW r \in Run, NEW w, NEW token, NEW now,
           RenewLease(r, w, token, now)
    PROVE  LeaseStep
  <1>1. leases \in [Run -> LeaseRow]
    BY DEF TypeOK, StorageTypeOK
  <1> DEFINE until == now + LeaseTtl
  <1>2. leases' = [leases EXCEPT ![r].expires = until] \/ leases' = leases
    BY DEF RenewLease
  <1> HIDE DEF until
  <1>3. QED
    BY <1>1, <1>2 DEF RenewLease, LeaseStep, LeaseRow

LEMMA ReleaseFootprint ==
    ASSUME TypeOK, NEW r \in Run, NEW w, NEW token, NEW now,
           ReleaseLease(r, w, token, now)
    PROVE  LeaseStep
  BY DEF TypeOK, StorageTypeOK, ReleaseLease, LeaseStep, LeaseRow

LEMMA NextFootprint ==
    ASSUME Assumptions, TypeOK, Next
    PROVE  \/ \E r \in Run : Submit(r)
           \/ \E w \in Worker : ClaimStep(w) \/ TransitionStep(w)
           \/ LeaseStep /\ pc' = pc /\ claim' = claim
           \/ LeaseStep /\ \E w \in Worker : Release(w) \/ Crash(w) \/ Silent(w)
  <1>1. ASSUME NEW w \in Worker, Silent(w) \/ Crash(w)
        PROVE  LeaseStep
    BY <1>1 DEF Silent, RecordTooLate, Send, Discard, Raise, Crash,
                storageVars, LeaseStep
  <1>2. ASSUME NEW w \in Worker, Release(w)
        PROVE  LeaseStep
    <2>1. PICK now : ReleaseLease(RunOf[claim[w].key], w, claim[w].token, now)
      BY <1>2 DEF Release
    <2>2. RunOf[claim[w].key] \in Run
      BY <1>2, ClaimIsTyped, RunOfType DEF Release
    <2>3. QED
      BY <2>1, <2>2, ReleaseFootprint
  <1>3. ASSUME NEW w \in Worker, Renew(w)
        PROVE  LeaseStep /\ pc' = pc /\ claim' = claim
    <2>1. PICK now : RenewLease(RunOf[claim[w].key], w, claim[w].token, now)
      BY <1>3 DEF Renew
    <2>2. RunOf[claim[w].key] \in Run
      BY <1>3, ClaimIsTyped, RunOfType DEF Renew
    <2>3. QED
      BY <1>3, <2>1, <2>2, RenewFootprint DEF Renew, workerVars
  <1>4. ASSUME NEW w \in Worker, RenewLate(w)
        PROVE  LeaseStep /\ pc' = pc /\ claim' = claim
    <2>1. late[w].run \in Run
      BY <1>4 DEF RenewLate, TypeOK, WorkerTypeOK, Beat
    <2>2. QED
      BY <1>4, <2>1, RenewFootprint DEF RenewLate
  <1>5. CASE Tick \/ ToolStep
    BY <1>5 DEF Tick, ToolStep, tables, storageVars, workerVars, LeaseStep
  <1>6. QED
    BY <1>1, <1>2, <1>3, <1>4, <1>5
       DEF Next, RunOnce, Heartbeat, TransitionStep, Silent

-----------------------------------------------------------------------------
(* Facts that only grow: a run exists for ever, a completed step stays. *)

LEMMA ExistingStays ==
    ASSUME Assumptions, EngineInv, Next, NEW r \in Run,
           runs[r].status # "absent"
    PROVE  runs'[r].status # "absent"
  <1>1. TypeOK /\ runs \in [Run -> RunRow]
    BY DEF EngineInv, TypeOK, StorageTypeOK
  <1>2. ASSUME NEW s \in Run, Submit(s)
        PROVE  runs'[r].status # "absent"
    BY <1>1, <1>2 DEF Submit, CreateWorkflowRun
  <1>3. ASSUME NEW w \in Worker, ClaimStep(w)
        PROVE  runs'[r].status # "absent"
    BY <1>3 DEF ClaimStep, ClaimRunnableStep
  <1>4. ASSUME NEW w \in Worker, TransitionStep(w)
        PROVE  runs'[r].status # "absent"
    BY <1>1, <1>4, TransitionFootprint DEF Transition
  <1>5. CASE LeaseStep
    BY <1>5 DEF LeaseStep
  <1>6. QED
    BY <1>1, <1>2, <1>3, <1>4, <1>5, NextFootprint

LEMMA CompletedStays ==
    ASSUME Assumptions, EngineInv, Next, NEW k \in Key,
           steps[k].status = "completed"
    PROVE  steps'[k] = steps[k]
  <1>1. TypeOK /\ AbsentIsNew
    BY DEF EngineInv
  <1>2. ASSUME NEW s \in Run, Submit(s)
        PROVE  steps'[k] = steps[k]
    BY <1>1, <1>2 DEF Submit, CreateWorkflowRun, AbsentIsNew
  <1>3. ASSUME NEW w \in Worker, ClaimStep(w)
        PROVE  steps'[k] = steps[k]
    BY <1>3 DEF ClaimStep, ClaimRunnableStep
  <1>4. ASSUME NEW w \in Worker, TransitionStep(w)
        PROVE  steps'[k] = steps[k]
    BY <1>1, <1>4, TransitionFootprint DEF Transition, Runnable
  <1>5. CASE LeaseStep
    BY <1>5 DEF LeaseStep
  <1>6. QED
    BY <1>1, <1>2, <1>3, <1>4, <1>5, NextFootprint

LEMMA DependenciesStay ==
    ASSUME Assumptions, EngineInv, Next, NEW k \in Key,
           DependenciesCompleted(k)
    PROVE  DependenciesCompleted(k)'
  <1>1. \A d \in DependsOn[k] : d \in Key
    BY DEF Assumptions, StorageAssumption
  <1>2. QED
    BY <1>1, CompletedStays DEF DependenciesCompleted

\* What the claim, the calls and the results say of a step, in one formula.
Ready(k) == runs[RunOf[k]].status # "absent" /\ DependenciesCompleted(k)

LEMMA ReadyStays ==
    ASSUME Assumptions, EngineInv, Next, NEW k \in Key, Ready(k)
    PROVE  Ready(k)'
  BY ExistingStays, DependenciesStay, RunOfType DEF Ready

-----------------------------------------------------------------------------
(* Where a busy worker, a request and a result come from. *)

\* A worker is busy because it was, with the same claim, or has just claimed.
LEMMA BusyOrigin ==
    ASSUME Assumptions, TypeOK, Next, NEW w \in Worker, pc'[w] \in Busy
    PROVE  \/ ClaimStep(w)
           \/ Record(w)
           \/ /\ pc[w] \in Busy /\ claim'[w] = claim[w]
              /\ pc'[w] = pc[w] \/ (pc[w] = "intent" /\ pc'[w] = "sent")
  <1>1. pc \in [Worker -> Location] /\ DOMAIN claim = Worker
    BY DEF TypeOK, WorkerTypeOK
  <1>2. ASSUME NEW r \in Run, Submit(r)
        PROVE  pc'[w] = pc[w] /\ claim'[w] = claim[w]
    BY <1>2 DEF Submit, workerVars
  <1>3. ASSUME NEW v \in Worker, v # w, ClaimStep(v) \/ Record(v)
        PROVE  pc'[w] = pc[w] /\ claim'[w] = claim[w]
    BY <1>1, <1>3 DEF ClaimStep, Record, Goto, TypeOK, WorkerTypeOK
  <1>4. ASSUME NEW v \in Worker, Complete(v) \/ Retry(v) \/ GiveUp(v)
        PROVE  pc'[w] = pc[w] /\ claim'[w] = claim[w]
    BY <1>1, <1>4 DEF Complete, Retry, GiveUp, Stay, Goto, Busy
  <1>5. ASSUME NEW v \in Worker, Silent(v)
        PROVE  /\ pc'[w] = pc[w] \/ (pc[w] = "intent" /\ pc'[w] = "sent")
               /\ claim'[w] = claim[w]
    BY <1>1, <1>5 DEF Silent, RecordTooLate, Send, Discard, Raise, Stay,
                      Goto, Busy
  <1>6. ASSUME NEW v \in Worker, Release(v) \/ Crash(v)
        PROVE  pc'[w] = pc[w] /\ claim'[w] = claim[w]
    BY <1>1, <1>6 DEF Release, Crash, Goto, Busy, TypeOK, WorkerTypeOK
  <1>7. QED
    BY <1>2, <1>3, <1>4, <1>5, <1>6, NextFootprint DEF TransitionStep, Busy

\* A request inside the tool was there before, or is being sent by a worker
\* as its attempt.
LEMMA CallOrigin ==
    ASSUME TypeOK, Next, NEW c \in calls'
    PROVE  \/ \E b \in calls : b.key = c.key /\ b.id = c.id
           \/ \E w \in Worker : /\ pc[w] = "intent" /\ claim[w].key = c.key
                                /\ claim[w].attempt = c.id
  <1>1. CASE UNCHANGED calls
    BY <1>1
  <1>2. CASE Serve
    BY <1>2 DEF Serve, Find, Throttle, Apply, Answer, Lose, Respond,
                RespondFromRow, TypeOK, ToolTypeOK, Call
  <1>3. ASSUME NEW w \in Worker, Send(w)
        PROVE  \/ \E b \in calls : b.key = c.key /\ b.id = c.id
               \/ /\ pc[w] = "intent" /\ claim[w].key = c.key
                  /\ claim[w].attempt = c.id
    BY <1>3 DEF Send, Invoke
  <1>4. UNCHANGED calls \/ Serve \/ \E w \in Worker : Send(w)
    BY DEF Next, Submit, RunOnce, ClaimStep, Record, RecordTooLate, Complete,
           Retry, GiveUp, Discard, Raise, Release, Heartbeat, Renew,
           RenewLate, Crash, ToolStep, Tick, HangUp, Close, toolVars
  <1>5. QED
    BY <1>1, <1>2, <1>3, <1>4

\* A result was there before, unchanged, or comes from a request.
LEMMA ResultOrigin ==
    ASSUME TypeOK, ToolInv, Next, NEW k \in Key
    PROVE  /\ results[k] # NoResult => results'[k] = results[k]
           /\ results'[k] # results[k] => \E c \in calls : c.key = k
  <1>1. CASE UNCHANGED results
    BY <1>1
  <1>2. CASE Serve
    <2>1. results[k] # NoResult => results'[k] = results[k]
      BY <1>2, ToolInvByKey, ResultIsKept
    <2>2. results'[k] # results[k] => \E c \in calls : c.key = k
      BY <1>2 DEF Serve, Find, Throttle, Apply, Answer, Lose, ledgerVars,
                  TypeOK, ToolTypeOK
    <2>3. QED
      BY <2>1, <2>2
  <1>3. UNCHANGED results \/ Serve
    BY DEF Next, Submit, RunOnce, ClaimStep, Record, RecordTooLate, Send,
           Complete, Retry, GiveUp, Discard, Raise, Release, Heartbeat,
           Renew, RenewLate, Crash, ToolStep, Tick, HangUp, Close, Invoke,
           toolVars
  <1>4. QED
    BY <1>1, <1>2, <1>3

-----------------------------------------------------------------------------
(* Each part of the invariant is kept. *)

\* A fresh claim is of an eligible step.
LEMMA ClaimIsEligible ==
    ASSUME Assumptions, TypeOK, NEW w \in Worker, ClaimStep(w)
    PROVE  LET k == claim'[w].key
           IN  /\ k \in Key
               /\ runs[RunOf[k]].status = "running"
               /\ steps[k].status \in Runnable
               /\ DependenciesCompleted(k)
               /\ claim'[w].attempt = 0
               /\ leases'[RunOf[k]].owner = w
               /\ UNCHANGED <<runs, steps, events>>
               /\ \E row : leases' = [leases EXCEPT ![RunOf[k]] = row]
               /\ pc[w] = "idle" /\ pc'[w] = "claimed"
  <1>1. PICK now \in Reading(w), k \in Key :
            /\ ClaimRunnableStep(w, k, now)
            /\ claim' = [claim EXCEPT ![w] =
                 [key |-> k, token |-> leases'[RunOf[k]].token, attempt |-> 0]]
    BY DEF ClaimStep
  <1>2. claim'[w].key = k /\ claim'[w].attempt = 0
    BY <1>1 DEF TypeOK, WorkerTypeOK
  <1>3. Eligible(k, now)
    BY <1>1 DEF ClaimRunnableStep, SelectRunnable
  <1>4. pc[w] = "idle" /\ pc'[w] = "claimed"
    BY DEF ClaimStep, Goto, TypeOK, WorkerTypeOK
  <1>5. PICK row : row.owner = w /\ leases' = [leases EXCEPT ![RunOf[k]] = row]
    <2> DEFINE lease == [owner |-> w, token |-> leases[RunOf[k]].token + 1,
                         expires |-> now + LeaseTtl]
    <2>1. lease.owner = w /\ leases' = [leases EXCEPT ![RunOf[k]] = lease]
      BY <1>1 DEF ClaimRunnableStep
    <2> HIDE DEF lease
    <2>2. QED
      BY <2>1
  <1>6. leases'[RunOf[k]].owner = w
    BY <1>5, RunOfType DEF TypeOK, StorageTypeOK
  <1>7. UNCHANGED <<runs, steps, events>>
    BY <1>1 DEF ClaimRunnableStep
  <1>8. /\ runs[RunOf[k]].status = "running"
        /\ steps[k].status \in Runnable
        /\ DependenciesCompleted(k)
    BY <1>3 DEF Eligible
  <1>9. QED
    BY <1>2, <1>4, <1>5, <1>6, <1>7, <1>8

LEMMA ClaimsAreReadyStep ==
    ASSUME Assumptions, EngineInv, Next
    PROVE  ClaimsAreReady'
  <1>1. TypeOK /\ ClaimsAreReady
    BY DEF EngineInv
  <1>2. SUFFICES ASSUME NEW w \in Worker, pc'[w] \in Busy
                 PROVE  Ready(claim[w].key)'
    BY DEF ClaimsAreReady, Ready
  <1>3. CASE ClaimStep(w)
    <2>1. claim'[w].key \in Key /\ Ready(claim'[w].key)
      BY <1>1, <1>3, ClaimIsEligible DEF Ready
    <2>2. QED
      BY <2>1, ReadyStays DEF Ready, DependenciesCompleted
  <1>4. CASE pc[w] \in Busy /\ claim'[w].key = claim[w].key
    <2>1. claim[w].key \in Key /\ Ready(claim[w].key)
      BY <1>1, <1>4, ClaimIsTyped DEF Ready, ClaimsAreReady, Busy
    <2>2. QED
      BY <1>4, <2>1, ReadyStays DEF Ready, DependenciesCompleted
  <1>5. CASE Record(w)
    <2>1. pc[w] \in Busy /\ claim'[w].key = claim[w].key
      BY <1>1, <1>5 DEF Record, Busy, TypeOK, WorkerTypeOK, Claim
    <2>2. QED
      BY <1>4, <2>1
  <1>6. QED
    BY <1>1, <1>2, <1>3, <1>4, <1>5, BusyOrigin

LEMMA CallsAreReadyStep ==
    ASSUME Assumptions, EngineInv, Next
    PROVE  CallsAreReady'
  <1>1. TypeOK /\ ClaimsAreReady /\ CallsAreReady
    BY DEF EngineInv
  <1>2. SUFFICES ASSUME NEW c \in calls'
                 PROVE  Ready(c.key)'
    BY DEF CallsAreReady, Ready
  <1>3. c.key \in Key /\ Ready(c.key)
    <2>1. CASE \E b \in calls : b.key = c.key
      BY <1>1, <2>1 DEF CallsAreReady, Ready, TypeOK, ToolTypeOK, Call
    <2>2. CASE \E w \in Worker : pc[w] = "intent" /\ claim[w].key = c.key
      BY <1>1, <2>2, ClaimIsTyped DEF ClaimsAreReady, Ready, Busy
    <2>3. QED
      BY <1>1, <2>1, <2>2, CallOrigin
  <1>4. QED
    BY <1>3, ReadyStays

LEMMA ResultsAreReadyStep ==
    ASSUME Assumptions, EngineInv, Next
    PROVE  ResultsAreReady'
  <1>1. TypeOK /\ ToolInv /\ CallsAreReady /\ ResultsAreReady
    BY DEF EngineInv
  <1>2. NoResult' = NoResult
    BY DEF NoResult
  <1>3. SUFFICES ASSUME NEW k \in Key, results'[k] # NoResult
                 PROVE  Ready(k)'
    BY <1>2 DEF ResultsAreReady, Ready
  <1>4. Ready(k)
    BY <1>1, <1>3, ResultOrigin DEF CallsAreReady, ResultsAreReady, Ready
  <1>5. QED
    BY <1>4, ReadyStays

LEMMA AbsentIsNewStep ==
    ASSUME Assumptions, EngineInv, Next
    PROVE  AbsentIsNew'
  <1>1. TypeOK /\ AbsentIsNew /\ ClaimsAreReady
    BY DEF EngineInv
  <1>2. SUFFICES ASSUME NEW k \in Key, runs'[RunOf[k]].status = "absent"
                 PROVE  steps'[k].status = "pending"
    BY DEF AbsentIsNew
  <1>3. runs[RunOf[k]].status = "absent" /\ steps[k].status = "pending"
    BY <1>1, <1>2, ExistingStays, RunOfType DEF AbsentIsNew
  <1>4. ASSUME NEW r \in Run, Submit(r)
        PROVE  steps'[k].status = "pending"
    BY <1>3, <1>4 DEF Submit, CreateWorkflowRun, NewStep
  <1>5. ASSUME NEW w \in Worker, ClaimStep(w)
        PROVE  steps'[k].status = "pending"
    BY <1>3, <1>5 DEF ClaimStep, ClaimRunnableStep
  <1>6. ASSUME NEW w \in Worker, TransitionStep(w)
        PROVE  steps'[k].status = "pending"
    BY <1>1, <1>3, <1>6, TransitionFootprint
       DEF Transition, ClaimsAreReady, Busy
  <1>7. CASE LeaseStep
    BY <1>3, <1>7 DEF LeaseStep
  <1>8. QED
    BY <1>1, <1>4, <1>5, <1>6, <1>7, NextFootprint

\* Only the end of a call turns the row of a step into a completed one.
LEMMA CompletionOrigin ==
    ASSUME Assumptions, TypeOK, Next, NEW k \in Key,
           steps'[k].status = "completed", steps'[k] # steps[k]
    PROVE  \E w \in Worker : Complete(w) /\ claim[w].key = k
  <1>1. steps \in [Key -> StepRow]
    BY DEF TypeOK, StorageTypeOK
  <1>2. ASSUME NEW r \in Run, Submit(r)
        PROVE  FALSE
    <2>1. steps' = [j \in Key |-> IF RunOf[j] = r THEN NewStep ELSE steps[j]]
      BY <1>2 DEF Submit, CreateWorkflowRun
    <2>2. steps'[k] = NewStep \/ steps'[k] = steps[k]
      BY <2>1
    <2>3. QED
      BY <2>2 DEF NewStep
  <1>3. ~ LeaseStep /\ ~ \E w \in Worker : ClaimStep(w)
    BY DEF LeaseStep, ClaimStep, ClaimRunnableStep
  <1>4. PICK w \in Worker : TransitionStep(w)
    BY <1>2, <1>3, NextFootprint
  <1>5. claim[w].key = k
    BY <1>4, TransitionFootprint DEF Transition
  <1>6. CASE Record(w)
    <2>1. steps' = [steps EXCEPT ![k] = IntentRow(steps[k])]
      BY <1>5, <1>6 DEF Record, RecordAttempt
    <2>2. QED
      BY <1>1, <2>1 DEF IntentRow
  <1>7. CASE Retry(w)
    <2>1. PICK e, until : steps' = [steps EXCEPT ![k] =
                                      RetryRow(steps[k], e, until)]
      BY <1>5, <1>7 DEF Retry, ScheduleRetry
    <2>2. QED
      BY <1>1, <2>1 DEF RetryRow
  <1>8. CASE GiveUp(w)
    <2>1. PICK e : steps' = [steps EXCEPT ![k] = FailedRow(steps[k], e)]
      BY <1>5, <1>8 DEF GiveUp, FailStep
    <2>2. QED
      BY <1>1, <2>1 DEF FailedRow
  <1>9. QED
    BY <1>4, <1>5, <1>6, <1>7, <1>8 DEF TransitionStep

\* The step that completes a step has the answer of that step's key.
LEMMA CompletedHasEffectStep ==
    ASSUME Assumptions, TypeOK, ToolInv, CompletedHasEffect, Next
    PROVE  CompletedHasEffect'
  <1>1. steps \in [Key -> StepRow]
    BY DEF TypeOK, StorageTypeOK
  <1>2. SUFFICES ASSUME NEW k \in Key, steps'[k].status = "completed"
                 PROVE  /\ results'[k] # NoResult
                        /\ results'[k].ref = steps'[k].output
    BY DEF CompletedHasEffect, NoResult
  <1>3. CASE steps'[k] = steps[k]
    BY <1>2, <1>3, ResultOrigin DEF CompletedHasEffect
  <1>4. CASE steps'[k] # steps[k]
    <2>1. PICK w \in Worker : Complete(w) /\ claim[w].key = k
      BY <1>2, <1>4, CompletionOrigin
    <2>2. PICK r \in Answered(w, {"ok"}), now \in Reading(w) :
              CompleteStep(k, w, claim[w].token, r.ref, now)
      BY <2>1 DEF Complete
    <2>3. steps'[k].output = r.ref
      BY <1>1, <2>2 DEF CompleteStep, CompletedRow
    <2>4. results[k] # NoResult /\ results[k].ref = r.ref
      BY <2>1, <2>2, AnswerIsRef
    <2>5. QED
      BY <2>3, <2>4, ResultOrigin
  <1>5. QED
    BY <1>3, <1>4

\* What OwnerKnows says of one worker, given where it is.
Knows(w, place) ==
    LET k == claim[w].key
    IN  /\ runs[RunOf[k]].status = "running"
        /\ place = "claimed" => steps[k].status \in Runnable
        /\ place # "claimed" =>
              /\ steps[k].status = "intent_recorded"
              /\ steps[k].attempts = claim[w].attempt
              /\ LastIsStart(k)

\* Appending makes the last event appended the last of the run.
LEMMA LastOfAppend ==
    ASSUME TypeOK, NEW r \in Run, NEW e \in Event, AppendEvents(r, <<e>>)
    PROVE  events'[r][Len(events'[r])] = e
  <1>1. events[r] \in Seq(Event) /\ events'[r] = events[r] \o <<e>>
    BY DEF TypeOK, StorageTypeOK, AppendEvents
  <1>2. QED
    BY <1>1

\* A worker that stays busy with a claim that names the lease's owner and
\* token has been alone with its run: the step has written nothing to it.
Untouched(w) ==
    LET k == claim[w].key
    IN  /\ Owns(RunOf[k], w, claim[w].token)
        /\ steps'[k] = steps[k]
        /\ runs'[RunOf[k]] = runs[RunOf[k]]
        /\ events'[RunOf[k]] = events[RunOf[k]]

LEMMA OwnerAlone ==
    ASSUME Assumptions, EngineInv, Next, NEW w \in Worker,
           ~ ClaimStep(w), ~ Record(w),
           pc[w] \in Busy, pc'[w] \in Busy, claim'[w] = claim[w],
           Owns(RunOf[claim[w].key], w, claim[w].token)'
    PROVE  Untouched(w)
  <1> DEFINE k == claim[w].key
  <1>1. /\ TypeOK /\ ClaimsAreReady
        /\ leases \in [Run -> LeaseRow]
    BY DEF EngineInv, TypeOK, StorageTypeOK
  <1>2. k \in Key /\ RunOf[k] \in Run
    BY <1>1, ClaimIsTyped, RunOfType DEF Busy
  <1>3. leases'[RunOf[k]].owner = w /\ leases'[RunOf[k]].token = claim[w].token
    BY DEF Owns
  <1>4. ASSUME NEW r \in Run, Submit(r)
        PROVE  Untouched(w)
    <2>1. runs[r].status = "absent" /\ UNCHANGED leases
      BY <1>4 DEF Submit, CreateWorkflowRun
    <2>2. runs[RunOf[k]].status # "absent"
      BY <1>1 DEF ClaimsAreReady
    <2>3. QED
      BY <1>1, <1>2, <1>3, <1>4, <2>1, <2>2
         DEF Submit, CreateWorkflowRun, AppendEvents, Owns, TypeOK,
             StorageTypeOK, Untouched
  <1>5. ASSUME NEW v \in Worker, v # w, ClaimStep(v)
        PROVE  Untouched(w)
    <2> DEFINE j == claim'[v].key
    <2>1. /\ leases'[RunOf[j]].owner = v
          /\ \E row : leases' = [leases EXCEPT ![RunOf[j]] = row]
          /\ UNCHANGED <<runs, steps, events>>
      BY <1>1, <1>5, ClaimIsEligible
    <2>2. RunOf[j] # RunOf[k]
      BY <1>3, <1>5, <2>1
    <2>3. leases'[RunOf[k]] = leases[RunOf[k]]
      BY <1>1, <1>2, <2>1, <2>2
    <2>4. QED
      BY <1>3, <2>1, <2>3 DEF Owns, Untouched
  <1>6. ASSUME NEW v \in Worker, TransitionStep(v)
        PROVE  Untouched(w)
    <2>1. Transition(v)
      BY <1>1, <1>6, TransitionFootprint
    <2>2. leases' = leases /\ Owns(RunOf[k], w, claim[w].token)
      BY <1>3, <2>1 DEF Transition, Owns
    <2>3. v # w
      <3>1. ASSUME v = w
            PROVE  pc'[w] \notin Busy
        BY <1>1, <1>6, <3>1
           DEF TransitionStep, Complete, Retry, GiveUp, Stay, Goto, Busy,
               TypeOK, WorkerTypeOK
      <3>2. QED
        BY <3>1
    <2>4. RunOf[claim[v].key] # RunOf[k]
      BY <2>1, <2>2, <2>3 DEF Transition, Owns
    <2>5. QED
      BY <1>2, <2>1, <2>2, <2>4 DEF Transition, Untouched
  <1>7. CASE LeaseStep
    BY <1>2, <1>3, <1>7 DEF LeaseStep, Owns, Untouched
  <1>8. QED
    BY <1>1, <1>4, <1>5, <1>6, <1>7, NextFootprint

\* The lease row names its owner, so that no one else writes to the run.
LEMMA OwnerKnowsStep ==
    ASSUME Assumptions, EngineInv, Next
    PROVE  OwnerKnows'
  <1>1. /\ TypeOK /\ OwnerKnows /\ ClaimsAreReady
        /\ steps \in [Key -> StepRow] /\ leases \in [Run -> LeaseRow]
        /\ claim \in [Worker -> Claim \cup {NoClaim}]
    BY DEF EngineInv, TypeOK, StorageTypeOK, WorkerTypeOK
  <1>2. SUFFICES ASSUME NEW w \in Worker, pc'[w] \in Busy,
                        Owns(RunOf[claim[w].key], w, claim[w].token)'
                 PROVE  Knows(w, pc[w])'
    BY DEF OwnerKnows, Knows
  <1>3. CASE ClaimStep(w)
    BY <1>1, <1>3, ClaimIsEligible DEF Knows
  <1>4. CASE Record(w)
    <2> DEFINE k == claim[w].key
    <2>1. PICK now \in Reading(w) : RecordAttempt(k, w, claim[w].token, now)
      BY <1>4 DEF Record
    <2>2. /\ claim' = [claim EXCEPT ![w].attempt = steps'[k].attempts]
          /\ pc[w] = "claimed" /\ pc'[w] = "intent"
      BY <1>1, <1>4 DEF Record, Goto, TypeOK, WorkerTypeOK
    <2>3. k \in Key /\ claim[w] \in Claim
      BY <1>1, <2>2, ClaimIsTyped
    <2>4. claim'[w].key = k /\ claim'[w].attempt = steps'[k].attempts
      BY <1>1, <2>2, <2>3 DEF Claim
    <2>5. /\ steps' = [steps EXCEPT ![k] = IntentRow(steps[k])]
          /\ UNCHANGED runs /\ Owns(RunOf[k], w, claim[w].token)
      BY <2>1 DEF RecordAttempt, RequireLease
    <2>6. steps'[k].status = "intent_recorded"
      BY <1>1, <2>3, <2>5 DEF IntentRow
    <2>7. runs[RunOf[k]].status = "running"
      BY <1>1, <2>2, <2>5 DEF OwnerKnows, Busy
    <2>8. LastIsStart(k)'
      <3> DEFINE e == [type |-> "StepAttemptStarted", key |-> k,
                       attempt |-> steps[k].attempts + 1, owner |-> w,
                       token |-> claim[w].token, at |-> now]
      <3>1. AppendEvents(RunOf[k], <<e>>)
        BY <2>1 DEF RecordAttempt
      <3>2. /\ steps[k].attempts + 1 \in Nat
            /\ claim[w].token \in Nat /\ now \in Nat
        BY <1>1, <2>1, <2>3, ReadingIsNat DEF StepRow, Claim
      <3>3. e \in Event
        BY <2>3, <3>2 DEF Event
      <3>4. e.type = "StepAttemptStarted" /\ e.key = k
        OBVIOUS
      <3> HIDE DEF e
      <3>5. QED
        BY <1>1, <2>3, <2>4, <3>1, <3>3, <3>4, LastOfAppend, RunOfType
           DEF LastIsStart
    <2>9. QED
      BY <2>2, <2>4, <2>5, <2>6, <2>7, <2>8 DEF Knows, LastIsStart
  <1>5. CASE /\ ~ ClaimStep(w) /\ ~ Record(w)
             /\ pc[w] \in Busy /\ claim'[w] = claim[w]
             /\ pc'[w] = pc[w] \/ (pc[w] = "intent" /\ pc'[w] = "sent")
    <2>1. Owns(RunOf[claim[w].key], w, claim[w].token)'
      BY <1>2
    <2>2. Untouched(w)
      BY <1>2, <1>5, <2>1, OwnerAlone
    <2>3. Knows(w, pc'[w])
      BY <1>1, <1>5, <2>2 DEF OwnerKnows, Knows, Busy, Untouched
    <2>4. QED
      BY <1>5, <2>2, <2>3 DEF Knows, LastIsStart, Untouched
  <1>6. QED
    BY <1>1, <1>2, <1>3, <1>4, <1>5, BusyOrigin

-----------------------------------------------------------------------------
(* The invariant holds. *)

LEMMA InitInv ==
    ASSUME Assumptions, Init
    PROVE  EngineInv
  <1>1. StorageTypeOK
    <2>1. \A r \in Run : <<>> \in Seq(Event)
      OBVIOUS
    <2>2. QED
      BY <2>1 DEF Init, StorageInit, StorageTypeOK, NewRun, NewStep, NoLease,
                  RunRow, StepRow, LeaseRow, RunStatus, StepStatus, Runnable
  <1>2. ToolInv
    BY ToolInitInv DEF Init
  <1>3. WorkerTypeOK
    BY DEF Init, WorkerTypeOK, Location
  <1>4. TypeOK
    BY <1>1, <1>2, <1>3 DEF TypeOK, ToolInv
  <1>5. ClaimsAreReady /\ OwnerKnows
    BY DEF Init, ClaimsAreReady, OwnerKnows, Busy
  <1>6. CallsAreReady /\ ResultsAreReady
    BY DEF Init, ToolInit, CallsAreReady, ResultsAreReady
  <1>7. AbsentIsNew /\ CompletedHasEffect
    BY DEF Init, StorageInit, AbsentIsNew, CompletedHasEffect, NewStep
  <1>8. QED
    BY <1>2, <1>4, <1>5, <1>6, <1>7 DEF EngineInv

LEMMA NextInv ==
    ASSUME Assumptions, EngineInv, Next
    PROVE  EngineInv'
  <1>1. TypeOK /\ ToolInv /\ CompletedHasEffect
    BY DEF EngineInv
  <1>2. ToolInv'
    BY <1>1, NextToolInv
  <1>3. TypeOK'
    BY <1>1, <1>2, NextType DEF TypeOK, ToolInv
  <1>4. QED
    BY <1>2, <1>3, ClaimsAreReadyStep, CallsAreReadyStep,
       ResultsAreReadyStep, AbsentIsNewStep, OwnerKnowsStep,
       CompletedHasEffectStep
       DEF EngineInv

LEMMA StutterInv ==
    ASSUME EngineInv, UNCHANGED vars
    PROVE  EngineInv'
  <1>1. UNCHANGED toolVars
    BY DEF vars, toolVars
  <1>2. ToolInv'
    BY <1>1, ToolStutterInv DEF EngineInv
  <1>3. TypeOK'
    BY DEF EngineInv, TypeOK, StorageTypeOK, ToolTypeOK, WorkerTypeOK, vars
  <1>4. (ClaimsAreReady /\ CallsAreReady /\ ResultsAreReady)'
    BY DEF EngineInv, ClaimsAreReady, CallsAreReady, ResultsAreReady,
           DependenciesCompleted, vars
  <1>5. (AbsentIsNew /\ OwnerKnows /\ CompletedHasEffect)'
    BY DEF EngineInv, AbsentIsNew, OwnerKnows, LastIsStart, Owns,
           CompletedHasEffect, vars
  <1>6. QED
    BY <1>2, <1>3, <1>4, <1>5 DEF EngineInv

\* The engine, its database and the tool keep the inductive invariant
\* through every interleaving of workers, heartbeats, crashes and requests.
THEOREM EngineSafety == Spec => []EngineInv
  <1>1. Assumptions
    BY StorageAssumption, ToolAssumption, EngineAssumption DEF Assumptions
  <1>2. Init => EngineInv
    BY <1>1, InitInv
  <1>3. EngineInv /\ [Next]_vars => EngineInv'
    BY <1>1, NextInv, StutterInv
  <1>4. QED
    BY <1>2, <1>3, PTL DEF Spec

-----------------------------------------------------------------------------
(* What follows from it. *)

\* Every variable of the workers, the tool and engine.db keeps its type.
THEOREM TypeCorrect == Spec => []TypeOK
  <1>1. EngineInv => TypeOK
    BY DEF EngineInv
  <1>2. QED
    BY <1>1, EngineSafety, PTL

\* The tool performs no operation twice, however often the engine's retries
\* and takeovers repeat its request.
THEOREM EngineAtMostOneEffect == Spec => []AtMostOneEffect
  <1>1. EngineInv => AtMostOneEffect
    BY OneRowOneEffect DEF EngineInv
  <1>2. QED
    BY <1>1, EngineSafety, PTL

\* complete_step records no output but the reference of the step's effect.
THEOREM CompletedHasEffectAlways == Spec => []CompletedHasEffect
  <1>1. EngineInv => CompletedHasEffect
    BY DEF EngineInv
  <1>2. QED
    BY <1>1, EngineSafety, PTL

\* The tool's effects follow the dependency graph, although requests of old
\* attempts stay inside the tool for as long as they like.
THEOREM EffectsFollowDependenciesAlways == Spec => []EffectsFollowDependencies
  <1>1. EngineInv => EffectsFollowDependencies
    <2>1. SUFFICES ASSUME EngineInv, NEW k \in Key, results[k] # NoResult,
                          NEW d \in DependsOn[k]
                   PROVE  results[d] # NoResult
      BY DEF EffectsFollowDependencies
    <2>2. steps[d].status = "completed"
      BY <2>1 DEF EngineInv, ResultsAreReady, DependenciesCompleted
    <2>3. d \in Key
      BY <2>1, StorageAssumption DEF StorageAssumption
    <2>4. QED
      BY <2>1, <2>2, <2>3 DEF EngineInv, CompletedHasEffect
  <1>2. QED
    BY <1>1, EngineSafety, PTL

\* A worker with a live lease finds its step as it left it: its attempt is
\* the step's row and the run's last event, whatever others have tried.
THEOREM OwnerIsCurrentAlways == Spec => []OwnerIsCurrent
  <1>1. EngineInv => OwnerIsCurrent
    BY DEF EngineInv, ClaimsAreReady, OwnerKnows, LastIsStart, OwnerIsCurrent,
           Holds, RequireLease, Busy
  <1>2. QED
    BY <1>1, EngineSafety, PTL


-----------------------------------------------------------------------------
(* Terminal runs. *)

\* Whoever writes to a run works on a running one.
LEMMA WriterOfRunning ==
    ASSUME Assumptions, EngineInv, NEW w \in Worker, Transition(w)
    PROVE  /\ claim[w].key \in Key
           /\ runs[RunOf[claim[w].key]].status = "running"
  BY ClaimIsTyped DEF Transition, EngineInv, OwnerKnows, Busy

LEMMA TerminalStep ==
    ASSUME Assumptions, EngineInv, Next, NEW r \in Run,
           runs[r].status \in {"completed", "failed"}
    PROVE  /\ runs'[r] = runs[r]
           /\ events'[r] = events[r]
           /\ \A k \in StepsOf(r) : steps'[k] = steps[k]
  <1>1. /\ TypeOK /\ runs \in [Run -> RunRow] /\ steps \in [Key -> StepRow]
        /\ events \in [Run -> Seq(Event)]
    BY DEF EngineInv, TypeOK, StorageTypeOK
  <1>2. ASSUME NEW s \in Run, Submit(s)
        PROVE  /\ runs'[r] = runs[r] /\ events'[r] = events[r]
               /\ \A k \in StepsOf(r) : steps'[k] = steps[k]
    <2>1. s # r
      BY <1>2 DEF Submit, CreateWorkflowRun
    <2>2. QED
      BY <1>1, <1>2, <2>1 DEF Submit, CreateWorkflowRun, AppendEvents, StepsOf
  <1>3. ASSUME NEW w \in Worker, ClaimStep(w)
        PROVE  UNCHANGED <<runs, steps, events>>
    BY <1>3 DEF ClaimStep, ClaimRunnableStep
  <1>4. ASSUME NEW w \in Worker, TransitionStep(w)
        PROVE  /\ runs'[r] = runs[r] /\ events'[r] = events[r]
               /\ \A k \in StepsOf(r) : steps'[k] = steps[k]
    <2>1. Transition(w)
      BY <1>1, <1>4, TransitionFootprint
    <2>2. RunOf[claim[w].key] # r
      BY <2>1, WriterOfRunning
    <2>3. QED
      BY <2>1, <2>2 DEF Transition, StepsOf
  <1>5. CASE LeaseStep
    BY <1>5 DEF LeaseStep
  <1>6. QED
    BY <1>1, <1>2, <1>3, <1>4, <1>5, NextFootprint

\* After WorkflowRunCompleted or WorkflowRunFailed, no retry, late result,
\* renewal, takeover or crash changes the run, its steps or its history.
THEOREM TerminalIsFinalAlways == Spec => TerminalIsFinal
  <1>1. Assumptions
    BY StorageAssumption, ToolAssumption, EngineAssumption DEF Assumptions
  <1> DEFINE Final ==
        \A r \in Run : runs[r].status \in {"completed", "failed"} =>
          /\ runs'[r] = runs[r]
          /\ events'[r] = events[r]
          /\ \A k \in StepsOf(r) : steps'[k] = steps[k]
  <1>2. EngineInv /\ [Next]_vars => [Final]_storageVars
    <2>1. CASE EngineInv /\ Next
      BY <1>1, <2>1, TerminalStep
    <2>2. CASE UNCHANGED vars
      BY <2>2 DEF vars, storageVars
    <2>3. QED
      BY <2>1, <2>2
  <1>3. QED
    BY <1>2, EngineSafety, PTL DEF Spec, TerminalIsFinal

-----------------------------------------------------------------------------
(* The refinement mapping. *)

Outcomes == [r \in Run |-> runs[r].status]
Performed == {k \in Key : results[k] # NoResult}
Done == {k \in Key : steps[k].status = "completed"}

\* What only engine.db shows of the abstract state.
SameRows == Outcomes' = Outcomes /\ Done' = Done

\* Creating a run.
LEMMA SubmitRefines ==
    ASSUME Assumptions, EngineInv, NEW r \in Run, Submit(r)
    PROVE  Durable!SubmitRun(r)
  <1>1. /\ runs \in [Run -> RunRow] /\ steps \in [Key -> StepRow]
        /\ AbsentIsNew
    BY DEF EngineInv, TypeOK, StorageTypeOK
  <1>2. PICK now : CreateWorkflowRun(r, now)
    BY DEF Submit
  <1>3. Outcomes[r] = "absent" /\ Outcomes' = [Outcomes EXCEPT ![r] = "running"]
    BY <1>1, <1>2 DEF CreateWorkflowRun, Outcomes
  <1>4. Done' = Done
    <2>1. \A k \in Key : steps'[k] = steps[k] \/
            (steps'[k].status = "pending" /\ steps[k].status = "pending")
      BY <1>1, <1>2 DEF CreateWorkflowRun, AbsentIsNew, NewStep
    <2>2. QED
      BY <2>1 DEF Done
  <1>5. Performed' = Performed
    BY DEF Submit, toolVars, Performed, NoResult
  <1>6. QED
    BY <1>3, <1>4, <1>5 DEF Durable!SubmitRun, Outcomes, Performed, Done

\* The steps of a worker that keep what is visible of engine.db.
LEMMA RecordRefines ==
    ASSUME Assumptions, EngineInv, NEW w \in Worker, Record(w) \/ Retry(w)
    PROVE  SameRows
  <1> DEFINE k == claim[w].key
  <1>1. steps \in [Key -> StepRow] /\ TypeOK
    BY DEF EngineInv, TypeOK, StorageTypeOK
  <1>2. Transition(w) /\ k \in Key
    BY <1>1, TransitionFootprint, WriterOfRunning DEF TransitionStep
  <1>3. steps[k].status # "completed"
    BY <1>2 DEF Transition, Runnable
  <1>4. steps'[k].status # "completed" /\ UNCHANGED runs
    <2>1. CASE Record(w)
      <3>1. /\ steps' = [steps EXCEPT ![k] = IntentRow(steps[k])]
            /\ UNCHANGED runs
        BY <2>1 DEF Record, RecordAttempt
      <3>2. QED
        BY <1>1, <1>2, <3>1 DEF IntentRow
    <2>2. CASE Retry(w)
      <3>1. PICK e, until : /\ steps' = [steps EXCEPT ![k] =
                                           RetryRow(steps[k], e, until)]
                            /\ UNCHANGED runs
        BY <2>2 DEF Retry, ScheduleRetry
      <3>2. QED
        BY <1>1, <1>2, <3>1 DEF RetryRow
    <2>3. QED
      BY <2>1, <2>2
  <1>5. \A j \in Key : steps'[j].status = "completed" <=>
                         steps[j].status = "completed"
    BY <1>2, <1>3, <1>4 DEF Transition
  <1>6. QED
    BY <1>4, <1>5 DEF SameRows, Outcomes, Done

\* Completing a step, and its run with the last one.
LEMMA CompleteRefines ==
    ASSUME Assumptions, EngineInv, NEW w \in Worker, Complete(w)
    PROVE  Durable!Finish(claim[w].key)
  <1> DEFINE k == claim[w].key
  <1>1. /\ TypeOK /\ ToolInv
        /\ steps \in [Key -> StepRow] /\ runs \in [Run -> RunRow]
    BY DEF EngineInv, TypeOK, StorageTypeOK
  <1>2. Transition(w) /\ k \in Key /\ runs[RunOf[k]].status = "running"
    BY <1>1, TransitionFootprint, WriterOfRunning DEF TransitionStep
  <1>3. PICK r \in Answered(w, {"ok"}), now \in Reading(w) :
            CompleteStep(k, w, claim[w].token, r.ref, now)
    BY DEF Complete
  <1>4. RunOf[k] \in Run
    BY <1>2, RunOfType
  <1>5. k \in Performed \ Done
    BY <1>1, <1>2, <1>3, AnswerIsRef DEF Performed, Done, Transition, Runnable
  <1>6. Done' = Done \cup {k}
    <2>1. steps' = [steps EXCEPT ![k] = CompletedRow(steps[k], r.ref)]
      BY <1>3 DEF CompleteStep
    <2>2. QED
      BY <1>1, <1>2, <2>1 DEF Done, CompletedRow
  <1>7. Performed' = Performed
    BY DEF Complete, HangUp, Close, Performed, NoResult
  <1>8. LastStep(k) <=> {j \in Key : RunOf[j] = RunOf[k]} \subseteq Done'
    BY <1>2, <1>6 DEF LastStep, StepsOf, Done
  <1>9. Outcomes' = IF LastStep(k)
                    THEN [Outcomes EXCEPT ![RunOf[k]] = "completed"]
                    ELSE Outcomes
    <2>1. CASE LastStep(k)
      <3>1. runs' = [runs EXCEPT ![RunOf[k]].status = "completed"]
        BY <1>3, <2>1 DEF CompleteStep
      <3>2. \A s \in Run : runs'[s].status = IF s = RunOf[k] THEN "completed"
                                                            ELSE runs[s].status
        BY <1>1, <1>4, <3>1 DEF RunRow
      <3>3. QED
        BY <2>1, <3>2 DEF Outcomes
    <2>2. CASE ~ LastStep(k)
      BY <1>3, <2>2 DEF CompleteStep, Outcomes
    <2>3. QED
      BY <2>1, <2>2
  <1>10. Outcomes[RunOf[k]] = "running"
    BY <1>2, <1>4 DEF Outcomes
  <1>11. QED
    BY <1>5, <1>6, <1>7, <1>8, <1>9, <1>10
       DEF Durable!Finish, Outcomes, Performed, Done

\* Failing a step fails its run.
LEMMA GiveUpRefines ==
    ASSUME Assumptions, EngineInv, NEW w \in Worker, GiveUp(w)
    PROVE  Durable!FailRun(RunOf[claim[w].key])
  <1> DEFINE k == claim[w].key
  <1>1. /\ TypeOK
        /\ steps \in [Key -> StepRow] /\ runs \in [Run -> RunRow]
    BY DEF EngineInv, TypeOK, StorageTypeOK
  <1>2. Transition(w) /\ k \in Key /\ runs[RunOf[k]].status = "running"
    BY <1>1, TransitionFootprint, WriterOfRunning DEF TransitionStep
  <1>3. PICK e, now : FailStep(k, w, claim[w].token, e, now)
    BY DEF GiveUp
  <1>4. RunOf[k] \in Run
    BY <1>2, RunOfType
  <1>5. Outcomes' = [Outcomes EXCEPT ![RunOf[k]] = "failed"]
    <2>1. runs' = [runs EXCEPT ![RunOf[k]].status = "failed"]
      BY <1>3 DEF FailStep
    <2>2. \A s \in Run : runs'[s].status = IF s = RunOf[k] THEN "failed"
                                                          ELSE runs[s].status
      BY <1>1, <1>4, <2>1 DEF RunRow
    <2>3. QED
      BY <2>2 DEF Outcomes
  <1>6. Done' = Done
    <2>1. steps' = [steps EXCEPT ![k] = FailedRow(steps[k], e)]
      BY <1>3 DEF FailStep
    <2>2. steps[k].status # "completed"
      BY <1>2 DEF Transition, Runnable
    <2>3. QED
      BY <1>1, <1>2, <2>1, <2>2 DEF Done, FailedRow
  <1>7. Performed' = Performed
    BY DEF GiveUp, HangUp, Close, Performed, NoResult
  <1>8. Outcomes[RunOf[k]] = "running"
    BY <1>2, <1>4 DEF Outcomes
  <1>9. QED
    BY <1>5, <1>6, <1>7, <1>8
       DEF Durable!FailRun, Outcomes, Performed, Done

\* The tool performs the effect of one step, or nothing that shows.
LEMMA ServeRefines ==
    ASSUME Assumptions, EngineInv, ToolStep
    PROVE  \/ UNCHANGED <<Outcomes, Performed, Done>>
           \/ \E k \in Key : Durable!Perform(k)
  <1>1. /\ TypeOK /\ CallsAreReady
        /\ results \in [Key -> Result \cup {NoResult}]
        /\ UNCHANGED <<runs, steps>>
    BY DEF EngineInv, TypeOK, ToolTypeOK, ToolStep, storageVars
  <1>2. Outcomes' = Outcomes /\ Done' = Done
    BY <1>1 DEF Outcomes, Done
  <1>3. CASE UNCHANGED results
    BY <1>2, <1>3 DEF Performed, NoResult
  <1>4. CASE results' # results
    <2>1. PICK c \in calls : /\ results[c.key] = NoResult
                             /\ \E row : /\ row # NoResult
                                         /\ results' = [results EXCEPT
                                                         ![c.key] = row]
      <3>1. PICK c \in calls : Apply(c)
        BY <1>4 DEF ToolStep, Serve, Find, Throttle, Answer, Lose, ledgerVars
      <3>2. /\ results[c.key] = NoResult
            /\ results' = [results EXCEPT ![c.key] =
                 [ref |-> FreshRef(c.key), payload |-> c.payload]]
        BY <1>4, <3>1 DEF Apply, ledgerVars
      <3> DEFINE row == [ref |-> FreshRef(c.key), payload |-> c.payload]
      <3>3. c.key \in Key
        BY <1>1 DEF TypeOK, ToolTypeOK, Call
      <3>4. FreshRef(c.key) # 0
        BY <3>3, FreshRefIsRef DEF EngineInv, ToolInv
      <3>5. row # NoResult
        BY <3>4 DEF NoResult
      <3>6. results' = [results EXCEPT ![c.key] = row]
        BY <3>2
      <3> HIDE DEF row
      <3>7. QED
        BY <3>2, <3>5, <3>6
    <2> DEFINE k == c.key
    <2>2. k \in Key
      BY <1>1 DEF TypeOK, ToolTypeOK, Call
    <2>3. k \notin Performed /\ Performed' = Performed \cup {k}
      BY <1>1, <2>1, <2>2 DEF Performed, NoResult
    <2>4. Outcomes[RunOf[k]] # "absent" /\ DependsOn[k] \subseteq Done
      <3>1. DependsOn[k] \subseteq Key /\ RunOf[k] \in Run
        BY <2>2 DEF Assumptions, StorageAssumption
      <3>2. QED
        BY <1>1, <2>1, <3>1
           DEF CallsAreReady, DependenciesCompleted, Outcomes, Done
    <2>5. QED
      BY <1>2, <2>2, <2>3, <2>4 DEF Durable!Perform, Outcomes, Performed, Done
  <1>5. QED
    BY <1>3, <1>4

\* Every other step shows nothing.
LEMMA HiddenStep ==
    ASSUME Assumptions, EngineInv, Next,
           ~ \E r \in Run : Submit(r),
           ~ \E w \in Worker : Complete(w) \/ GiveUp(w),
           ~ ToolStep
    PROVE  UNCHANGED <<Outcomes, Performed, Done>>
  <1>1. TypeOK
    BY DEF EngineInv
  <1>2. UNCHANGED results
    BY DEF Next, RunOnce, ClaimStep, Record, RecordTooLate, Send, Retry,
           Discard, Raise, Release, Heartbeat, Renew, RenewLate, Crash, Tick,
           HangUp, Close, Invoke, toolVars
  <1>3. ASSUME NEW w \in Worker, ClaimStep(w)
        PROVE  UNCHANGED <<runs, steps>>
    BY <1>3 DEF ClaimStep, ClaimRunnableStep
  <1>4. ASSUME NEW w \in Worker, TransitionStep(w)
        PROVE  SameRows
    BY <1>4, RecordRefines DEF TransitionStep
  <1>5. SameRows
    BY <1>1, <1>3, <1>4, NextFootprint DEF LeaseStep, SameRows, Outcomes, Done
  <1>6. QED
    BY <1>2, <1>5 DEF SameRows, Performed, NoResult

LEMMA InitRefines ==
    ASSUME Init
    PROVE  Durable!DurableInit
  <1>1. Outcomes = [r \in Run |-> "absent"] /\ Performed = {} /\ Done = {}
    BY DEF Init, StorageInit, ToolInit, NewRun, NewStep, Outcomes, Performed,
           Done
  <1>2. QED
    BY <1>1 DEF Durable!DurableInit, Outcomes, Performed, Done

LEMMA StepRefines ==
    ASSUME Assumptions, EngineInv, [Next]_vars
    PROVE  [Durable!DurableNext]_(Durable!durableVars)
  <1> DEFINE Goal == Durable!DurableNext \/ UNCHANGED Durable!durableVars
  <1>1. CASE UNCHANGED vars
    BY <1>1 DEF vars, Durable!durableVars
  <1>2. ASSUME NEW r \in Run, Submit(r)
        PROVE  Goal
    BY <1>2, SubmitRefines DEF Durable!DurableNext
  <1>3. ASSUME NEW w \in Worker, Complete(w)
        PROVE  Goal
    <2>1. claim[w].key \in Key
      BY <1>3, ClaimIsTyped DEF Complete, EngineInv
    <2>2. PICK k \in Key : Durable!Finish(k)
      BY <1>3, <2>1, CompleteRefines DEF Durable!Finish
    <2>3. QED
      BY <2>2 DEF Durable!DurableNext
  <1>4. ASSUME NEW w \in Worker, GiveUp(w)
        PROVE  Goal
    <2>1. RunOf[claim[w].key] \in Run
      BY <1>4, ClaimIsTyped, RunOfType DEF GiveUp, EngineInv
    <2>2. PICK r \in Run : Durable!FailRun(r)
      BY <1>4, <2>1, GiveUpRefines DEF Durable!FailRun
    <2>3. QED
      BY <2>2 DEF Durable!DurableNext
  <1>5. UNCHANGED <<Outcomes, Performed, Done>> => Goal
    BY DEF Outcomes, Performed, Done, Durable!durableVars
  <1>6. CASE ToolStep
    BY <1>5, <1>6, ServeRefines DEF Durable!DurableNext
  <1>7. QED
    BY <1>1, <1>2, <1>3, <1>4, <1>5, <1>6, HiddenStep

\* Every behaviour of workers, storage and tool, with its crashes, takeovers,
\* lost answers and repeated requests, is one DurableWorkflow allows.
THEOREM EngineImplementsDurableWorkflow == Spec => ImplementsDurableWorkflow
  <1>1. Assumptions
    BY StorageAssumption, ToolAssumption, EngineAssumption DEF Assumptions
  <1>2. Init => Durable!DurableInit
    BY InitRefines
  <1>3. EngineInv /\ [Next]_vars =>
            [Durable!DurableNext]_(Durable!durableVars)
    BY <1>1, StepRefines
  <1>4. QED
    BY <1>2, <1>3, EngineSafety, PTL
       DEF Spec, ImplementsDurableWorkflow, Durable!DurableSpec

-----------------------------------------------------------------------------
(* History and rows: what each step writes is what the reducer reads. *)

LEMMA TransitionReplays ==
    ASSUME Assumptions, EngineInv, ReplayInv, NEW w \in Worker,
           TransitionStep(w)
    PROVE  ReplayInv'
  <1> DEFINE k == claim[w].key
             token == claim[w].token
  <1>1. TypeOK /\ ToolInv /\ StorageTypeOK /\ StorageAssumption
    BY DEF EngineInv, TypeOK, Assumptions
  <1>2. Transition(w)
    BY <1>1, TransitionFootprint
  <1>3. k \in Key /\ runs[RunOf[k]].status = "running"
    BY <1>2, WriterOfRunning
  <1>4. token \in Nat /\ claim[w].attempt \in Nat
    BY <1>1, <1>2, ClaimIsTyped DEF Transition
  <1>5. CASE Record(w)
    <2>1. PICK now \in Reading(w) : RecordAttempt(k, w, token, now)
      BY <1>5 DEF Record
    <2>2. now \in Nat
      BY <1>1, ReadingIsNat
    <2>3. QED
      BY <1>1, <1>3, <1>4, <2>1, <2>2, RecordReplays
  <1>6. CASE Complete(w)
    <2>1. PICK r \in Answered(w, {"ok"}), now \in Reading(w) :
              CompleteStep(k, w, token, r.ref, now)
      BY <1>6 DEF Complete
    <2>2. now \in Nat /\ r.ref \in Nat \ {0}
      BY <1>1, ReadingIsNat, AnswerIsRef
    <2>3. QED
      BY <1>1, <1>3, <2>1, <2>2, CompleteReplays
  <1>7. CASE Retry(w)
    <2>1. PICK error \in Failures(w) \cap Retryable, until \in Nat,
               now \in Reading(w) :
              ScheduleRetry(k, w, token, error, until, error = "throttled", now)
      BY <1>1, <1>7, RetryDeadline
    <2>2. now \in Nat /\ error \in Error
      BY <1>1, <2>1, ReadingIsNat DEF Retryable, Error
    <2>3. QED
      BY <1>1, <1>3, <2>1, <2>2, RetryReplays
  <1>8. CASE GiveUp(w)
    <2>1. PICK now \in Reading(w), error \in Error :
              FailStep(k, w, token, error, now)
      BY <1>8 DEF GiveUp
    <2>2. now \in Nat
      BY <1>1, ReadingIsNat
    <2>3. QED
      BY <1>1, <1>3, <2>1, <2>2, FailReplays
  <1>9. QED
    BY <1>5, <1>6, <1>7, <1>8 DEF TransitionStep

LEMMA NextReplays ==
    ASSUME Assumptions, EngineInv, ReplayInv, [Next]_vars
    PROVE  ReplayInv'
  <1>1. TypeOK /\ StorageTypeOK /\ StorageAssumption
    BY DEF EngineInv, TypeOK, Assumptions
  <1>2. ASSUME NEW r \in Run, Submit(r)
        PROVE  ReplayInv'
    <2>1. PICK now \in Recent : CreateWorkflowRun(r, now)
      BY <1>2 DEF Submit
    <2>2. now \in Nat
      BY <1>1, RecentIsNat
    <2>3. QED
      BY <1>1, <2>1, <2>2, CreateReplays
  <1>3. ASSUME NEW w \in Worker, ClaimStep(w)
        PROVE  ReplayInv'
    BY <1>3, ReplayStays DEF ClaimStep, ClaimRunnableStep
  <1>4. CASE LeaseStep \/ UNCHANGED vars
    BY <1>4, ReplayStays DEF LeaseStep, vars
  <1>5. QED
    BY <1>1, <1>2, <1>3, <1>4, NextFootprint, TransitionReplays

\* Whatever workers, crashes and takeovers do, the strict reducer accepts every
\* run's history and yields exactly the rows: no transaction of the engine
\* writes a row that its events do not tell, nor an event that is out of turn.
THEOREM EngineHistoryMatches == Spec => []ProjectionMatchesHistory
  <1>1. Assumptions
    BY StorageAssumption, ToolAssumption, EngineAssumption DEF Assumptions
  <1>2. Init => ReplayInv
    BY InitReplays DEF Init
  <1>3. EngineInv /\ ReplayInv /\ [Next]_vars => ReplayInv'
    BY <1>1, NextReplays
  <1>4. Spec => []ReplayInv
    BY <1>2, <1>3, EngineSafety, PTL DEF Spec
  <1>5. ReplayInv => ProjectionMatchesHistory
    BY ReplayInvMatches
  <1>6. QED
    BY <1>4, <1>5, PTL

-----------------------------------------------------------------------------
(* What history tells: the strengthened invariant. *)

Index(r) == DOMAIN events[r]

Scheduled(r) ==
    {i \in DOMAIN events[r] : events[r][i].type = "StepRetryScheduled"}

\* The claim's token and owner are those of the lease row, live or not.
OwnsRun(w) == Owns(RunOf[claim[w].key], w, claim[w].token)

\* Attempts and retries are told in the history of their step's run.
EventsKeepRun ==
    \A r \in Run : \A i \in Started(r) \cup Scheduled(r) :
        events[r][i].key \in Key /\ RunOf[events[r][i].key] = r

\* A run that does not exist has no history.
AbsentIsEmpty ==
    \A r \in Run : runs[r].status = "absent" => events[r] = <<>>

\* The row of a step has counted every attempt history tells of.
StartsAreCounted ==
    \A r \in Run : \A i \in Started(r) :
        events[r][i].attempt \in 1 .. steps[events[r][i].key].attempts

\* No attempt was made under a token above the lease row's, and the claim a
\* worker has yet to use is above them all.
TokensAreBounded ==
    \A r \in Run : \A i \in Started(r) : events[r][i].token <= leases[r].token

FreshIsHigher ==
    \A w \in Worker : (pc[w] = "claimed" /\ OwnsRun(w)) =>
        \A i \in Started(RunOf[claim[w].key]) :
            events[RunOf[claim[w].key]][i].token < claim[w].token

\* Everything told is of the past, and an owner's next reading is not older.
SinceIsPast == \A w \in Worker : since[w] <= clock

TimesArePast ==
    \A r \in Run : \A i \in Index(r) : events[r][i].at <= clock

OwnerIsLater ==
    \A w \in Worker : (pc[w] \in Busy /\ OwnsRun(w)) =>
        \A i \in Index(RunOf[claim[w].key]) :
            events[RunOf[claim[w].key]][i].at <= since[w]

\* No owner's clock is behind what it writes after.
PastInv == SinceIsPast /\ TimesArePast /\ OwnerIsLater

\* A deadline has passed, or the row of its step still waits for it; whoever
\* is about to record an attempt came after the step's deadlines.
DeadlinesWait ==
    \A r \in Run : \A i \in Scheduled(r) :
        \/ events[r][i].until <= clock
        \/ /\ steps[events[r][i].key].status = "retry_wait"
           /\ events[r][i].until <= steps[events[r][i].key].nextAt

OwnerIsDue ==
    \A w \in Worker : (pc[w] = "claimed" /\ OwnsRun(w)) =>
        \A i \in Scheduled(RunOf[claim[w].key]) :
            events[RunOf[claim[w].key]][i].key = claim[w].key
                => events[RunOf[claim[w].key]][i].until <= since[w]

\* A worker sends the request of an attempt that history holds.
SendersAreAttempted ==
    \A w \in Worker : pc[w] \in {"intent", "sent"} =>
        Attempted(claim[w].key, claim[w].attempt)

\* The inductive invariant.
HistoryInv ==
    /\ EventsKeepRun
    /\ AbsentIsEmpty
    /\ StartsAreCounted
    /\ TokensAreBounded
    /\ FreshIsHigher
    /\ FenceTokensIncrease
    /\ SinceIsPast
    /\ TimesArePast
    /\ OwnerIsLater
    /\ HistoryTimesMonotone
    /\ DeadlinesWait
    /\ OwnerIsDue
    /\ NoEarlyRetry
    /\ SendersAreAttempted
    /\ IntentPrecedesEffect

-----------------------------------------------------------------------------
(* What a step adds to history. *)

\* A transition tells, at one reading of the clock, of its own step only.
Tells(w, es, now) ==
    \A j \in DOMAIN es :
        /\ es[j].at = now
        /\ es[j].type = "StepAttemptStarted" =>
              /\ Len(es) = 1 /\ pc[w] = "claimed"
              /\ es[j].key = claim[w].key /\ es[j].token = claim[w].token
              /\ es[j].attempt \in 1 .. steps'[claim[w].key].attempts
        /\ es[j].type = "StepRetryScheduled" =>
              /\ es[j].key = claim[w].key
              /\ steps'[claim[w].key].status = "retry_wait"
              /\ es[j].until = steps'[claim[w].key].nextAt

News(w) ==
    /\ \E now \in Reading(w), es \in Seq(Event) :
          AppendEvents(RunOf[claim[w].key], es) /\ Tells(w, es, now)
    /\ steps[claim[w].key].attempts <= steps'[claim[w].key].attempts
    /\ pc[w] = "claimed" \/ steps[claim[w].key].status = "intent_recorded"

LEMMA NewsFrom ==
    ASSUME NEW w, NEW now \in Reading(w), NEW es \in Seq(Event),
           AppendEvents(RunOf[claim[w].key], es), Tells(w, es, now),
           steps[claim[w].key].attempts <= steps'[claim[w].key].attempts,
           pc[w] = "claimed" \/ steps[claim[w].key].status = "intent_recorded"
    PROVE  News(w)
  BY DEF News

\* What the four transitions have in common.
LEMMA TransitionTypes ==
    ASSUME Assumptions, TypeOK, NEW w \in Worker, pc[w] # "idle"
    PROVE  /\ claim[w].key \in Key /\ RunOf[claim[w].key] \in Run
           /\ claim[w].token \in Nat
           /\ steps \in [Key -> StepRow]
           /\ steps[claim[w].key].attempts \in Nat
           /\ Reading(w) \subseteq Nat
  BY ClaimIsTyped, RunOfType, ReadingIsNat DEF TypeOK, StorageTypeOK, StepRow

LEMMA RecordNews ==
    ASSUME Assumptions, TypeOK, NEW w \in Worker, Record(w)
    PROVE  News(w)
  <1> DEFINE k == claim[w].key
  <1>1. PICK now \in Reading(w) : RecordAttempt(k, w, claim[w].token, now)
    BY DEF Record
  <1> DEFINE e == [type |-> "StepAttemptStarted", key |-> k,
                   attempt |-> steps[k].attempts + 1,
                   owner |-> w, token |-> claim[w].token, at |-> now]
  <1>2. /\ k \in Key /\ RunOf[k] \in Run /\ claim[w].token \in Nat
        /\ steps \in [Key -> StepRow] /\ steps[k].attempts \in Nat
        /\ now \in Nat /\ pc[w] = "claimed"
    BY TransitionTypes DEF Record
  <1>3. <<e>> \in Seq(Event)
    <2>1. e \in Event
      BY <1>2 DEF Event
    <2>2. QED
      BY <2>1, SingleEvent
  <1>4. /\ steps'[k].attempts = steps[k].attempts + 1
        /\ steps[k].attempts <= steps'[k].attempts
    BY <1>1, <1>2 DEF RecordAttempt, IntentRow
  <1>5. Tells(w, <<e>>, now)
    BY <1>2, <1>4 DEF Tells
  <1>6. AppendEvents(RunOf[k], <<e>>)
    BY <1>1 DEF RecordAttempt
  <1>7. QED
    BY <1>2, <1>3, <1>4, <1>5, <1>6, NewsFrom

LEMMA CompleteNews ==
    ASSUME Assumptions, TypeOK, ToolInv, NEW w \in Worker, Complete(w)
    PROVE  News(w)
  <1> DEFINE k == claim[w].key
  <1>1. PICK r \in Answered(w, {"ok"}), now \in Reading(w) :
            CompleteStep(k, w, claim[w].token, r.ref, now)
    BY DEF Complete
  <1> DEFINE e == [type |-> "StepCompleted", key |-> k,
                   attempt |-> steps[k].attempts,
                   output |-> r.ref, at |-> now]
             f == [type |-> "WorkflowRunCompleted", at |-> now]
  <1>2. /\ k \in Key /\ RunOf[k] \in Run /\ r.ref \in Nat \ {0}
        /\ steps \in [Key -> StepRow] /\ steps[k].attempts \in Nat
        /\ now \in Nat
    BY TransitionTypes, AnswerIsRef DEF Complete
  <1>3. <<e>> \in Seq(Event) /\ <<e, f>> \in Seq(Event)
    <2>1. e \in Event /\ f \in Event
      BY <1>2 DEF Event
    <2>2. QED
      BY <2>1, SingleEvent, TwoEvents
  <1>4. steps[k].attempts <= steps'[k].attempts
    BY <1>1, <1>2 DEF CompleteStep, CompletedRow
  <1>5. Tells(w, <<e>>, now) /\ Tells(w, <<e, f>>, now)
    BY DEF Tells
  <1>6. \/ AppendEvents(RunOf[k], <<e>>)
        \/ AppendEvents(RunOf[k], <<e, f>>)
    BY <1>1 DEF CompleteStep
  <1>7. steps[k].status = "intent_recorded"
    BY <1>1 DEF CompleteStep, ActiveAttempt
  <1>8. QED
    BY <1>2, <1>3, <1>4, <1>5, <1>6, <1>7, NewsFrom

LEMMA RetryNews ==
    ASSUME Assumptions, TypeOK, NEW w \in Worker, Retry(w)
    PROVE  News(w)
  <1> DEFINE k == claim[w].key
  <1>0. PICK error \in Failures(w) \cap Retryable :
            \E from, now \in Reading(w), d \in Delays(error, claim[w].attempt) :
               ScheduleRetry(k, w, claim[w].token, error,
                             from + d, error = "throttled", now)
    BY DEF Retry
  <1>1. PICK from \in Reading(w), now \in Reading(w),
             d \in Delays(error, claim[w].attempt) :
            ScheduleRetry(k, w, claim[w].token, error,
                          from + d, error = "throttled", now)
    BY <1>0
  <1> DEFINE until == from + d
             e == [type |-> "StepRetryScheduled", key |-> k,
                   attempt |-> steps[k].attempts,
                   error |-> error, until |-> until, at |-> now]
  <1>2. /\ k \in Key /\ RunOf[k] \in Run
        /\ steps \in [Key -> StepRow] /\ steps[k].attempts \in Nat
        /\ now \in Nat /\ from \in Nat
    BY TransitionTypes DEF Retry
  <1>3. until \in Nat
    <2>1. claim[w].attempt \in 1 .. MaxAttempts
      BY ClaimIsTyped DEF Retry, TypeOK, WorkerTypeOK, Assumptions,
                          EngineAssumption
    <2>2. d \in Nat
      BY <2>1 DEF Delays, Assumptions, EngineAssumption
    <2>3. QED
      BY <1>2, <2>2
  <1>4. <<e>> \in Seq(Event)
    <2>1. e \in Event
      BY <1>2, <1>3 DEF Event, Retryable, Error
    <2>2. QED
      BY <2>1, SingleEvent
  <1>5. /\ steps'[k] = RetryRow(steps[k], error, until)
        /\ steps[k].attempts <= steps'[k].attempts
    BY <1>1, <1>2 DEF ScheduleRetry, RetryRow
  <1>6. Tells(w, <<e>>, now)
    BY <1>5 DEF Tells, RetryRow
  <1>7. AppendEvents(RunOf[k], <<e>>)
    BY <1>1 DEF ScheduleRetry
  <1>8. steps[k].status = "intent_recorded"
    BY <1>1 DEF ScheduleRetry, ActiveAttempt
  <1>9. QED
    BY <1>2, <1>4, <1>5, <1>6, <1>7, <1>8, NewsFrom

LEMMA GiveUpNews ==
    ASSUME Assumptions, TypeOK, NEW w \in Worker, GiveUp(w)
    PROVE  News(w)
  <1> DEFINE k == claim[w].key
  <1>1. PICK now \in Reading(w), error \in Error :
            FailStep(k, w, claim[w].token, error, now)
    BY DEF GiveUp
  <1> DEFINE e == [type |-> "StepFailed", key |-> k,
                   attempt |-> steps[k].attempts,
                   error |-> error, at |-> now]
             f == [type |-> "WorkflowRunFailed", key |-> k,
                   error |-> error, at |-> now]
  <1>2. /\ k \in Key /\ RunOf[k] \in Run
        /\ steps \in [Key -> StepRow] /\ steps[k].attempts \in Nat
        /\ now \in Nat
    BY TransitionTypes DEF GiveUp
  <1>3. <<e, f>> \in Seq(Event)
    <2>1. e \in Event /\ f \in Event
      BY <1>2 DEF Event
    <2>2. QED
      BY <2>1, TwoEvents
  <1>4. steps[k].attempts <= steps'[k].attempts
    BY <1>1, <1>2 DEF FailStep, FailedRow
  <1>5. Tells(w, <<e, f>>, now)
    BY DEF Tells
  <1>6. AppendEvents(RunOf[k], <<e, f>>)
    BY <1>1 DEF FailStep
  <1>7. steps[k].status = "intent_recorded"
    BY <1>1 DEF FailStep, ActiveAttempt
  <1>8. QED
    BY <1>2, <1>3, <1>4, <1>5, <1>6, <1>7, NewsFrom

LEMMA TransitionNews ==
    ASSUME Assumptions, EngineInv, NEW w \in Worker, TransitionStep(w)
    PROVE  News(w)
  BY RecordNews, CompleteNews, RetryNews, GiveUpNews
     DEF EngineInv, TransitionStep
-----------------------------------------------------------------------------
(* Where events come from. *)

\* Every step creates a run, transitions, or leaves rows and history alone.
LEMMA StepKinds ==
    ASSUME Assumptions, EngineInv, Next
    PROVE  \/ \E r \in Run : Submit(r)
           \/ \E w \in Worker : TransitionStep(w) /\ Transition(w) /\ News(w)
           \/ UNCHANGED <<runs, steps, events>>
  <1>1. TypeOK
    BY DEF EngineInv
  <1>2. ASSUME NEW w \in Worker, TransitionStep(w)
        PROVE  Transition(w) /\ News(w)
    BY <1>1, <1>2, TransitionFootprint, TransitionNews
  <1>3. ASSUME NEW w \in Worker, ClaimStep(w)
        PROVE  UNCHANGED <<runs, steps, events>>
    BY <1>3 DEF ClaimStep, ClaimRunnableStep
  <1>4. QED
    BY <1>1, <1>2, <1>3, NextFootprint DEF LeaseStep

\* What the new event at place i says, if worker w has written it.
Told(w, q, i) ==
    LET e == events'[q][i]
    IN  /\ q = RunOf[claim[w].key]
        /\ e.at \in Reading(w)
        /\ e.type = "StepAttemptStarted" =>
              /\ i = Len(events[q]) + 1 /\ pc[w] = "claimed"
              /\ e.key = claim[w].key /\ e.token = claim[w].token
              /\ e.attempt \in 1 .. steps'[claim[w].key].attempts
        /\ e.type = "StepRetryScheduled" =>
              /\ e.key = claim[w].key
              /\ steps'[claim[w].key].status = "retry_wait"
              /\ e.until = steps'[claim[w].key].nextAt

LEMMA EventOrigin ==
    ASSUME Assumptions, EngineInv, AbsentIsEmpty, Next,
           NEW q \in Run, NEW i \in Index(q)'
    PROVE  \/ i \in Index(q) /\ events'[q][i] = events[q][i]
           \/ /\ i > Len(events[q])
              /\ \/ /\ Submit(q) /\ i = 1
                    /\ events'[q][i].type = "WorkflowRunCreated"
                    /\ events'[q][i].at \in Recent
                 \/ \E w \in Worker : /\ TransitionStep(w) /\ Transition(w)
                                      /\ Told(w, q, i)
  <1>1. TypeOK /\ events \in [Run -> Seq(Event)] /\ i \in DOMAIN events'[q]
    BY DEF EngineInv, TypeOK, StorageTypeOK, Index
  <1>2. ASSUME NEW r \in Run, Submit(r)
        PROVE  \/ i \in Index(q) /\ events'[q][i] = events[q][i]
               \/ /\ i > Len(events[q]) /\ q = r /\ i = 1
                  /\ events'[q][i].type = "WorkflowRunCreated"
                  /\ events'[q][i].at \in Recent
    <2>1. PICK now \in Recent : CreateWorkflowRun(r, now)
      BY <1>2 DEF Submit
    <2> DEFINE e == [type |-> "WorkflowRunCreated", at |-> now]
    <2>2. events[r] = <<>> /\ AppendEvents(r, <<e>>)
      BY <2>1 DEF CreateWorkflowRun, AbsentIsEmpty
    <2>3. now \in Nat /\ e \in Event
      BY <1>1, <2>1, RecentIsNat DEF TypeOK, Event
    <2>4. <<e>> \in Seq(Event) /\ DOMAIN <<e>> = {1} /\ <<e>>[1] = e
      BY <2>3, SingleEvent
    <2> HIDE DEF e
    <2>5. \/ i \in DOMAIN events[q] /\ events'[q][i] = events[q][i]
          \/ /\ q = r /\ i > Len(events[r])
             /\ events'[q][i] = e /\ i = Len(events[r]) + 1
      <3>1. \/ i \in DOMAIN events[q] /\ events'[q][i] = events[q][i]
            \/ /\ q = r /\ i > Len(events[r])
               /\ \E j \in DOMAIN <<e>> : /\ events'[q][i] = <<e>>[j]
                                         /\ i = Len(events[r]) + j
        <4> DEFINE es == <<e>>
        <4>1. es \in Seq(Event) /\ AppendEvents(r, es)
          BY <2>2, <2>4
        <4> HIDE DEF es
        <4>2. \/ i \in DOMAIN events[q] /\ events'[q][i] = events[q][i]
              \/ /\ q = r /\ i > Len(events[r])
                 /\ \E j \in DOMAIN es : /\ events'[q][i] = es[j]
                                         /\ i = Len(events[r]) + j
          BY <1>1, <4>1, AppendedIsOldOrNew
        <4>3. QED
          BY <4>2 DEF es
      <3>2. QED
        BY <2>4, <3>1
    <2>6. QED
      BY <2>1, <2>2, <2>5 DEF Index, e
  <1>3. ASSUME NEW w \in Worker, Transition(w), News(w)
        PROVE  \/ i \in Index(q) /\ events'[q][i] = events[q][i]
               \/ i > Len(events[q]) /\ Told(w, q, i)
    <2>1. PICK now \in Reading(w), es \in Seq(Event) :
              AppendEvents(RunOf[claim[w].key], es) /\ Tells(w, es, now)
      BY <1>3 DEF News
    <2>2. RunOf[claim[w].key] \in Run
      BY <1>1, <1>3, TransitionTypes DEF Transition
    <2>3. CASE i \in DOMAIN events[q] /\ events'[q][i] = events[q][i]
      BY <2>3 DEF Index
    <2>4. CASE /\ q = RunOf[claim[w].key] /\ i > Len(events[q])
               /\ \E j \in DOMAIN es : /\ events'[q][i] = es[j]
                                       /\ i = Len(events[q]) + j
      <3>1. PICK j \in DOMAIN es : /\ events'[q][i] = es[j]
                                   /\ i = Len(events[q]) + j
        BY <2>4
      <3>2. Len(es) = 1 => j = 1
        BY <3>1
      <3>3. QED
        BY <2>1, <2>4, <3>1, <3>2 DEF Tells, Told
    <2>5. QED
      BY <1>1, <2>1, <2>2, <2>3, <2>4, AppendedIsOldOrNew
  <1>4. CASE UNCHANGED events
    BY <1>4 DEF Index
  <1>5. QED
    BY <1>2, <1>3, <1>4, StepKinds

\* One transition tells everything at one time.
LEMMA OneTime ==
    ASSUME Assumptions, EngineInv, NEW w \in Worker, TransitionStep(w),
           NEW q \in Run, q = RunOf[claim[w].key]
    PROVE  \E now \in Reading(w) : \A i \in Index(q)' :
              i \in Index(q) \/ events'[q][i].at = now
  <1>1. events \in [Run -> Seq(Event)]
    BY DEF EngineInv, TypeOK, StorageTypeOK
  <1>2. PICK now \in Reading(w), es \in Seq(Event) :
            AppendEvents(q, es) /\ Tells(w, es, now)
    BY TransitionNews DEF News
  <1>3. ASSUME NEW i \in DOMAIN events'[q]
        PROVE  \/ i \in DOMAIN events[q]
               \/ \E j \in DOMAIN es : events'[q][i] = es[j]
    BY <1>1, <1>2, AppendedIsOldOrNew
  <1>4. \A j \in DOMAIN es : es[j].at = now
    BY <1>2 DEF Tells
  <1>5. QED
    BY <1>3, <1>4 DEF Index

\* History is append-only.
LEMMA HistoryStays ==
    ASSUME Assumptions, EngineInv, Next, NEW q \in Run, NEW i \in Index(q)
    PROVE  i \in Index(q)' /\ events'[q][i] = events[q][i]
  <1>1. TypeOK /\ events \in [Run -> Seq(Event)]
    BY DEF EngineInv, TypeOK, StorageTypeOK
  <1>2. ASSUME NEW r \in Run, NEW es \in Seq(Event), AppendEvents(r, es)
        PROVE  i \in Index(q)' /\ events'[q][i] = events[q][i]
    <2>1. CASE q # r
      BY <1>1, <1>2, <2>1 DEF AppendEvents, Index
    <2>2. CASE q = r
      <3>1. events'[r] = events[r] \o es /\ events[r] \in Seq(Event)
        BY <1>1, <1>2 DEF AppendEvents
      <3>2. /\ Len(events'[r]) = Len(events[r]) + Len(es)
            /\ Len(events[r]) \in Nat /\ Len(es) \in Nat
            /\ DOMAIN events'[r] = 1 .. Len(events'[r])
            /\ i \in 1 .. Len(events[r])
            /\ \A n \in 1 .. Len(events[r]) : events'[r][n] = events[r][n]
        BY <2>2, <3>1 DEF Index
      <3>3. QED
        BY <2>2, <3>2 DEF Index
    <2>3. QED
      BY <2>1, <2>2
  <1>3. ASSUME NEW r \in Run, Submit(r)
        PROVE  i \in Index(q)' /\ events'[q][i] = events[q][i]
    <2>1. PICK now \in Recent : CreateWorkflowRun(r, now)
      BY <1>3 DEF Submit
    <2> DEFINE e == [type |-> "WorkflowRunCreated", at |-> now]
    <2>2. e \in Event
      BY <1>1, RecentIsNat DEF TypeOK, Event
    <2>3. <<e>> \in Seq(Event) /\ AppendEvents(r, <<e>>)
      BY <2>1, <2>2, SingleEvent DEF CreateWorkflowRun
    <2>4. QED
      BY <1>2, <2>3
  <1>4. ASSUME NEW w \in Worker, Transition(w), News(w)
        PROVE  i \in Index(q)' /\ events'[q][i] = events[q][i]
    <2>1. RunOf[claim[w].key] \in Run
      BY <1>1, <1>4, TransitionTypes DEF Transition
    <2>2. QED
      BY <1>2, <1>4, <2>1 DEF News
  <1>5. QED
    BY <1>3, <1>4, StepKinds DEF Index
-----------------------------------------------------------------------------
(* What only grows. *)

LEMMA EventFields ==
    ASSUME NEW e \in Event
    PROVE  /\ e.at \in Nat
           /\ e.type = "StepAttemptStarted" =>
                 e.token \in Nat /\ e.attempt \in Nat
           /\ e.type = "StepRetryScheduled" => e.until \in Nat
  BY DEF Event

LEMMA EventTypes ==
    ASSUME TypeOK, NEW r \in Run, NEW i \in Index(r)
    PROVE  /\ i \in 1 .. Len(events[r]) /\ Len(events[r]) \in Nat /\ i \in Nat
           /\ events[r][i] \in Event /\ events[r][i].at \in Nat
           /\ events[r][i].type = "StepAttemptStarted" =>
                 events[r][i].token \in Nat /\ events[r][i].attempt \in Nat
           /\ events[r][i].type = "StepRetryScheduled" =>
                 events[r][i].until \in Nat
  <1>1. events[r] \in Seq(Event)
    BY DEF TypeOK, StorageTypeOK
  <1>2. /\ i \in 1 .. Len(events[r]) /\ Len(events[r]) \in Nat /\ i \in Nat
        /\ events[r][i] \in Event
    BY <1>1 DEF Index
  <1>3. QED
    BY <1>2, EventFields

LEMMA ClockTypes ==
    ASSUME Assumptions, TypeOK
    PROVE  /\ clock \in Nat /\ since \in [Worker -> Nat]
           /\ \A w \in Worker : \A t \in Reading(w) :
                 t \in Nat /\ since[w] <= t /\ t <= clock
           /\ \A t \in Recent : t \in Nat /\ t <= clock
  BY DEF TypeOK, StorageTypeOK, WorkerTypeOK, Reading, Recent

\* A worker's earliest reading moves forward, never past the clock.
LEMMA SinceMoves ==
    ASSUME Assumptions, TypeOK, SinceIsPast, Next
    PROVE  /\ clock \in Nat /\ clock' \in Nat /\ clock <= clock'
           /\ \A w \in Worker :
                 /\ since[w] \in Nat /\ since'[w] \in Nat
                 /\ since[w] <= since'[w] /\ since'[w] <= clock'
  <1>1. clock \in Nat /\ since \in [Worker -> Nat] /\ MaxLag \in Nat
    BY ClockTypes DEF Assumptions, StorageAssumption
  <1>2. ASSUME NEW v \in Worker, since' = [since EXCEPT ![v] = clock],
               clock' = clock
        PROVE  /\ clock' \in Nat /\ clock <= clock'
               /\ \A w \in Worker : /\ since'[w] \in Nat
                                    /\ since[w] <= since'[w]
                                    /\ since'[w] <= clock'
    BY <1>1, <1>2 DEF SinceIsPast
  <1>3. CASE UNCHANGED <<since, clock>>
    BY <1>1, <1>3 DEF SinceIsPast
  <1>4. CASE Tick
    <2>1. clock' = clock + 1
      BY <1>4 DEF Tick
    <2>2. ASSUME NEW w \in Worker
          PROVE  since'[w] = IF since[w] + MaxLag < clock + 1
                             THEN clock + 1 - MaxLag ELSE since[w]
      BY <1>1, <1>4, <2>1 DEF Tick
    <2>3. QED
      BY <1>1, <2>1, <2>2 DEF SinceIsPast
  <1>5. \/ \E v \in Worker : /\ since' = [since EXCEPT ![v] = clock]
                            /\ clock' = clock
        \/ UNCHANGED <<since, clock>>
        \/ Tick
    BY DEF Next, Submit, RunOnce, ClaimStep, Record, RecordTooLate, Send,
           Complete, Retry, GiveUp, Discard, Raise, Release, Heartbeat, Renew,
           RenewLate, Crash, ToolStep, Goto, Stay, workerVars, storageVars
  <1>6. QED
    BY <1>1, <1>2, <1>3, <1>4, <1>5

\* Whoever claims or records reads no clock older than that again.
LEMMA MoversAreCurrent ==
    ASSUME Assumptions, TypeOK, NEW w \in Worker,
           ClaimStep(w) \/ TransitionStep(w)
    PROVE  since'[w] = clock /\ clock' = clock
  BY ClockTypes
     DEF ClaimStep, TransitionStep, Record, Complete, Retry, GiveUp, Stay,
         Goto

\* A lease row's token never falls.
LEMMA TokensGrow ==
    ASSUME Assumptions, EngineInv, Next, NEW r \in Run
    PROVE  /\ leases[r].token \in Nat /\ leases'[r].token \in Nat
           /\ leases[r].token <= leases'[r].token
  <1>1. TypeOK /\ leases \in [Run -> LeaseRow] /\ leases[r].token \in Nat
    BY DEF EngineInv, TypeOK, StorageTypeOK, LeaseRow
  <1>2. ASSUME NEW w \in Worker, ClaimStep(w)
        PROVE  \/ leases'[r].token = leases[r].token
               \/ leases'[r].token = leases[r].token + 1
    <2>1. PICK k \in Key, now \in Reading(w) : ClaimRunnableStep(w, k, now)
      BY <1>2 DEF ClaimStep
    <2>2. QED
      BY <1>1, <2>1 DEF ClaimRunnableStep
  <1>3. ASSUME NEW w \in Worker, TransitionStep(w)
        PROVE  leases' = leases
    BY <1>1, <1>3, TransitionFootprint DEF Transition
  <1>4. ASSUME NEW q \in Run, Submit(q)
        PROVE  leases' = leases
    BY <1>4 DEF Submit, CreateWorkflowRun
  <1>5. CASE LeaseStep
    BY <1>1, <1>5 DEF LeaseStep
  <1>6. QED
    BY <1>1, <1>2, <1>3, <1>4, <1>5, NextFootprint

\* The row of a step of an existing run never forgets an attempt.
LEMMA AttemptsGrow ==
    ASSUME Assumptions, EngineInv, Next, NEW k \in Key,
           runs[RunOf[k]].status # "absent"
    PROVE  /\ steps[k].attempts \in Nat
           /\ steps'[k].attempts \in Nat
           /\ steps[k].attempts <= steps'[k].attempts
  <1>1. TypeOK /\ steps \in [Key -> StepRow] /\ steps[k].attempts \in Nat
    BY DEF EngineInv, TypeOK, StorageTypeOK, StepRow
  <1>2. steps'[k].attempts \in Nat
    <2>1. StorageTypeOK'
      BY <1>1, NextType DEF EngineInv
    <2>2. QED
      BY <2>1 DEF StorageTypeOK, StepRow
  <1>3. ASSUME NEW r \in Run, Submit(r)
        PROVE  steps'[k] = steps[k]
    BY <1>1, <1>3 DEF Submit, CreateWorkflowRun
  <1>4. ASSUME NEW w \in Worker, Transition(w), News(w)
        PROVE  steps[k].attempts <= steps'[k].attempts
    <2>1. CASE claim[w].key = k
      BY <1>4, <2>1 DEF News
    <2>2. CASE claim[w].key # k
      BY <1>1, <1>4, <2>2 DEF Transition
    <2>3. QED
      BY <2>1, <2>2
  <1>5. QED
    BY <1>1, <1>2, <1>3, <1>4, StepKinds
-----------------------------------------------------------------------------
(* Each part of the invariant is kept. *)

LEMMA EventsKeepRunStep ==
    ASSUME Assumptions, EngineInv, HistoryInv, Next
    PROVE  EventsKeepRun'
  <1> SUFFICES ASSUME NEW q \in Run, NEW i \in Index(q)',
                      events'[q][i].type \in {"StepAttemptStarted",
                                             "StepRetryScheduled"}
               PROVE  events'[q][i].key \in Key /\ RunOf[events'[q][i].key] = q
    BY DEF EventsKeepRun, Started, Scheduled, Index
  <1>1. CASE i \in Index(q) /\ events'[q][i] = events[q][i]
    BY <1>1 DEF HistoryInv, EventsKeepRun, Started, Scheduled, Index
  <1>2. ASSUME NEW w \in Worker, Transition(w), Told(w, q, i)
        PROVE  events'[q][i].key \in Key /\ RunOf[events'[q][i].key] = q
    BY <1>2, ClaimIsTyped DEF Told, Transition, EngineInv
  <1>3. QED
    BY <1>1, <1>2, EventOrigin DEF HistoryInv

LEMMA AbsentIsEmptyStep ==
    ASSUME Assumptions, EngineInv, HistoryInv, Next
    PROVE  AbsentIsEmpty'
  <1> SUFFICES ASSUME NEW q \in Run, runs'[q].status = "absent"
               PROVE  events'[q] = <<>>
    BY DEF AbsentIsEmpty
  <1>1. /\ TypeOK /\ runs \in [Run -> RunRow] /\ ClaimsAreReady
        /\ events \in [Run -> Seq(Event)]
    BY DEF EngineInv, TypeOK, StorageTypeOK
  <1>2. runs[q].status = "absent" /\ events[q] = <<>>
    BY ExistingStays DEF HistoryInv, AbsentIsEmpty
  <1>3. ASSUME NEW r \in Run, Submit(r)
        PROVE  events'[q] = events[q]
    BY <1>1, <1>3 DEF Submit, CreateWorkflowRun, AppendEvents
  <1>4. ASSUME NEW w \in Worker, Transition(w)
        PROVE  events'[q] = events[q]
    BY <1>1, <1>2, <1>4 DEF Transition, ClaimsAreReady, Busy
  <1>5. QED
    BY <1>2, <1>3, <1>4, StepKinds

LEMMA StartsAreCountedStep ==
    ASSUME Assumptions, EngineInv, HistoryInv, Next
    PROVE  StartsAreCounted'
  <1> SUFFICES ASSUME NEW q \in Run, NEW i \in Index(q)',
                      events'[q][i].type = "StepAttemptStarted"
               PROVE  events'[q][i].attempt \in
                          1 .. steps'[events'[q][i].key].attempts
    BY DEF StartsAreCounted, Started, Index
  <1>1. CASE i \in Index(q) /\ events'[q][i] = events[q][i]
    <2> DEFINE k == events[q][i].key
    <2>1. k \in Key /\ RunOf[k] = q
      BY <1>1 DEF HistoryInv, EventsKeepRun, Started, Index
    <2>2. events[q][i].attempt \in 1 .. steps[k].attempts
      BY <1>1 DEF HistoryInv, StartsAreCounted, Started, Index
    <2>3. runs[RunOf[k]].status # "absent"
      BY <1>1, <2>1 DEF HistoryInv, AbsentIsEmpty, Index
    <2>4. /\ steps[k].attempts \in Nat /\ steps'[k].attempts \in Nat
          /\ steps[k].attempts <= steps'[k].attempts
      BY <2>1, <2>3, AttemptsGrow
    <2>5. QED
      BY <1>1, <2>2, <2>4
  <1>2. ASSUME NEW w \in Worker, Told(w, q, i)
        PROVE  events'[q][i].attempt \in
                   1 .. steps'[events'[q][i].key].attempts
    BY <1>2 DEF Told
  <1>3. QED
    BY <1>1, <1>2, EventOrigin DEF HistoryInv

LEMMA TokensAreBoundedStep ==
    ASSUME Assumptions, EngineInv, HistoryInv, Next
    PROVE  TokensAreBounded'
  <1> SUFFICES ASSUME NEW q \in Run, NEW i \in Index(q)',
                      events'[q][i].type = "StepAttemptStarted"
               PROVE  events'[q][i].token <= leases'[q].token
    BY DEF TokensAreBounded, Started, Index
  <1>0. TypeOK /\ leases[q].token \in Nat /\ leases'[q].token \in Nat
        /\ leases[q].token <= leases'[q].token
    BY TokensGrow DEF EngineInv
  <1>1. CASE i \in Index(q) /\ events'[q][i] = events[q][i]
    <2>1. /\ events[q][i].token <= leases[q].token
          /\ events[q][i].token \in Nat
      BY <1>0, <1>1, EventTypes DEF HistoryInv, TokensAreBounded, Started,
                                    Index
    <2>2. QED
      BY <1>0, <1>1, <2>1
  <1>2. ASSUME NEW w \in Worker, Transition(w), Told(w, q, i)
        PROVE  events'[q][i].token <= leases'[q].token
    BY <1>0, <1>2 DEF Told, Transition, Owns
  <1>3. QED
    BY <1>1, <1>2, EventOrigin DEF HistoryInv

\* A busy worker that names the lease row has just claimed, has just recorded,
\* or has been alone with its run.
LEMMA OwnerOrigin ==
    ASSUME Assumptions, EngineInv, Next, NEW w \in Worker,
           pc'[w] \in Busy, OwnsRun(w)'
    PROVE  \/ ClaimStep(w) /\ pc'[w] = "claimed"
           \/ Record(w) /\ pc'[w] = "intent"
           \/ /\ pc[w] \in Busy /\ claim'[w] = claim[w] /\ Untouched(w)
              /\ pc'[w] = pc[w] \/ (pc[w] = "intent" /\ pc'[w] = "sent")
  <1>1. TypeOK /\ pc \in [Worker -> Location]
    BY DEF EngineInv, TypeOK, WorkerTypeOK
  <1>2. CASE ClaimStep(w)
    BY <1>1, <1>2 DEF ClaimStep, Goto
  <1>3. CASE Record(w)
    BY <1>1, <1>3 DEF Record, Goto
  <1>4. CASE /\ ~ ClaimStep(w) /\ ~ Record(w)
             /\ pc[w] \in Busy /\ claim'[w] = claim[w]
             /\ pc'[w] = pc[w] \/ (pc[w] = "intent" /\ pc'[w] = "sent")
    <2>1. Owns(RunOf[claim[w].key], w, claim[w].token)'
      BY DEF OwnsRun
    <2>2. QED
      BY <1>4, <2>1, OwnerAlone
  <1>5. QED
    BY <1>1, <1>2, <1>3, <1>4, BusyOrigin

\* A claim's token is one above the lease row's, hence above history's.
LEMMA FreshIsHigherStep ==
    ASSUME Assumptions, EngineInv, HistoryInv, Next
    PROVE  FreshIsHigher'
  <1> SUFFICES ASSUME NEW w \in Worker, pc'[w] = "claimed", OwnsRun(w)',
                      NEW q, q = RunOf[claim'[w].key],
                      NEW i \in Index(q)',
                      events'[q][i].type = "StepAttemptStarted"
               PROVE  events'[q][i].token < claim'[w].token
    BY DEF FreshIsHigher, Started, Index
  <1>1. /\ TypeOK /\ leases \in [Run -> LeaseRow]
        /\ claim \in [Worker -> Claim \cup {NoClaim}]
    BY DEF EngineInv, TypeOK, StorageTypeOK, WorkerTypeOK
  <1>2. CASE ClaimStep(w)
    <2>1. PICK k \in Key, now \in Reading(w) :
              /\ ClaimRunnableStep(w, k, now)
              /\ claim' = [claim EXCEPT ![w] =
                   [key |-> k, token |-> leases'[RunOf[k]].token,
                    attempt |-> 0]]
      BY <1>2 DEF ClaimStep
    <2>2. /\ q = RunOf[k] /\ q \in Run
          /\ claim'[w].token = leases'[RunOf[k]].token
      BY <1>1, <2>1, RunOfType
    <2>3. leases'[q].token = leases[q].token + 1 /\ UNCHANGED events
      BY <1>1, <2>1, <2>2 DEF ClaimRunnableStep
    <2>4. /\ events[q][i].token <= leases[q].token
          /\ events[q][i].token \in Nat
      BY <1>1, <2>2, <2>3, EventTypes
         DEF HistoryInv, TokensAreBounded, Started, Index
    <2>5. leases[q].token \in Nat
      BY <2>2, TokensGrow
    <2>6. QED
      BY <2>2, <2>3, <2>4, <2>5
  <1>3. CASE pc[w] = "claimed" /\ claim'[w] = claim[w] /\ Untouched(w)
    BY <1>3 DEF Untouched, HistoryInv, FreshIsHigher, OwnsRun, Started, Index
  <1>4. QED
    BY <1>2, <1>3, OwnerOrigin DEF Busy

LEMMA FenceTokensIncreaseStep ==
    ASSUME Assumptions, EngineInv, HistoryInv, Next
    PROVE  FenceTokensIncrease'
  <1> SUFFICES ASSUME NEW q \in Run, NEW i \in Index(q)', NEW j \in Index(q)',
                      i < j,
                      events'[q][i].type = "StepAttemptStarted",
                      events'[q][j].type = "StepAttemptStarted"
               PROVE  events'[q][i].token < events'[q][j].token
    BY DEF FenceTokensIncrease, Started, Index
  <1>1. TypeOK /\ TypeOK'
    BY NextInv DEF EngineInv
  <1>2. i \in Nat /\ j \in Nat /\ Len(events[q]) \in Nat
        /\ Index(q) = 1 .. Len(events[q])
    BY <1>1, EventTypes DEF TypeOK, StorageTypeOK, Index
  <1>3. CASE j \in Index(q) /\ events'[q][j] = events[q][j]
    <2>1. i \in Index(q) /\ events'[q][i] = events[q][i]
      BY <1>2, <1>3, EventOrigin DEF HistoryInv
    <2>2. QED
      BY <1>3, <2>1 DEF HistoryInv, FenceTokensIncrease, Started, Index
  <1>4. ASSUME NEW w \in Worker, Transition(w), Told(w, q, j)
        PROVE  events'[q][i].token < events'[q][j].token
    <2>1. /\ pc[w] = "claimed" /\ j = Len(events[q]) + 1
          /\ q = RunOf[claim[w].key] /\ events'[q][j].token = claim[w].token
      BY <1>4 DEF Told
    <2>2. i \in Index(q) /\ events'[q][i] = events[q][i]
      BY <1>2, <2>1, EventOrigin DEF HistoryInv
    <2>3. OwnsRun(w)
      BY <1>4 DEF Transition, OwnsRun
    <2>4. QED
      BY <2>1, <2>2, <2>3 DEF HistoryInv, FreshIsHigher, Started, Index
  <1>5. QED
    BY <1>3, <1>4, EventOrigin DEF HistoryInv

\* No reading is older than the step before it, whoever makes it.
LEMMA TimesArePastStep ==
    ASSUME Assumptions, EngineInv, AbsentIsEmpty, PastInv, Next
    PROVE  SinceIsPast' /\ TimesArePast'
  <1>1. TypeOK /\ SinceIsPast
    BY DEF EngineInv, PastInv
  <1>2. /\ clock \in Nat /\ clock' \in Nat /\ clock <= clock'
        /\ SinceIsPast'
    BY <1>1, SinceMoves DEF SinceIsPast
  <1>3. ASSUME NEW q \in Run, NEW i \in Index(q)'
        PROVE  events'[q][i].at <= clock'
    <2>1. CASE i \in Index(q) /\ events'[q][i] = events[q][i]
      <3>1. events[q][i].at <= clock /\ events[q][i].at \in Nat
        BY <1>1, <2>1, EventTypes DEF PastInv, TimesArePast
      <3>2. QED
        BY <1>2, <2>1, <3>1
    <2>2. CASE events'[q][i].at \in Recent
      BY <1>1, <1>2, <2>2, ClockTypes
    <2>3. ASSUME NEW w \in Worker, Told(w, q, i)
          PROVE  events'[q][i].at \in Recent
      BY <2>3 DEF Told, Reading
    <2>4. QED
      BY <1>3, <2>1, <2>2, <2>3, EventOrigin
  <1>4. QED
    BY <1>2, <1>3 DEF TimesArePast

\* Whoever claims a run comes after its history; whoever stays its owner has
\* written all that came since.
LEMMA OwnerIsLaterStep ==
    ASSUME Assumptions, EngineInv, AbsentIsEmpty, PastInv, Next
    PROVE  OwnerIsLater'
  <1> SUFFICES ASSUME NEW w \in Worker, pc'[w] \in Busy, OwnsRun(w)',
                      NEW q, q = RunOf[claim'[w].key],
                      NEW i \in Index(q)'
               PROVE  events'[q][i].at <= since'[w]
    BY DEF OwnerIsLater
  <1>1. TypeOK /\ TypeOK' /\ SinceIsPast
    BY NextInv DEF EngineInv, PastInv
  <1>2. q \in Run
    BY <1>1, ClaimIsTyped, RunOfType DEF TypeOK, WorkerTypeOK, Busy, Claim
  <1>3. CASE ClaimStep(w) \/ Record(w)
    <2>1. since'[w] = clock /\ clock' = clock
      BY <1>1, <1>3, MoversAreCurrent DEF TransitionStep
    <2>2. QED
      BY <1>2, <2>1, TimesArePastStep DEF TimesArePast
  <1>4. CASE pc[w] \in Busy /\ claim'[w] = claim[w] /\ Untouched(w)
    <2>1. i \in Index(q) /\ events'[q][i] = events[q][i] /\ OwnsRun(w)
      BY <1>4 DEF Untouched, OwnsRun, Index
    <2>2. events[q][i].at <= since[w] /\ events[q][i].at \in Nat
      BY <1>1, <1>2, <1>4, <2>1, EventTypes DEF PastInv, OwnerIsLater
    <2>3. /\ since[w] \in Nat /\ since'[w] \in Nat
          /\ since[w] <= since'[w]
      BY <1>1, SinceMoves
    <2>4. QED
      BY <2>1, <2>2, <2>3
  <1>5. QED
    BY <1>3, <1>4, OwnerOrigin

LEMMA HistoryTimesMonotoneStep ==
    ASSUME Assumptions, EngineInv, HistoryInv, Next
    PROVE  HistoryTimesMonotone'
  <1> SUFFICES ASSUME NEW q \in Run, NEW i \in Index(q)', NEW j \in Index(q)',
                      i < j
               PROVE  events'[q][i].at <= events'[q][j].at
    BY DEF HistoryTimesMonotone, Index
  <1>1. TypeOK /\ TypeOK'
    BY NextInv DEF EngineInv
  <1>2. /\ i \in Nat /\ j \in Nat /\ i >= 1 /\ Len(events[q]) \in Nat
        /\ Index(q) = 1 .. Len(events[q])
        /\ events'[q][i].at \in Nat
    <2>1. /\ i \in Nat /\ j \in Nat /\ i >= 1 /\ Len(events[q]) \in Nat
          /\ Index(q) = 1 .. Len(events[q]) /\ events'[q][i] \in Event
      BY <1>1 DEF TypeOK, StorageTypeOK, Index
    <2>2. QED
      BY <2>1, EventFields
  <1>3. CASE j \in Index(q) /\ events'[q][j] = events[q][j]
    <2>1. i \in Index(q) /\ events'[q][i] = events[q][i]
      BY <1>2, <1>3, EventOrigin DEF HistoryInv
    <2>2. QED
      BY <1>3, <2>1 DEF HistoryInv, HistoryTimesMonotone, Index
  <1>4. ASSUME NEW w \in Worker, TransitionStep(w), Transition(w),
               Told(w, q, j), j > Len(events[q])
        PROVE  events'[q][i].at <= events'[q][j].at
    <2>1. q = RunOf[claim[w].key] /\ events'[q][j].at \in Reading(w)
      BY <1>4 DEF Told
    <2>2. CASE i \in Index(q)
      <3>1. events'[q][i] = events[q][i]
        BY <2>2, HistoryStays
      <3>2. pc[w] \in Busy /\ OwnsRun(w)
        BY <1>4 DEF Transition, OwnsRun, Busy
      <3>3. events[q][i].at <= since[w]
        BY <2>1, <2>2, <3>2 DEF HistoryInv, OwnerIsLater
      <3>4. /\ events'[q][j].at \in Nat /\ since[w] \in Nat
            /\ since[w] <= events'[q][j].at
        BY <1>1, <2>1, ClockTypes
      <3>5. QED
        BY <1>2, <3>1, <3>3, <3>4
    <2>3. CASE i \notin Index(q)
      <3>1. events'[q][i].at = events'[q][j].at
        BY <1>2, <1>4, <2>1, <2>3, OneTime
      <3>2. QED
        BY <1>2, <3>1
    <2>4. QED
      BY <2>2, <2>3
  <1>5. QED
    BY <1>2, <1>3, <1>4, EventOrigin DEF HistoryInv

\* A deadline can only be overtaken by whoever came after it.
LEMMA DeadlinesWaitStep ==
    ASSUME Assumptions, EngineInv, HistoryInv, Next
    PROVE  DeadlinesWait'
  <1> SUFFICES ASSUME NEW q \in Run, NEW i \in Index(q)',
                      events'[q][i].type = "StepRetryScheduled"
               PROVE  LET e == events'[q][i]
                      IN  \/ e.until <= clock'
                          \/ /\ steps'[e.key].status = "retry_wait"
                             /\ e.until <= steps'[e.key].nextAt
    BY DEF DeadlinesWait, Scheduled, Index
  <1>1. /\ TypeOK /\ TypeOK' /\ steps \in [Key -> StepRow]
        /\ clock \in Nat /\ clock' \in Nat /\ clock <= clock'
        /\ SinceIsPast
    BY NextInv, SinceMoves DEF EngineInv, TypeOK, StorageTypeOK, HistoryInv
  <1>2. CASE i \in Index(q) /\ events'[q][i] = events[q][i]
    <2> DEFINE e == events[q][i]
    <2>1. /\ e.type = "StepRetryScheduled" /\ e.until \in Nat
          /\ e.key \in Key /\ RunOf[e.key] = q
      BY <1>1, <1>2, EventTypes
         DEF HistoryInv, EventsKeepRun, Scheduled, Index
    <2>2. CASE e.until <= clock
      BY <1>1, <1>2, <2>1, <2>2
    <2>3. CASE /\ steps[e.key].status = "retry_wait"
               /\ e.until <= steps[e.key].nextAt
      <3>1. CASE steps'[e.key] = steps[e.key]
        BY <1>2, <2>3, <3>1
      <3>2. ASSUME NEW r \in Run, Submit(r)
            PROVE  steps'[e.key] = steps[e.key]
        <4>1. runs[q].status # "absent"
          BY <1>2 DEF HistoryInv, AbsentIsEmpty, Index
        <4>2. QED
          BY <1>1, <2>1, <3>2, <4>1 DEF Submit, CreateWorkflowRun
      <3>3. ASSUME NEW w \in Worker, Transition(w), News(w),
                   steps'[e.key] # steps[e.key]
            PROVE  e.until <= clock
        <4>1. claim[w].key = e.key /\ pc[w] = "claimed" /\ OwnsRun(w)
          BY <2>1, <2>3, <3>3 DEF Transition, News, OwnsRun
        <4>2. e.until <= since[w]
          BY <1>2, <2>1, <4>1 DEF HistoryInv, OwnerIsDue, Scheduled, Index
        <4>3. since[w] \in Nat /\ since[w] <= clock
          BY <1>1, ClockTypes DEF SinceIsPast
        <4>4. QED
          BY <1>1, <2>1, <4>2, <4>3
      <3>4. QED
        BY <2>2, <3>1, <3>2, <3>3, StepKinds
    <2>4. QED
      BY <1>2, <2>1, <2>2, <2>3
         DEF HistoryInv, DeadlinesWait, Scheduled, Index
  <1>3. ASSUME NEW w \in Worker, Told(w, q, i)
        PROVE  /\ steps'[events'[q][i].key].status = "retry_wait"
               /\ events'[q][i].until <= steps'[events'[q][i].key].nextAt
    <2>1. events'[q][i] \in Event
      BY <1>1 DEF TypeOK, StorageTypeOK, Index
    <2>2. events'[q][i].until \in Nat
      BY <2>1, EventFields
    <2>3. QED
      BY <1>3, <2>2 DEF Told
  <1>4. QED
    BY <1>2, <1>3, EventOrigin DEF HistoryInv

\* A claim is of a step whose row is due.
LEMMA ClaimIsDue ==
    ASSUME Assumptions, TypeOK, NEW w \in Worker, ClaimStep(w)
    PROVE  /\ claim'[w].key \in Key
           /\ steps[claim'[w].key].nextAt \in Nat
           /\ steps[claim'[w].key].nextAt <= clock
  <1>1. PICK now \in Reading(w), k \in Key :
            /\ ClaimRunnableStep(w, k, now)
            /\ claim' = [claim EXCEPT ![w] =
                 [key |-> k, token |-> leases'[RunOf[k]].token, attempt |-> 0]]
    BY DEF ClaimStep
  <1>2. claim'[w].key = k
    BY <1>1 DEF TypeOK, WorkerTypeOK
  <1>3. steps[k].nextAt <= now /\ steps[k].nextAt \in Nat
    BY <1>1 DEF ClaimRunnableStep, SelectRunnable, Eligible, TypeOK,
                StorageTypeOK, StepRow
  <1>4. now \in Nat /\ now <= clock /\ clock \in Nat
    BY <1>1, ClockTypes
  <1>5. QED
    BY <1>2, <1>3, <1>4

LEMMA OwnerIsDueStep ==
    ASSUME Assumptions, EngineInv, HistoryInv, Next
    PROVE  OwnerIsDue'
  <1> SUFFICES ASSUME NEW w \in Worker, pc'[w] = "claimed", OwnsRun(w)',
                      NEW q, q = RunOf[claim'[w].key],
                      NEW i \in Index(q)',
                      events'[q][i].type = "StepRetryScheduled",
                      events'[q][i].key = claim'[w].key
               PROVE  events'[q][i].until <= since'[w]
    BY DEF OwnerIsDue, Scheduled, Index
  <1>1. TypeOK /\ TypeOK'
    BY NextInv DEF EngineInv
  <1>2. q \in Run
    BY <1>1, ClaimIsTyped, RunOfType DEF TypeOK, WorkerTypeOK, Claim
  <1>3. CASE ClaimStep(w)
    <2>1. since'[w] = clock /\ clock' = clock /\ clock \in Nat
      BY <1>1, <1>3, MoversAreCurrent, ClockTypes
    <2>2. UNCHANGED events
      BY <1>1, <1>3, ClaimIsEligible
    <2>3. i \in Index(q) /\ events'[q][i] = events[q][i]
      BY <2>2 DEF Index
    <2>4. \/ events[q][i].until <= clock
          \/ events[q][i].until <= steps[claim'[w].key].nextAt
      BY <1>2, <2>3 DEF HistoryInv, DeadlinesWait, Scheduled, Index
    <2>5. events[q][i].until \in Nat
      BY <1>1, <1>2, <2>3, EventTypes
    <2>6. /\ steps[claim'[w].key].nextAt \in Nat
          /\ steps[claim'[w].key].nextAt <= clock
      BY <1>1, <1>3, ClaimIsDue
    <2>7. QED
      BY <2>1, <2>3, <2>4, <2>5, <2>6
  <1>4. CASE pc[w] = "claimed" /\ claim'[w] = claim[w] /\ Untouched(w)
    <2>1. i \in Index(q) /\ events'[q][i] = events[q][i] /\ OwnsRun(w)
      BY <1>4 DEF Untouched, OwnsRun, Index
    <2>2. events[q][i].until <= since[w] /\ events[q][i].until \in Nat
      BY <1>1, <1>2, <1>4, <2>1, EventTypes
         DEF HistoryInv, OwnerIsDue, Scheduled, Index
    <2>3. /\ since[w] \in Nat /\ since'[w] \in Nat
          /\ since[w] <= since'[w]
      BY <1>1, SinceMoves DEF HistoryInv
    <2>4. QED
      BY <2>1, <2>2, <2>3
  <1>5. QED
    BY <1>3, <1>4, OwnerOrigin DEF Busy

LEMMA NoEarlyRetryStep ==
    ASSUME Assumptions, EngineInv, HistoryInv, Next
    PROVE  NoEarlyRetry'
  <1> SUFFICES ASSUME NEW q \in Run, NEW i \in Index(q)', NEW j \in Index(q)',
                      i < j,
                      events'[q][i].type = "StepRetryScheduled",
                      events'[q][j].type = "StepAttemptStarted",
                      events'[q][i].key = events'[q][j].key
               PROVE  events'[q][j].at >= events'[q][i].until
    BY DEF NoEarlyRetry, Index
  <1>1. TypeOK /\ TypeOK'
    BY NextInv DEF EngineInv
  <1>2. /\ i \in Nat /\ j \in Nat /\ Len(events[q]) \in Nat
        /\ Index(q) = 1 .. Len(events[q])
    BY <1>1 DEF TypeOK, StorageTypeOK, Index
  <1>3. CASE j \in Index(q) /\ events'[q][j] = events[q][j]
    <2>1. i \in Index(q) /\ events'[q][i] = events[q][i]
      BY <1>2, <1>3, EventOrigin DEF HistoryInv
    <2>2. QED
      BY <1>3, <2>1 DEF HistoryInv, NoEarlyRetry, Index
  <1>4. ASSUME NEW w \in Worker, Transition(w), Told(w, q, j)
        PROVE  events'[q][j].at >= events'[q][i].until
    <2>1. /\ pc[w] = "claimed" /\ j = Len(events[q]) + 1
          /\ q = RunOf[claim[w].key] /\ events'[q][j].key = claim[w].key
          /\ events'[q][j].at \in Reading(w) /\ OwnsRun(w)
      BY <1>4 DEF Told, Transition, OwnsRun
    <2>2. i \in Index(q) /\ events'[q][i] = events[q][i]
      BY <1>2, <2>1, EventOrigin DEF HistoryInv
    <2>3. events[q][i].until <= since[w] /\ events[q][i].until \in Nat
      BY <1>1, <2>1, <2>2, EventTypes
         DEF HistoryInv, OwnerIsDue, Scheduled, Index
    <2>4. /\ events'[q][j].at \in Nat /\ since[w] \in Nat
          /\ since[w] <= events'[q][j].at
      BY <1>1, <2>1, ClockTypes
    <2>5. QED
      BY <2>2, <2>3, <2>4
  <1>5. QED
    BY <1>3, <1>4, EventOrigin DEF HistoryInv

\* An attempt history holds, it holds for ever.
LEMMA AttemptedStays ==
    ASSUME Assumptions, EngineInv, Next, NEW k \in Key, NEW id,
           Attempted(k, id)
    PROVE  Attempted(k, id)'
  <1>1. RunOf[k] \in Run
    BY RunOfType
  <1>2. QED
    BY <1>1, HistoryStays DEF Attempted, Index

LEMMA RecordIsAttempted ==
    ASSUME Assumptions, EngineInv, NEW w \in Worker, Record(w)
    PROVE  Attempted(claim[w].key, claim[w].attempt)'
  <1> DEFINE k == claim[w].key
  <1>1. PICK now \in Reading(w) : RecordAttempt(k, w, claim[w].token, now)
    BY DEF Record
  <1> DEFINE e == [type |-> "StepAttemptStarted", key |-> k,
                   attempt |-> steps[k].attempts + 1,
                   owner |-> w, token |-> claim[w].token, at |-> now]
  <1>2. /\ TypeOK /\ k \in Key /\ RunOf[k] \in Run /\ claim[w].token \in Nat
        /\ steps \in [Key -> StepRow] /\ steps[k].attempts \in Nat
        /\ now \in Nat /\ claim[w] \in Claim
        /\ events[RunOf[k]] \in Seq(Event)
    BY TransitionTypes, ClaimIsTyped
       DEF Record, EngineInv, TypeOK, StorageTypeOK
  <1>3. e \in Event
    BY <1>2 DEF Event
  <1>4. events'[RunOf[k]] = events[RunOf[k]] \o <<e>>
    BY <1>1, <1>2 DEF RecordAttempt, AppendEvents, TypeOK, StorageTypeOK
  <1>5. steps'[k].attempts = e.attempt
    BY <1>1, <1>2 DEF RecordAttempt, IntentRow
  <1>6. claim'[w].key = k /\ claim'[w].attempt = e.attempt
    BY <1>2, <1>5 DEF Record, Claim, TypeOK, WorkerTypeOK
  <1>7. e.type = "StepAttemptStarted" /\ e.key = k
    OBVIOUS
  <1> HIDE DEF e
  <1>8. \E i \in DOMAIN events'[RunOf[k]] : events'[RunOf[k]][i] = e
    <2>1. /\ Len(events[RunOf[k]]) + 1 \in DOMAIN events'[RunOf[k]]
          /\ events'[RunOf[k]][Len(events[RunOf[k]]) + 1] = e
      BY <1>2, <1>3, <1>4
    <2>2. QED
      BY <2>1
  <1>9. QED
    BY <1>6, <1>7, <1>8 DEF Attempted

LEMMA SendersAreAttemptedStep ==
    ASSUME Assumptions, EngineInv, HistoryInv, Next
    PROVE  SendersAreAttempted'
  <1> SUFFICES ASSUME NEW w \in Worker, pc'[w] \in {"intent", "sent"}
               PROVE  Attempted(claim[w].key, claim[w].attempt)'
    BY DEF SendersAreAttempted
  <1>1. TypeOK /\ pc \in [Worker -> Location]
    BY DEF EngineInv, TypeOK, WorkerTypeOK
  <1>2. CASE ClaimStep(w)
    BY <1>1, <1>2 DEF ClaimStep, Goto
  <1>3. CASE Record(w)
    BY <1>3, RecordIsAttempted
  <1>4. CASE pc[w] \in {"intent", "sent"} /\ claim'[w] = claim[w]
    <2>1. PICK k \in Key, id \in Nat :
              k = claim[w].key /\ id = claim[w].attempt
      BY <1>1, <1>4, ClaimIsTyped
    <2>2. Attempted(k, id)
      BY <1>4, <2>1 DEF HistoryInv, SendersAreAttempted
    <2>3. Attempted(k, id)'
      BY <2>2, AttemptedStays
    <2>4. QED
      BY <1>4, <2>1, <2>3 DEF Attempted
  <1>5. QED
    BY <1>1, <1>2, <1>3, <1>4, BusyOrigin DEF Busy

\* An effect was there before, or is the effect of a request inside the tool.
LEMMA EffectOrigin ==
    ASSUME TypeOK, Next, NEW e \in effects'
    PROVE  e \in effects \/ \E c \in calls : c.key = e.key
  <1>1. CASE UNCHANGED effects
    BY <1>1
  <1>2. CASE Serve
    BY <1>2 DEF Serve, Find, Throttle, Apply, Answer, Lose, ledgerVars
  <1>3. UNCHANGED effects \/ Serve
    BY DEF Next, Submit, RunOnce, ClaimStep, Record, RecordTooLate, Send,
           Complete, Retry, GiveUp, Discard, Raise, Release, Heartbeat,
           Renew, RenewLate, Crash, ToolStep, Tick, HangUp, Close, Invoke,
           toolVars
  <1>4. QED
    BY <1>1, <1>2, <1>3

\* An attempt history holds is one the row has counted, now and later.
LEMMA AttemptedIsCounted ==
    ASSUME Assumptions, EngineInv, HistoryInv, Next,
           NEW k \in Key, NEW id, Attempted(k, id)
    PROVE  id \in 1 .. steps'[k].attempts /\ Attempted(k, id)'
  <1>1. PICK i \in DOMAIN events[RunOf[k]] :
            /\ events[RunOf[k]][i].type = "StepAttemptStarted"
            /\ events[RunOf[k]][i].key = k
            /\ events[RunOf[k]][i].attempt = id
    BY DEF Attempted
  <1>2. RunOf[k] \in Run
    BY RunOfType
  <1>3. id \in 1 .. steps[k].attempts
    BY <1>1, <1>2 DEF HistoryInv, StartsAreCounted, Started
  <1>4. runs[RunOf[k]].status # "absent"
    BY <1>1, <1>2 DEF HistoryInv, AbsentIsEmpty
  <1>5. /\ steps[k].attempts \in Nat /\ steps'[k].attempts \in Nat
        /\ steps[k].attempts <= steps'[k].attempts
    BY <1>4, AttemptsGrow
  <1>6. QED
    BY <1>3, <1>5, AttemptedStays

LEMMA IntentPrecedesEffectStep ==
    ASSUME Assumptions, EngineInv, HistoryInv, Next
    PROVE  IntentPrecedesEffect'
  <1>1. TypeOK /\ TypeOK'
    BY NextInv DEF EngineInv
  <1>2. ASSUME NEW c \in calls'
        PROVE  Attempted(c.key, c.id)'
    <2>1. c.key \in Key
      BY <1>1 DEF TypeOK, ToolTypeOK, Call
    <2>2. Attempted(c.key, c.id)
      BY <1>1, CallOrigin
         DEF HistoryInv, IntentPrecedesEffect, SendersAreAttempted
    <2>3. QED
      BY <2>1, <2>2, AttemptedStays
  <1>3. ASSUME NEW e \in effects'
        PROVE  \E id \in 1 .. steps'[e.key].attempts : Attempted(e.key, id)'
    <2>1. e.key \in Key
      BY <1>1 DEF TypeOK, ToolTypeOK, Effect
    <2>2. \E id : Attempted(e.key, id)
      BY <1>1, EffectOrigin DEF HistoryInv, IntentPrecedesEffect
    <2>3. PICK id : Attempted(e.key, id)
      BY <2>2
    <2>4. id \in 1 .. steps'[e.key].attempts /\ Attempted(e.key, id)'
      BY <2>1, <2>3, AttemptedIsCounted
    <2>5. QED
      BY <2>4
  <1>4. QED
    BY <1>2, <1>3 DEF IntentPrecedesEffect

-----------------------------------------------------------------------------
(* The invariant holds. *)

LEMMA HistoryInit ==
    ASSUME Assumptions, Init
    PROVE  HistoryInv
  <1>1. /\ \A r \in Run : events[r] = <<>>
        /\ \A w \in Worker : pc[w] = "idle" /\ since[w] = 1
        /\ clock = 1 /\ calls = {} /\ effects = {}
    BY DEF Init, StorageInit, ToolInit
  <1>2. \A r \in Run : DOMAIN events[r] = {}
    BY <1>1
  <1>3. /\ EventsKeepRun /\ AbsentIsEmpty /\ StartsAreCounted
        /\ TokensAreBounded /\ FenceTokensIncrease /\ TimesArePast
        /\ HistoryTimesMonotone /\ DeadlinesWait /\ NoEarlyRetry
    BY <1>1, <1>2
       DEF EventsKeepRun, AbsentIsEmpty, StartsAreCounted, TokensAreBounded,
           FenceTokensIncrease, TimesArePast, HistoryTimesMonotone,
           DeadlinesWait, NoEarlyRetry, Started, Scheduled, Index
  <1>4. /\ FreshIsHigher /\ OwnerIsLater /\ OwnerIsDue
        /\ SendersAreAttempted /\ SinceIsPast
    BY <1>1 DEF FreshIsHigher, OwnerIsLater, OwnerIsDue,
                SendersAreAttempted, SinceIsPast, Busy
  <1>5. IntentPrecedesEffect
    BY <1>1 DEF IntentPrecedesEffect
  <1>6. QED
    BY <1>3, <1>4, <1>5 DEF HistoryInv

LEMMA HistoryStutter ==
    ASSUME HistoryInv, UNCHANGED vars
    PROVE  HistoryInv'
  <1>1. UNCHANGED <<runs, steps, leases, events, clock, calls, effects,
                    pc, claim, since>>
    BY DEF vars
  <1>2. (/\ EventsKeepRun /\ AbsentIsEmpty /\ StartsAreCounted
         /\ TokensAreBounded /\ FenceTokensIncrease)'
    BY <1>1 DEF HistoryInv, EventsKeepRun, AbsentIsEmpty, StartsAreCounted,
                TokensAreBounded, FenceTokensIncrease, Started, Scheduled
  <1>3. (/\ SinceIsPast /\ TimesArePast /\ HistoryTimesMonotone
         /\ DeadlinesWait /\ NoEarlyRetry)'
    BY <1>1 DEF HistoryInv, SinceIsPast, TimesArePast, HistoryTimesMonotone,
                DeadlinesWait, NoEarlyRetry, Scheduled, Index
  <1>4. (FreshIsHigher /\ OwnerIsLater /\ OwnerIsDue)'
    BY <1>1 DEF HistoryInv, FreshIsHigher, OwnerIsLater, OwnerIsDue, OwnsRun,
                Owns, Started, Scheduled, Index
  <1>5. (SendersAreAttempted /\ IntentPrecedesEffect)'
    BY <1>1 DEF HistoryInv, SendersAreAttempted, IntentPrecedesEffect,
                Attempted
  <1>6. QED
    BY <1>2, <1>3, <1>4, <1>5 DEF HistoryInv

LEMMA HistoryNext ==
    ASSUME Assumptions, EngineInv, HistoryInv, Next
    PROVE  HistoryInv'
  BY EventsKeepRunStep, AbsentIsEmptyStep, StartsAreCountedStep,
     TokensAreBoundedStep, FreshIsHigherStep, FenceTokensIncreaseStep,
     TimesArePastStep, OwnerIsLaterStep, HistoryTimesMonotoneStep,
     DeadlinesWaitStep, OwnerIsDueStep, NoEarlyRetryStep,
     SendersAreAttemptedStep, IntentPrecedesEffectStep
     DEF HistoryInv, PastInv

\* What history tells stays true through every interleaving and crash.
THEOREM HistorySafety == Spec => []HistoryInv
  <1>1. Assumptions
    BY StorageAssumption, ToolAssumption, EngineAssumption DEF Assumptions
  <1>2. Init => HistoryInv
    BY <1>1, HistoryInit
  <1>3. EngineInv /\ HistoryInv /\ [Next]_vars => HistoryInv'
    BY <1>1, HistoryNext, HistoryStutter
  <1>4. QED
    BY <1>2, <1>3, EngineSafety, PTL DEF Spec

-----------------------------------------------------------------------------
(* What follows from it. *)

\* No two attempts of a run are ever recorded under one fence token, and the
\* later one has the higher: claim_runnable_step adds one, record_attempt
\* checks it.
THEOREM FenceTokensAlwaysIncrease == Spec => []FenceTokensIncrease
  <1>1. HistoryInv => FenceTokensIncrease
    BY DEF HistoryInv
  <1>2. QED
    BY <1>1, HistorySafety, PTL

\* occurred_at never goes back, although each is read before BEGIN IMMEDIATE
\* holds the write lock, by however old a reading (MaxLag).
THEOREM HistoryTimesAlwaysMonotone == Spec => []HistoryTimesMonotone
  <1>1. HistoryInv => HistoryTimesMonotone
    BY DEF HistoryInv
  <1>2. QED
    BY <1>1, HistorySafety, PTL

\* No attempt precedes a deadline of its step, whichever worker claims it and
\* however often claimants crash.
THEOREM NeverEarlyRetry == Spec => []NoEarlyRetry
  <1>1. HistoryInv => NoEarlyRetry
    BY DEF HistoryInv
  <1>2. QED
    BY <1>1, HistorySafety, PTL

\* The tool holds no request and has had no effect of which history does not
\* hold the attempt: record_attempt commits before gateway.execute.
THEOREM IntentAlwaysPrecedesEffect == Spec => []IntentPrecedesEffect
  <1>1. HistoryInv => IntentPrecedesEffect
    BY DEF HistoryInv
  <1>2. QED
    BY <1>1, HistorySafety, PTL

-----------------------------------------------------------------------------
(***************************************************************************)
(* The operator: reads, audits and rebuilds of a run beside the engine.    *)
(* The theorems of this section suppose Quiet: nobody commits to a run     *)
(* while it is being rebuilt.  The next section does without it.           *)
(***************************************************************************)

\* What a rebuild has reduced is of some length of the run's history, and if
\* the history has that length still, it is what the rows say.
SnapshotIsCurrent ==
    snapshot # NoSnapshot =>
        /\ snapshot.run \in Run /\ snapshot.length \in Nat
        /\ runs[snapshot.run].status # "absent"
        /\ snapshot.length <= Len(events[snapshot.run])
        /\ snapshot.length = Len(events[snapshot.run])
              => snapshot.rows = Projection(snapshot.run)

\* A read that found the run ended has seen nothing but the present.
ReadIsPresent ==
    /\ view = [run |-> view.run, steps |-> view.steps, history |-> view.history]
    /\ seen # {} => asked \in Run
    /\ "run" \in seen /\ RunEnded =>
          /\ view.run = runs[asked]
          /\ "steps" \in seen => view.steps = Projection(asked).steps
          /\ "events" \in seen => view.history = events[asked]

\* The inductive invariant.
OperatorInv ==
    /\ EngineInv
    /\ ReplayInv
    /\ SnapshotIsCurrent
    /\ ReadIsPresent

\* A transition adds events to the history of its run.
LEMMA AppendIsLonger ==
    ASSUME StorageTypeOK, NEW r \in Run, NEW e, NEW f,
           AppendEvents(r, <<e>>) \/ AppendEvents(r, <<e, f>>)
    PROVE  Len(events'[r]) > Len(events[r])
  <1> DEFINE S == Event \cup {e, f}
  <1>1. events[r] \in Seq(Event)
    BY DEF StorageTypeOK
  <1>2. Event \subseteq S /\ e \in S /\ f \in S
    OBVIOUS
  <1> HIDE DEF S
  <1>3. events[r] \in Seq(S) /\ Len(events[r]) \in Nat
    BY <1>1, <1>2
  <1>4. events'[r] = events[r] \o <<e>> \/ events'[r] = events[r] \o <<e, f>>
    BY DEF AppendEvents, StorageTypeOK
  <1>5. QED
    BY <1>2, <1>3, <1>4

LEMMA TransitionIsTold ==
    ASSUME StorageTypeOK, NEW w \in Worker, TransitionStep(w),
           RunOf[claim[w].key] \in Run
    PROVE  Len(events'[RunOf[claim[w].key]]) > Len(events[RunOf[claim[w].key]])
  <1>1. \E e, f : \/ AppendEvents(RunOf[claim[w].key], <<e>>)
                  \/ AppendEvents(RunOf[claim[w].key], <<e, f>>)
    BY DEF TransitionStep, Record, RecordAttempt, Complete, CompleteStep,
           Retry, ScheduleRetry, GiveUp, FailStep
  <1>2. QED
    BY <1>1, AppendIsLonger

\* The rows of a run change only together with its history, which grows.
LEMMA RowsMoveWithHistory ==
    ASSUME Assumptions, EngineInv, Next, NEW r \in Run,
           runs[r].status # "absent"
    PROVE  \/ /\ runs'[r] = runs[r] /\ events'[r] = events[r]
              /\ \A k \in StepsOf(r) : steps'[k] = steps[k]
           \/ Len(events'[r]) > Len(events[r])
  <1>1. /\ TypeOK /\ StorageTypeOK
        /\ runs \in [Run -> RunRow] /\ steps \in [Key -> StepRow]
        /\ events \in [Run -> Seq(Event)]
    BY DEF EngineInv, TypeOK, StorageTypeOK
  <1>2. ASSUME NEW s \in Run, Submit(s)
        PROVE  /\ runs'[r] = runs[r] /\ events'[r] = events[r]
               /\ \A k \in StepsOf(r) : steps'[k] = steps[k]
    <2>1. s # r
      BY <1>2 DEF Submit, CreateWorkflowRun
    <2>2. QED
      BY <1>1, <1>2, <2>1 DEF Submit, CreateWorkflowRun, AppendEvents, StepsOf
  <1>3. ASSUME NEW w \in Worker, TransitionStep(w)
        PROVE  \/ /\ runs'[r] = runs[r] /\ events'[r] = events[r]
                  /\ \A k \in StepsOf(r) : steps'[k] = steps[k]
               \/ Len(events'[r]) > Len(events[r])
    <2>1. Transition(w)
      BY <1>1, <1>3, TransitionFootprint
    <2>2. CASE RunOf[claim[w].key] = r
      BY <1>1, <1>3, <2>2, TransitionIsTold
    <2>3. CASE RunOf[claim[w].key] # r
      BY <1>1, <2>1, <2>3 DEF Transition, StepsOf
    <2>4. QED
      BY <2>2, <2>3
  <1>4. ASSUME NEW w \in Worker, ClaimStep(w)
        PROVE  UNCHANGED <<runs, steps, events>>
    BY <1>4 DEF ClaimStep, ClaimRunnableStep
  <1>5. QED
    BY <1>1, <1>2, <1>3, <1>4, NextFootprint DEF LeaseStep, StepsOf

\* The engine's steps beside a snapshot and a read.
LEMMA EngineBesideOperator ==
    ASSUME Assumptions, OperatorInv, Next, UNCHANGED <<rebuildVars, readVars>>
    PROVE  OperatorInv'
  <1>1. EngineInv /\ ReplayInv /\ SnapshotIsCurrent /\ ReadIsPresent
    BY DEF OperatorInv
  <1>2. EngineInv' /\ ReplayInv'
    BY <1>1, NextInv, NextReplays
  <1>3. /\ snapshot' = snapshot /\ NoSnapshot' = NoSnapshot
        /\ UNCHANGED <<asked, seen, view>>
    BY DEF rebuildVars, readVars, NoSnapshot, Rejected, NewRun
  <1>4. ASSUME NEW r \in Run, snapshot # NoSnapshot, snapshot.run = r
        PROVE  /\ runs'[r].status # "absent"
               /\ snapshot.length <= Len(events'[r])
               /\ snapshot.length = Len(events'[r])
                     => snapshot.rows = Projection(r)'
    <2>1. /\ runs[r].status # "absent"
          /\ snapshot.length <= Len(events[r])
          /\ snapshot.length = Len(events[r]) => snapshot.rows = Projection(r)
      BY <1>1, <1>4 DEF SnapshotIsCurrent
    <2>2. runs'[r].status # "absent"
      BY <1>1, <2>1, ExistingStays
    <2>3. \/ events'[r] = events[r] /\ Projection(r)' = Projection(r)
          \/ Len(events'[r]) > Len(events[r])
      BY <1>1, <2>1, RowsMoveWithHistory DEF Projection, StepsOf
    <2>4. Len(events[r]) \in Nat /\ Len(events'[r]) \in Nat
      BY <1>1, <1>2 DEF EngineInv, TypeOK, StorageTypeOK
    <2>5. snapshot.length \in Nat
      BY <1>1, <1>4 DEF SnapshotIsCurrent
    <2>6. QED
      BY <2>1, <2>2, <2>3, <2>4, <2>5
  <1>5. ReadIsPresent'
    <2>1. SUFFICES ASSUME "run" \in seen, RunEnded, asked \in Run,
                          view.run = runs[asked]
                   PROVE  /\ runs'[asked] = runs[asked]
                          /\ events'[asked] = events[asked]
                          /\ Projection(asked)' = Projection(asked)
      BY <1>1, <1>3 DEF ReadIsPresent, RunEnded
    <2>2. runs[asked].status \in {"completed", "failed"}
      BY <2>1 DEF RunEnded
    <2>3. QED
      BY <1>1, <1>3, <2>1, <2>2, TerminalStep DEF Projection, StepsOf
  <1>6. SnapshotIsCurrent'
    BY <1>1, <1>3, <1>4 DEF SnapshotIsCurrent
  <1>7. QED
    BY <1>2, <1>5, <1>6 DEF OperatorInv

\* A read writes nothing, and what it sees of an ended run is the present.
LEMMA ReadStep ==
    ASSUME OperatorInv, Read, UNCHANGED rebuildVars
    PROVE  OperatorInv'
  <1>1. EngineInv /\ ReplayInv /\ SnapshotIsCurrent /\ ReadIsPresent
    BY DEF OperatorInv
  <1>2. UNCHANGED vars
    BY DEF Read, SelectRun, SelectSteps, SelectEvents, EndRead
  <1>3. UNCHANGED <<runs, steps, events>>
    BY <1>2 DEF vars
  <1>4. EngineInv' /\ ReplayInv'
    BY <1>1, <1>2, <1>3, StutterInv, ReplayStays
  <1>5. SnapshotIsCurrent'
    BY <1>1, <1>3 DEF SnapshotIsCurrent, rebuildVars, Projection, StepsOf,
                      NoSnapshot, Rejected, NewRun
  <1>6. \A r \in Run : Projection(r)' = Projection(r)
    BY <1>3 DEF Projection, StepsOf
  <1>7. ReadIsPresent'
    <2>1. CASE \E r \in Run : SelectRun(r)
      BY <1>3, <2>1 DEF SelectRun, ReadIsPresent, RunEnded, NoView
    <2>2. CASE SelectSteps
      BY <1>1, <1>3, <1>6, <2>2 DEF SelectSteps, ReadIsPresent, RunEnded
    <2>3. CASE SelectEvents
      BY <1>1, <1>3, <1>6, <2>3 DEF SelectEvents, ReadIsPresent, RunEnded
    <2>4. CASE EndRead
      BY <2>4 DEF EndRead, ReadIsPresent, NoView
    <2>5. QED
      BY <2>1, <2>2, <2>3, <2>4 DEF Read
  <1>8. QED
    BY <1>4, <1>5, <1>7 DEF OperatorInv

\* Reading the history for a rebuild finds what the rows say.
LEMMA ReadHistoryStep ==
    ASSUME OperatorInv, NEW r \in Run, ReadHistory(r), UNCHANGED readVars
    PROVE  OperatorInv'
  <1>1. EngineInv /\ ReplayInv /\ ReadIsPresent
    BY DEF OperatorInv
  <1>2. UNCHANGED vars /\ UNCHANGED <<runs, steps, events>>
    BY DEF ReadHistory, vars
  <1>3. EngineInv' /\ ReplayInv'
    BY <1>1, <1>2, StutterInv, ReplayStays
  <1>4. runs[r].status # "absent" /\ Len(events[r]) \in Nat
    BY <1>1 DEF ReadHistory, ReplayInv, Replays, EngineInv, TypeOK,
                StorageTypeOK
  <1>5. ReduceHistory(r, events[r]) = Projection(r)
    BY <1>1, <1>4, ReplayInvMatches DEF ProjectionMatchesHistory
  <1>6. snapshot' = [run |-> r, length |-> Len(events[r]),
                     rows |-> Projection(r)]
    BY <1>5 DEF ReadHistory
  <1>7. SnapshotIsCurrent'
    BY <1>2, <1>4, <1>6 DEF SnapshotIsCurrent, Projection, StepsOf
  <1>8. ReadIsPresent'
    BY <1>1, <1>2 DEF ReadIsPresent, RunEnded, readVars, Projection, StepsOf
  <1>9. QED
    BY <1>3, <1>7, <1>8 DEF OperatorInv

\* The rebuild of a quiet run writes the rows it finds; only the lease goes.
LEMMA ReplaceWritesRows ==
    ASSUME Quiet, OperatorInv, ReplaceRows
    PROVE  /\ UNCHANGED <<runs, steps, events>>
           /\ \E r \in Run : leases' = [leases EXCEPT ![r] = NoLease]
  <1> DEFINE r == snapshot.run
  <1>1. /\ runs \in [Run -> RunRow] /\ steps \in [Key -> StepRow]
        /\ r \in Run /\ snapshot.rows = Projection(r)
    BY DEF OperatorInv, EngineInv, TypeOK, StorageTypeOK, SnapshotIsCurrent,
           ReplaceRows, ReplaceBy
  <1>2. /\ snapshot.rows.run = runs[r]
        /\ \A k \in Key : RunOf[k] = r => snapshot.rows.steps[k] = steps[k]
    BY <1>1 DEF Projection, StepsOf
  <1>3. /\ runs' = [runs EXCEPT ![r] = snapshot.rows.run]
        /\ steps' = [k \in Key |-> IF RunOf[k] = r THEN snapshot.rows.steps[k]
                                                    ELSE steps[k]]
        /\ UNCHANGED events /\ leases' = [leases EXCEPT ![r] = NoLease]
    BY DEF ReplaceRows, ReplaceBy
  <1>4. QED
    BY <1>1, <1>2, <1>3

\* Without its lease a run has no owner, so nobody is believed to know it.
LEMMA ReplaceStep ==
    ASSUME Assumptions, Quiet, OperatorInv, ReplaceRows, UNCHANGED readVars
    PROVE  OperatorInv'
  <1>1. EngineInv /\ ReplayInv /\ ReadIsPresent
    BY DEF OperatorInv
  <1>2. /\ UNCHANGED <<runs, steps, events, throttles, clock, pc, claim, since,
                       late>>
        /\ UNCHANGED toolVars
    BY ReplaceWritesRows DEF ReplaceRows, ReplaceBy, workerVars
  <1>3. PICK r \in Run : leases' = [leases EXCEPT ![r] = NoLease]
    BY ReplaceWritesRows
  <1>4. ToolInv'
    BY <1>1, <1>2, ToolStutterInv DEF EngineInv
  <1>5. TypeOK'
    <2>1. NoLease \in LeaseRow
      BY DEF NoLease, LeaseRow
    <2>2. leases' \in [Run -> LeaseRow]
      BY <1>1, <1>3, <2>1 DEF EngineInv, TypeOK, StorageTypeOK
    <2>3. StorageTypeOK'
      BY <1>1, <1>2, <2>2 DEF EngineInv, TypeOK, StorageTypeOK
    <2>4. WorkerTypeOK'
      BY <1>1, <1>2 DEF EngineInv, TypeOK, WorkerTypeOK
    <2>5. QED
      BY <1>4, <2>3, <2>4 DEF TypeOK, ToolInv
  <1>6. (ClaimsAreReady /\ CallsAreReady /\ ResultsAreReady)'
    BY <1>1, <1>2 DEF EngineInv, ClaimsAreReady, CallsAreReady,
                      ResultsAreReady, DependenciesCompleted, toolVars
  <1>7. (AbsentIsNew /\ CompletedHasEffect)'
    BY <1>1, <1>2 DEF EngineInv, AbsentIsNew, CompletedHasEffect, toolVars
  <1>8. OwnerKnows'
    <2>1. ASSUME NEW w \in Worker, NEW q \in Run, NEW token,
                 Owns(q, w, token)'
          PROVE  Owns(q, w, token)
      BY <1>1, <1>3, <2>1 DEF Owns, NoLease, Assumptions, StorageAssumption,
                              EngineInv, TypeOK, StorageTypeOK
    <2>2. \A w \in Worker : pc[w] \in Busy => RunOf[claim[w].key] \in Run
      BY <1>1, ClaimIsTyped, RunOfType DEF EngineInv, Busy
    <2>3. QED
      BY <1>1, <1>2, <2>1, <2>2 DEF EngineInv, OwnerKnows, LastIsStart, Owns
  <1>9. EngineInv'
    BY <1>4, <1>5, <1>6, <1>7, <1>8 DEF EngineInv
  <1>10. ReplayInv'
    BY <1>1, <1>2, ReplayStays
  <1>11. SnapshotIsCurrent'
    BY DEF ReplaceRows, ReplaceBy, SnapshotIsCurrent, NoSnapshot, Rejected,
           NewRun
  <1>12. ReadIsPresent'
    BY <1>1, <1>2 DEF ReadIsPresent, RunEnded, readVars, Projection, StepsOf
  <1>13. QED
    BY <1>9, <1>10, <1>11, <1>12 DEF OperatorInv

LEMMA OperatorStutter ==
    ASSUME OperatorInv, UNCHANGED operatorVars
    PROVE  OperatorInv'
  <1>1. UNCHANGED vars /\ UNCHANGED <<runs, steps, events>>
    BY DEF operatorVars, vars
  <1>2. EngineInv' /\ ReplayInv'
    BY <1>1, StutterInv, ReplayStays DEF OperatorInv
  <1>3. SnapshotIsCurrent' /\ ReadIsPresent'
    BY <1>1 DEF OperatorInv, SnapshotIsCurrent, ReadIsPresent, RunEnded,
           operatorVars, rebuildVars, readVars, Projection, StepsOf,
           NoSnapshot, Rejected, NewRun
  <1>4. QED
    BY <1>2, <1>3 DEF OperatorInv

\* Beside rebuilds that nobody commits to, the engine keeps its invariant,
\* and a read of an ended run sees the present.
THEOREM OperatorSafety ==
    ASSUME Quiet
    PROVE  OperatorSpec => []OperatorInv
  <1>1. Assumptions
    BY StorageAssumption, ToolAssumption, EngineAssumption DEF Assumptions
  <1>2. OperatorInit => OperatorInv
    BY <1>1, InitInv, InitReplays
       DEF OperatorInit, Init, RebuildInit, ReaderInit, OperatorInv,
           SnapshotIsCurrent, ReadIsPresent, NoView
  <1>3. OperatorInv /\ [OperatorNext]_operatorVars => OperatorInv'
    BY <1>1, EngineBesideOperator, ReadStep, ReadHistoryStep, ReplaceStep,
       OperatorStutter DEF OperatorNext, Rebuild
  <1>4. QED
    BY <1>2, <1>3, PTL DEF OperatorSpec

\* A rebuild takes the lease row of a run away under its owner, but no worker
\* is misled: one that still holds a lease knows its step, also if it claimed
\* after the rebuild, under a token that starts again at 1.
THEOREM OwnerIsCurrentBesideRebuild ==
    ASSUME Quiet
    PROVE  OperatorSpec => []OwnerIsCurrent
  <1>1. OperatorInv => OwnerIsCurrent
    BY DEF OperatorInv, EngineInv, ClaimsAreReady, OwnerKnows, LastIsStart,
           OwnerIsCurrent, Holds, RequireLease, Busy
  <1>2. QED
    BY <1>1, OperatorSafety, PTL

\* What three SELECTs outside a transaction return of an ended run fits
\* together: the status was read first, and after it nothing changes.
THEOREM EndedRunIsAlwaysWhole ==
    ASSUME Quiet
    PROVE  OperatorSpec => []EndedRunIsWhole
  <1>1. ASSUME OperatorInv
        PROVE  EndedRunIsWhole
    <2>1. SUFFICES ASSUME {"run", "steps"} \subseteq seen, RunEnded
                   PROVE  /\ \A k \in StepsOf(asked) :
                                view.steps[k].status = "completed" =>
                                   view.steps[k].output = results[k].ref
                          /\ view.run.status = "completed" <=>
                                \A k \in StepsOf(asked) :
                                   view.steps[k].status = "completed"
                          /\ view.run.status = "failed" <=>
                                \E k \in StepsOf(asked) :
                                   view.steps[k].status = "failed"
                          /\ "events" \in seen =>
                                ReduceHistory(asked, view.history) =
                                   [accepted |-> TRUE, run |-> view.run,
                                    steps |-> view.steps]
      BY DEF EndedRunIsWhole
    <2>2. /\ asked \in Run /\ view.run = runs[asked]
          /\ view.steps = Projection(asked).steps
          /\ "events" \in seen => view.history = events[asked]
      BY <1>1, <2>1 DEF OperatorInv, ReadIsPresent
    <2>3. \A k \in StepsOf(asked) : view.steps[k] = steps[k] /\ k \in Key
      BY <2>2 DEF Projection, StepsOf
    <2>4. EndIsEarned(asked) /\ runs[asked].status \in {"completed", "failed"}
      BY <1>1, <2>1, <2>2 DEF OperatorInv, ReplayInv, Replays, RunEnded
    <2>5. \A k \in StepsOf(asked) : view.steps[k].status = "completed" =>
             view.steps[k].output = results[k].ref
      BY <1>1, <2>3 DEF OperatorInv, EngineInv, CompletedHasEffect
    <2>6. "events" \in seen =>
             ReduceHistory(asked, view.history) = Projection(asked)
      BY <1>1, <2>2, <2>4, ReplayInvMatches
         DEF OperatorInv, ProjectionMatchesHistory
    <2>7. Projection(asked) = [accepted |-> TRUE, run |-> view.run,
                               steps |-> view.steps]
      BY <2>2 DEF Projection
    <2>8. QED
      BY <2>2, <2>3, <2>4, <2>5, <2>6, <2>7 DEF EndIsEarned
  <1>2. QED
    BY <1>1, OperatorSafety, PTL

-----------------------------------------------------------------------------
(***************************************************************************)
(* Rebuilds that anybody commits beside.  What a rebuild writes may be     *)
(* older than the history: rows reopen, and ProjectionMatchesHistory and   *)
(* NoAttemptAfterCompletion are lost.  But what it writes was true once,   *)
(* and what the tool has done stays done.                                  *)
(***************************************************************************)

\* The tool has a result with this reference for the step.
Saved(k, ref) == results[k] # NoResult /\ results[k].ref = ref

\* A projection of run r, with a row for each step once the run exists, of
\* which a completed one names a result that the tool has.
Truthful(r, p) ==
    /\ p \in [accepted : BOOLEAN, run : RunRow,
              steps : {<<>>} \cup [StepsOf(r) -> StepRow]]
    /\ p.accepted /\ p.run.status # "absent" =>
          /\ p.steps \in [StepsOf(r) -> StepRow]
          /\ \A k \in StepsOf(r) : p.steps[k].status = "completed" =>
                Saved(k, p.steps[k].output)

\* So is what the reducer makes of any run's history, if it accepts it at all.
HistoryIsTruthful ==
    \A r \in Run :
        /\ Truthful(r, Replayed(r, events[r]))
        /\ events[r] # <<>> /\ Replayed(r, events[r]).accepted =>
              Replayed(r, events[r]).run.status # "absent"

\* And what a rebuild has read, however old it is.
SnapshotIsTruthful ==
    snapshot # NoSnapshot =>
        /\ snapshot.run \in Run
        /\ Truthful(snapshot.run, snapshot.rows)
        /\ snapshot.rows.accepted /\ snapshot.rows.run.status # "absent"

\* The tool has a result of everything the step depends on.
Supplied(k) == \A d \in DependsOn[k] : results[d] # NoResult

ClaimsAreSupplied == \A w \in Worker : pc[w] \in Busy => Supplied(claim[w].key)

CallsAreSupplied == \A c \in calls : Supplied(c.key)

\* The inductive invariant, beside rebuilds that anybody may commit beside.
RaceInv ==
    /\ TypeOK
    /\ ToolInv
    /\ CompletedHasEffect
    /\ HistoryIsTruthful
    /\ SnapshotIsTruthful
    /\ ClaimsAreSupplied
    /\ CallsAreSupplied
    /\ EffectsFollowDependencies

\* An event of the run, which names the result if it tells of a completion.
Fits(r, e) ==
    /\ e \in Event
    /\ e.type \notin {"WorkflowRunCreated", "WorkflowRunCompleted"} =>
          e.key \in StepsOf(r)
    /\ e.type = "StepCompleted" => Saved(e.key, e.output)

\* The reducer keeps to the truth.
LEMMA ReduceIsTruthful ==
    ASSUME NEW r \in Run, NEW p, Truthful(r, p), NEW e, Fits(r, e)
    PROVE  /\ Truthful(r, ReduceEvent(r, p, e))
           /\ ReduceEvent(r, p, e).accepted =>
                 ReduceEvent(r, p, e).run.status # "absent"
  <1> DEFINE q == ReduceEvent(r, p, e)
  <1>1. /\ Truthful(r, Rejected) /\ ~ Rejected.accepted
    BY DEF Truthful, Rejected, NewRun, RunRow, RunStatus
  <1>2. SUFFICES ASSUME q # Rejected
                 PROVE  Truthful(r, q) /\ q.run.status # "absent"
    BY <1>1
  <1>3. p.accepted
    BY <1>2 DEF ReduceEvent
  <1>4. CASE e.type = "WorkflowRunCreated"
    <2>1. q = [accepted |-> TRUE,
               run |-> [status |-> "running", createdAt |-> e.at],
               steps |-> [k \in StepsOf(r) |-> NewStep]]
      BY <1>2, <1>3, <1>4 DEF ReduceEvent, ReduceCreated
    <2>2. e.at \in Nat /\ NewStep \in StepRow /\ NewStep.status = "pending"
      BY <1>4 DEF Fits, Event, NewStep, StepRow, StepStatus, Runnable
    <2>3. [status |-> "running", createdAt |-> e.at] \in RunRow
      BY <2>2 DEF RunRow, RunStatus
    <2>4. QED
      BY <2>1, <2>2, <2>3 DEF Truthful
  <1>5. CASE e.type # "WorkflowRunCreated"
    <2>1. p.run.status = "running"
      BY <1>2, <1>3, <1>5 DEF ReduceEvent
    <2>2. /\ p.run \in RunRow /\ p.steps \in [StepsOf(r) -> StepRow]
          /\ \A k \in StepsOf(r) : p.steps[k].status = "completed" =>
                Saved(k, p.steps[k].output)
      BY <1>3, <2>1 DEF Truthful
    <2>3. ASSUME NEW legal, NEW status \in {"completed", "failed"},
                 q = ReduceEnd(p, legal, status)
          PROVE  Truthful(r, q) /\ q.run.status # "absent"
      <3>1. q = [accepted |-> TRUE,
                 run |-> [status |-> status, createdAt |-> p.run.createdAt],
                 steps |-> p.steps]
        BY <1>2, <2>3 DEF ReduceEnd
      <3>2. [status |-> status, createdAt |-> p.run.createdAt] \in RunRow
        BY <2>2, <2>3 DEF RunRow, RunStatus
      <3>3. QED
        BY <2>2, <2>3, <3>1, <3>2 DEF Truthful
    <2>4. ASSUME NEW legal, NEW row \in StepRow, e.key \in StepsOf(r),
                 row.status = "completed" => Saved(e.key, row.output),
                 q = ReduceStep(p, e, legal, row)
          PROVE  Truthful(r, q) /\ q.run.status # "absent"
      <3>1. q = [p EXCEPT !.steps[e.key] = row]
        BY <1>2, <2>4 DEF ReduceStep
      <3>2. /\ q.accepted = p.accepted /\ q.run = p.run
            /\ q.steps = [p.steps EXCEPT ![e.key] = row]
            /\ q \in [accepted : BOOLEAN, run : RunRow,
                      steps : {<<>>} \cup [StepsOf(r) -> StepRow]]
        <4>1. p \in [accepted : BOOLEAN, run : RunRow,
                     steps : [StepsOf(r) -> StepRow]]
          BY <2>2 DEF Truthful
        <4> HIDE DEF q
        <4>2. [p.steps EXCEPT ![e.key] = row] \in [StepsOf(r) -> StepRow]
          BY <2>2, <2>4
        <4>3. QED
          BY <3>1, <4>1, <4>2
      <3> HIDE DEF q
      <3>3. QED
        BY <2>1, <2>2, <2>4, <3>2 DEF Truthful
    <2>5. e.type \in {"StepAttemptStarted", "StepRetryScheduled",
                      "StepCompleted", "StepFailed", "WorkflowRunCompleted",
                      "WorkflowRunFailed"}
      BY <1>5 DEF Fits, Event
    <2>6. CASE e.type = "WorkflowRunCompleted"
      BY <1>3, <2>1, <2>3, <2>6 DEF ReduceEvent
    <2>7. CASE e.type = "WorkflowRunFailed"
      BY <1>3, <2>1, <2>3, <2>7 DEF ReduceEvent
    <2>8. CASE e.type \in {"StepAttemptStarted", "StepRetryScheduled",
                           "StepCompleted", "StepFailed"}
      <3>1. q = ReduceStepEvent(p, e) /\ e.key \in StepsOf(r)
        BY <1>3, <2>1, <2>8 DEF ReduceEvent, Fits
      <3>2. p.steps[e.key] \in StepRow
        BY <2>2, <3>1
      <3>3. CASE e.type = "StepAttemptStarted"
        <4> DEFINE row == [status |-> "intent_recorded", attempts |-> e.attempt,
                           nextAt |-> 0, error |-> "none",
                           output |-> p.steps[e.key].output]
        <4>1. row \in StepRow /\ row.status # "completed"
          BY <3>2, <3>3 DEF Fits, Event, StepRow, StepStatus, Runnable
        <4>2. q = ReduceStep(p, e, AttemptIsLegal(p, e), row)
          BY <3>1, <3>3 DEF ReduceStepEvent
        <4> HIDE DEF row, q
        <4>3. QED
          BY <2>4, <3>1, <4>1, <4>2
      <3>4. CASE e.type = "StepRetryScheduled"
        <4> DEFINE row == [status |-> "retry_wait",
                           attempts |-> p.steps[e.key].attempts,
                           nextAt |-> e.until, error |-> e.error,
                           output |-> p.steps[e.key].output]
        <4>1. row \in StepRow /\ row.status # "completed"
          BY <3>2, <3>4 DEF Fits, Event, StepRow, StepStatus, Runnable
        <4>2. q = ReduceStep(p, e, CurrentAttempt(p, e), row)
          BY <3>1, <3>4 DEF ReduceStepEvent
        <4> HIDE DEF row, q
        <4>3. QED
          BY <2>4, <3>1, <4>1, <4>2
      <3>5. CASE e.type = "StepCompleted"
        <4> DEFINE row == [status |-> "completed",
                           attempts |-> p.steps[e.key].attempts,
                           nextAt |-> 0, error |-> "none", output |-> e.output]
        <4>1. row \in StepRow /\ row.output = e.output
          BY <3>2, <3>5 DEF Fits, Event, StepRow, StepStatus
        <4>2. Saved(e.key, e.output)
          BY <3>5 DEF Fits
        <4>3. q = ReduceStep(p, e, CurrentAttempt(p, e), row)
          BY <3>1, <3>5 DEF ReduceStepEvent
        <4> HIDE DEF row, q
        <4>4. QED
          BY <2>4, <3>1, <4>1, <4>2, <4>3
      <3>6. CASE e.type = "StepFailed"
        <4> DEFINE row == [status |-> "failed",
                           attempts |-> p.steps[e.key].attempts,
                           nextAt |-> 0, error |-> e.error,
                           output |-> p.steps[e.key].output]
        <4>1. row \in StepRow /\ row.status # "completed"
          BY <3>2, <3>6 DEF Fits, Event, StepRow, StepStatus
        <4>2. q = ReduceStep(p, e, CurrentAttempt(p, e), row)
          BY <3>1, <3>6 DEF ReduceStepEvent
        <4> HIDE DEF row, q
        <4>3. QED
          BY <2>4, <3>1, <4>1, <4>2
      <3>7. QED
        BY <2>8, <3>3, <3>4, <3>5, <3>6
    <2>9. QED
      BY <2>5, <2>6, <2>7, <2>8
  <1>6. QED
    BY <1>4, <1>5

\* What is appended to a history is events.
LEMMA AppendedAreEvents ==
    ASSUME NEW h \in Seq(Event), NEW e, NEW f
    PROVE  /\ h \o <<e>> \in Seq(Event) => e \in Event
           /\ h \o <<e, f>> \in Seq(Event) => e \in Event /\ f \in Event
  <1> DEFINE S == Event \cup {e, f}
  <1>1. h \in Seq(S) /\ e \in S /\ f \in S
    <2>1. Event \subseteq S /\ e \in S /\ f \in S
      OBVIOUS
    <2> HIDE DEF S
    <2>2. QED
      BY <2>1
  <1> HIDE DEF S, Event
  <1>2. /\ Len(h) \in Nat
        /\ Len(h \o <<e>>) = Len(h) + 1
        /\ Len(h \o <<e, f>>) = Len(h) + 2
        /\ (h \o <<e>>)[Len(h) + 1] = e
        /\ (h \o <<e, f>>)[Len(h) + 1] = e
        /\ (h \o <<e, f>>)[Len(h) + 2] = f
    BY <1>1
  <1>3. \A g \in Seq(Event) : \A i \in 1 .. Len(g) : g[i] \in Event
    OBVIOUS
  <1>4. /\ Len(h) + 1 \in 1 .. Len(h) + 1
        /\ {Len(h) + 1, Len(h) + 2} \subseteq 1 .. Len(h) + 2
    BY <1>2
  <1>5. QED
    BY <1>2, <1>3, <1>4

\* Who appends to a history appends events of its run, and a completion only
\* with the answer that the tool has saved.
LEMMA AppendedFit ==
    ASSUME Assumptions, TypeOK, ToolInv, Next, NEW r \in Run,
           events'[r] # events[r]
    PROVE  \E e, f : \/ events'[r] = events[r] \o <<e>> /\ Fits(r, e)
                     \/ /\ events'[r] = events[r] \o <<e, f>>
                        /\ Fits(r, e) /\ Fits(r, f)
  <1>1. /\ events \in [Run -> Seq(Event)] /\ events' \in [Run -> Seq(Event)]
        /\ runs \in [Run -> RunRow]
    BY NextType DEF TypeOK, StorageTypeOK
  <1>2. \A e, f : /\ events'[r] = events[r] \o <<e>> => e \in Event
                  /\ events'[r] = events[r] \o <<e, f>> =>
                        e \in Event /\ f \in Event
    <2> HIDE DEF Event
    <2>1. events[r] \in Seq(Event) /\ events'[r] \in Seq(Event)
      BY <1>1
    <2>2. QED
      BY <2>1, AppendedAreEvents
  <1>3. ASSUME NEW s \in Run, Submit(s)
        PROVE  \E e : events'[r] = events[r] \o <<e>> /\ Fits(r, e)
    <2>1. PICK now \in Recent : CreateWorkflowRun(s, now)
      BY <1>3 DEF Submit
    <2> DEFINE e == [type |-> "WorkflowRunCreated", at |-> now]
    <2>2. e.type = "WorkflowRunCreated"
      OBVIOUS
    <2>3. events' = [events EXCEPT ![s] = events[s] \o <<e>>]
      BY <2>1 DEF CreateWorkflowRun, AppendEvents
    <2> HIDE DEF e
    <2>4. events'[r] = events[r] \o <<e>>
      BY <1>1, <2>3
    <2>5. Fits(r, e)
      BY <1>2, <2>2, <2>4 DEF Fits
    <2>6. QED
      BY <2>4, <2>5
  <1>4. ASSUME NEW w \in Worker, TransitionStep(w)
        PROVE  \E e, f : \/ events'[r] = events[r] \o <<e>> /\ Fits(r, e)
                         \/ /\ events'[r] = events[r] \o <<e, f>>
                            /\ Fits(r, e) /\ Fits(r, f)
    <2> DEFINE k == claim[w].key
    <2>1. Transition(w)
      BY <1>4, TransitionFootprint
    <2>2. RunOf[k] = r /\ k \in Key
      BY <2>1, ClaimIsTyped DEF Transition
    <2>3. k \in StepsOf(r)
      BY <2>2 DEF StepsOf
    <2>4. \A es : AppendEvents(RunOf[k], es) => events'[r] = events[r] \o es
      BY <1>1, <2>2 DEF AppendEvents
    <2>5. CASE Record(w)
      <3>1. PICK now : RecordAttempt(k, w, claim[w].token, now)
        BY <2>5 DEF Record
      <3> DEFINE e == [type |-> "StepAttemptStarted", key |-> k,
                       attempt |-> steps[k].attempts + 1,
                       owner |-> w, token |-> claim[w].token, at |-> now]
      <3>2. e.type = "StepAttemptStarted" /\ e.key = k
        OBVIOUS
      <3>3. AppendEvents(RunOf[k], <<e>>)
        BY <3>1 DEF RecordAttempt
      <3> HIDE DEF e
      <3>4. events'[r] = events[r] \o <<e>>
        BY <2>4, <3>3
      <3>5. Fits(r, e)
        BY <1>2, <2>3, <3>2, <3>4 DEF Fits
      <3>6. QED
        BY <3>4, <3>5
    <2>6. CASE Retry(w)
      <3>1. PICK error, until, throttle, now :
              ScheduleRetry(k, w, claim[w].token, error, until, throttle, now)
        BY <2>6 DEF Retry
      <3> DEFINE e == [type |-> "StepRetryScheduled", key |-> k,
                       attempt |-> steps[k].attempts,
                       error |-> error, until |-> until, at |-> now]
      <3>2. e.type = "StepRetryScheduled" /\ e.key = k
        OBVIOUS
      <3>3. AppendEvents(RunOf[k], <<e>>)
        BY <3>1 DEF ScheduleRetry
      <3> HIDE DEF e
      <3>4. events'[r] = events[r] \o <<e>>
        BY <2>4, <3>3
      <3>5. Fits(r, e)
        BY <1>2, <2>3, <3>2, <3>4 DEF Fits
      <3>6. QED
        BY <3>4, <3>5
    <2>7. CASE GiveUp(w)
      <3>1. PICK error, now : FailStep(k, w, claim[w].token, error, now)
        BY <2>7 DEF GiveUp
      <3> DEFINE e == [type |-> "StepFailed", key |-> k,
                       attempt |-> steps[k].attempts,
                       error |-> error, at |-> now]
                 f == [type |-> "WorkflowRunFailed", key |-> k,
                       error |-> error, at |-> now]
      <3>2. /\ e.type = "StepFailed" /\ e.key = k
            /\ f.type = "WorkflowRunFailed" /\ f.key = k
        OBVIOUS
      <3>3. AppendEvents(RunOf[k], <<e, f>>)
        BY <3>1 DEF FailStep
      <3> HIDE DEF e, f
      <3>4. events'[r] = events[r] \o <<e, f>>
        BY <2>4, <3>3
      <3>5. Fits(r, e) /\ Fits(r, f)
        BY <1>2, <2>3, <3>2, <3>4 DEF Fits
      <3>6. QED
        BY <3>4, <3>5
    <2>8. CASE Complete(w)
      <3>1. PICK a \in Answered(w, {"ok"}), now \in Reading(w) :
              CompleteStep(k, w, claim[w].token, a.ref, now)
        BY <2>8 DEF Complete
      <3> DEFINE e == [type |-> "StepCompleted", key |-> k,
                       attempt |-> steps[k].attempts,
                       output |-> a.ref, at |-> now]
                 f == [type |-> "WorkflowRunCompleted", at |-> now]
      <3>2. /\ e.type = "StepCompleted" /\ e.key = k /\ e.output = a.ref
            /\ f.type = "WorkflowRunCompleted"
        OBVIOUS
      <3>3. AppendEvents(RunOf[k], <<e>>) \/ AppendEvents(RunOf[k], <<e, f>>)
        BY <3>1 DEF CompleteStep
      <3> HIDE DEF e, f
      <3>4. \/ events'[r] = events[r] \o <<e>>
            \/ events'[r] = events[r] \o <<e, f>>
        BY <2>4, <3>3
      <3>5. Saved(k, a.ref)
        BY AnswerIsRef DEF Saved
      <3>6. e \in Event => Fits(r, e)
        BY <2>3, <3>2, <3>5 DEF Fits
      <3>7. f \in Event => Fits(r, f)
        BY <3>2 DEF Fits
      <3>8. QED
        BY <1>2, <3>4, <3>6, <3>7
    <2>9. QED
      BY <1>4, <2>5, <2>6, <2>7, <2>8 DEF TransitionStep
  <1>5. ASSUME NEW w \in Worker, ClaimStep(w)
        PROVE  UNCHANGED events
    BY <1>5 DEF ClaimStep, ClaimRunnableStep
  <1>6. QED
    BY <1>3, <1>4, <1>5, NextFootprint DEF LeaseStep

\* What is saved stays saved.
LEMMA SavedStays ==
    ASSUME TypeOK, ToolInv, Next, NEW k \in Key
    PROVE  results[k] # NoResult => results'[k] = results[k]
  BY ResultOrigin

LEMMA TruthStays ==
    ASSUME TypeOK, ToolInv, Next, NEW r \in Run, NEW p, Truthful(r, p)
    PROVE  Truthful(r, p)'
  <1>1. \A k \in StepsOf(r) : \A ref : Saved(k, ref) => Saved(k, ref)'
    BY SavedStays DEF Saved, StepsOf, NoResult
  <1>2. StepsOf(r)' = StepsOf(r)
    BY DEF StepsOf
  <1>3. QED
    BY <1>1 DEF Truthful, Saved, StepsOf

LEMMA HistoryIsTruthfulStep ==
    ASSUME Assumptions, TypeOK, ToolInv, HistoryIsTruthful, Next
    PROVE  HistoryIsTruthful'
  <1>1. events \in [Run -> Seq(Event)]
    BY DEF TypeOK, StorageTypeOK
  <1>2. ASSUME NEW r \in Run
        PROVE  /\ Truthful(r, Replayed(r, events'[r]))
               /\ events'[r] # <<>> /\ Replayed(r, events'[r]).accepted =>
                     Replayed(r, events'[r]).run.status # "absent"
    <2>1. CASE events'[r] = events[r]
      BY <2>1 DEF HistoryIsTruthful
    <2>2. CASE events'[r] # events[r]
      <3>1. PICK e, f : \/ events'[r] = events[r] \o <<e>> /\ Fits(r, e)
                        \/ /\ events'[r] = events[r] \o <<e, f>>
                           /\ Fits(r, e) /\ Fits(r, f)
        BY <2>2, AppendedFit
      <3> DEFINE p == Replayed(r, events[r])
                 q == ReduceEvent(r, p, e)
      <3>2. Truthful(r, p) /\ events[r] \in Seq(Event)
        BY <1>1 DEF HistoryIsTruthful
      <3>3. e \in Event
        BY <3>1 DEF Fits
      <3> HIDE DEF Event
      <3>4. /\ Truthful(r, q)
            /\ q.accepted => q.run.status # "absent"
        BY <3>1, <3>2, ReduceIsTruthful
      <3>5. CASE events'[r] = events[r] \o <<e>>
        <4>1. Replayed(r, events'[r]) = q
          BY <3>2, <3>3, <3>5, ReplayedAppend
        <4>2. QED
          BY <3>4, <4>1
      <3>6. CASE events'[r] = events[r] \o <<e, f>> /\ Fits(r, f)
        <4>1. f \in Event
          BY <3>6 DEF Fits
        <4>2. Replayed(r, events'[r]) = ReduceEvent(r, q, f)
          BY <3>2, <3>3, <3>6, <4>1, ReplayedAppendTwo
        <4> HIDE DEF q
        <4>3. QED
          BY <3>4, <3>6, <4>2, ReduceIsTruthful
      <3>7. QED
        BY <3>1, <3>5, <3>6
    <2>3. QED
      BY <2>1, <2>2
  <1>3. ASSUME NEW r \in Run
        PROVE  Truthful(r, Replayed(r, events[r]))'
    <2> DEFINE v == Replayed(r, events'[r])
    <2>1. Replayed(r, events[r])' = v
      BY DEF Replayed, Reduced, ReduceEvent, ReduceCreated, ReduceStepEvent
    <2>2. Truthful(r, v)
      BY <1>2
    <2>3. \A k \in StepsOf(r) : \A ref : Saved(k, ref) => Saved(k, ref)'
      BY SavedStays DEF Saved, StepsOf, NoResult
    <2> HIDE DEF v
    <2>4. QED
      BY <2>1, <2>2, <2>3 DEF Truthful, Saved, StepsOf
  <1>4. \A r \in Run : Replayed(r, events[r])' = Replayed(r, events'[r])
    BY DEF Replayed, Reduced, ReduceEvent, ReduceCreated, ReduceStepEvent
  <1>5. QED
    BY <1>2, <1>3, <1>4 DEF HistoryIsTruthful

LEMMA SuppliedStays ==
    ASSUME Assumptions, TypeOK, ToolInv, Next, NEW k \in Key, Supplied(k)
    PROVE  Supplied(k)'
  <1>1. \A d \in DependsOn[k] : d \in Key
    BY DEF Assumptions, StorageAssumption
  <1>2. QED
    BY <1>1, SavedStays DEF Supplied, NoResult

\* A step is claimed when the rows of its dependencies are completed, and
\* rows that say so name a result.
LEMMA ClaimsAreSuppliedStep ==
    ASSUME Assumptions, RaceInv, Next
    PROVE  ClaimsAreSupplied'
  <1>1. TypeOK /\ ToolInv /\ CompletedHasEffect /\ ClaimsAreSupplied
    BY DEF RaceInv
  <1>2. SUFFICES ASSUME NEW w \in Worker, pc'[w] \in Busy
                 PROVE  \A d \in DependsOn[claim'[w].key] :
                           results'[d] # NoResult
    BY DEF ClaimsAreSupplied, Supplied, NoResult
  <1>3. claim'[w].key \in Key /\ Supplied(claim'[w].key)
    <2>1. CASE ClaimStep(w)
      <3>1. claim'[w].key \in Key /\ DependenciesCompleted(claim'[w].key)
        BY <1>1, <2>1, ClaimIsEligible
      <3>2. \A d \in DependsOn[claim'[w].key] : d \in Key
        BY <3>1 DEF Assumptions, StorageAssumption
      <3>3. QED
        BY <1>1, <3>1, <3>2
           DEF DependenciesCompleted, CompletedHasEffect, Supplied
    <2>2. CASE pc[w] \in Busy /\ claim'[w].key = claim[w].key
      BY <1>1, <2>2, ClaimIsTyped DEF ClaimsAreSupplied, Busy, Supplied
    <2>3. CASE Record(w)
      <3>1. pc[w] \in Busy /\ claim'[w].key = claim[w].key
        BY <1>1, <2>3 DEF Record, Busy, TypeOK, WorkerTypeOK, Claim
      <3>2. QED
        BY <2>2, <3>1
    <2>4. QED
      BY <1>1, <1>2, <2>1, <2>2, <2>3, BusyOrigin
  <1>4. ASSUME NEW k \in Key, Supplied(k)
        PROVE  \A d \in DependsOn[k] : results'[d] # NoResult
    BY <1>1, <1>4, SuppliedStays DEF Supplied, NoResult
  <1>5. QED
    BY <1>3, <1>4

LEMMA CallsAreSuppliedStep ==
    ASSUME Assumptions, RaceInv, Next
    PROVE  CallsAreSupplied'
  <1>1. TypeOK /\ ToolInv /\ ClaimsAreSupplied /\ CallsAreSupplied
    BY DEF RaceInv
  <1>2. SUFFICES ASSUME NEW c \in calls'
                 PROVE  Supplied(c.key)'
    BY DEF CallsAreSupplied, Supplied
  <1>3. c.key \in Key /\ Supplied(c.key)
    <2>1. CASE \E b \in calls : b.key = c.key
      BY <1>1, <2>1 DEF CallsAreSupplied, TypeOK, ToolTypeOK, Call
    <2>2. CASE \E w \in Worker : pc[w] = "intent" /\ claim[w].key = c.key
      BY <1>1, <2>2, ClaimIsTyped DEF ClaimsAreSupplied, Busy
    <2>3. QED
      BY <1>1, <2>1, <2>2, CallOrigin
  <1>4. QED
    BY <1>1, <1>3, SuppliedStays

\* A result comes from a request, and requests are supplied.
LEMMA EffectsFollowDependenciesStep ==
    ASSUME Assumptions, RaceInv, Next
    PROVE  EffectsFollowDependencies'
  <1>1. TypeOK /\ ToolInv /\ CallsAreSupplied /\ EffectsFollowDependencies
    BY DEF RaceInv
  <1>2. SUFFICES ASSUME NEW k \in Key, results'[k] # NoResult
                 PROVE  \A d \in DependsOn[k] : results'[d] # NoResult
    BY DEF EffectsFollowDependencies, NoResult
  <1>3. Supplied(k)
    BY <1>1, <1>2, ResultOrigin
       DEF CallsAreSupplied, EffectsFollowDependencies, Supplied
  <1>4. QED
    BY <1>1, <1>3, SuppliedStays DEF Supplied, NoResult

\* The engine's steps, whatever a rebuild under way has read.
LEMMA RaceBesideEngine ==
    ASSUME Assumptions, RaceInv, Next, UNCHANGED rebuildVars
    PROVE  RaceInv'
  <1>1. /\ TypeOK /\ ToolInv /\ CompletedHasEffect
        /\ HistoryIsTruthful /\ SnapshotIsTruthful
    BY DEF RaceInv
  <1>2. ToolInv'
    BY <1>1, NextToolInv
  <1>3. TypeOK'
    BY <1>1, <1>2, NextType DEF TypeOK, ToolInv
  <1>4. snapshot' = snapshot /\ NoSnapshot' = NoSnapshot
    BY DEF rebuildVars, NoSnapshot, Rejected, NewRun
  <1>5. ASSUME NEW r \in Run, NEW p, Truthful(r, p)
        PROVE  Truthful(r, p)'
    BY <1>1, <1>5, TruthStays
  <1>6. \A r \in Run : \A k \in StepsOf(r) : \A ref :
           Saved(k, ref) => Saved(k, ref)'
    BY <1>1, SavedStays DEF Saved, StepsOf, NoResult
  <1>7. SnapshotIsTruthful'
    BY <1>1, <1>4, <1>6 DEF SnapshotIsTruthful, Truthful, Saved, StepsOf
  <1>8. HistoryIsTruthful' /\ CompletedHasEffect'
    BY <1>1, HistoryIsTruthfulStep, CompletedHasEffectStep
  <1>9. QED
    BY <1>2, <1>3, <1>7, <1>8, ClaimsAreSuppliedStep, CallsAreSuppliedStep,
       EffectsFollowDependenciesStep DEF RaceInv

\* What the history and the tool's variables decide.
LEMMA RaceStays ==
    ASSUME RaceInv, UNCHANGED <<events, pc, claim>>, UNCHANGED toolVars
    PROVE  /\ ToolInv' /\ HistoryIsTruthful'
           /\ ClaimsAreSupplied' /\ CallsAreSupplied'
           /\ EffectsFollowDependencies'
  <1>1. ToolInv'
    BY ToolStutterInv DEF RaceInv
  <1>2. UNCHANGED <<results, calls>>
    BY DEF toolVars
  <1>3. \A r \in Run : Replayed(r, events[r])' = Replayed(r, events[r])
    BY DEF Replayed, Reduced, ReduceEvent, ReduceCreated, ReduceStepEvent
  <1>4. HistoryIsTruthful'
    BY <1>2, <1>3 DEF RaceInv, HistoryIsTruthful, Truthful, Saved, StepsOf
  <1>5. (ClaimsAreSupplied /\ CallsAreSupplied /\ EffectsFollowDependencies)'
    BY <1>2 DEF RaceInv, ClaimsAreSupplied, CallsAreSupplied, Supplied,
                EffectsFollowDependencies
  <1>6. QED
    BY <1>1, <1>4, <1>5

LEMMA RaceStutter ==
    ASSUME RaceInv, UNCHANGED vars
    PROVE  /\ TypeOK' /\ ToolInv' /\ CompletedHasEffect' /\ HistoryIsTruthful'
           /\ ClaimsAreSupplied' /\ CallsAreSupplied'
           /\ EffectsFollowDependencies'
  <1>1. /\ UNCHANGED toolVars /\ UNCHANGED <<events, pc, claim>>
        /\ UNCHANGED <<steps, results>>
    BY DEF vars, toolVars
  <1>2. TypeOK'
    BY DEF RaceInv, TypeOK, StorageTypeOK, ToolTypeOK, WorkerTypeOK, vars
  <1>3. CompletedHasEffect'
    BY <1>1 DEF RaceInv, CompletedHasEffect
  <1>4. QED
    BY <1>1, <1>2, <1>3, RaceStays

\* What list_events and the reducer hand to a rebuild is the truth so far.
LEMMA RaceReadsHistory ==
    ASSUME RaceInv, NEW r \in Run, ReadHistory(r)
    PROVE  RaceInv'
  <1>1. UNCHANGED vars
    BY DEF ReadHistory
  <1>2. UNCHANGED results
    BY <1>1 DEF vars
  <1> DEFINE p == Replayed(r, events[r])
  <1>3. /\ Truthful(r, p)
        /\ p.accepted => p.run.status # "absent"
    BY DEF RaceInv, HistoryIsTruthful, ReadHistory
  <1>4. ReduceHistory(r, events[r]) = p /\ p.accepted
    BY DEF ReadHistory, ReduceHistory, Replayed, Rejected
  <1>5. snapshot'.run = r /\ snapshot'.rows = p
    BY <1>4 DEF ReadHistory
  <1> HIDE DEF p
  <1>6. Truthful(r, snapshot'.rows)
    BY <1>3, <1>5
  <1>7. SnapshotIsTruthful'
    BY <1>2, <1>3, <1>4, <1>5, <1>6
       DEF SnapshotIsTruthful, Truthful, Saved, StepsOf
  <1>8. QED
    BY <1>1, <1>7, RaceStutter DEF RaceInv

\* So are the rows it writes, however late it writes them.
LEMMA RaceReplacesRows ==
    ASSUME Assumptions, RaceInv, ReplaceRows
    PROVE  RaceInv'
  <1> DEFINE r == snapshot.run
  <1>1. /\ r \in Run
        /\ snapshot.rows.run \in RunRow
        /\ snapshot.rows.steps \in [StepsOf(r) -> StepRow]
        /\ \A k \in StepsOf(r) : snapshot.rows.steps[k].status = "completed" =>
              Saved(k, snapshot.rows.steps[k].output)
    BY DEF RaceInv, SnapshotIsTruthful, Truthful, ReplaceRows, ReplaceBy
  <1>2. /\ runs' = [runs EXCEPT ![r] = snapshot.rows.run]
        /\ steps' = [k \in Key |-> IF RunOf[k] = r THEN snapshot.rows.steps[k]
                                                    ELSE steps[k]]
        /\ leases' = [leases EXCEPT ![r] = NoLease]
        /\ snapshot' = NoSnapshot
        /\ UNCHANGED <<throttles, events, clock, pc, claim, since, late>>
        /\ UNCHANGED toolVars
    BY DEF ReplaceRows, ReplaceBy, workerVars
  <1>3. /\ ToolInv' /\ HistoryIsTruthful'
        /\ ClaimsAreSupplied' /\ CallsAreSupplied'
        /\ EffectsFollowDependencies'
    BY <1>2, RaceStays
  <1>4. TypeOK /\ StorageTypeOK /\ WorkerTypeOK
    BY DEF RaceInv, TypeOK
  <1> HIDE DEF r
  <1>5. StorageTypeOK'
    <2>1. NoLease \in LeaseRow
      BY DEF NoLease, LeaseRow
    <2>2. runs' \in [Run -> RunRow] /\ leases' \in [Run -> LeaseRow]
      BY <1>1, <1>2, <1>4, <2>1 DEF StorageTypeOK
    <2>3. steps' \in [Key -> StepRow]
      BY <1>1, <1>2, <1>4 DEF StorageTypeOK, StepsOf
    <2>4. QED
      BY <1>2, <1>4, <2>2, <2>3 DEF StorageTypeOK
  <1>6. TypeOK'
    BY <1>2, <1>3, <1>4, <1>5 DEF TypeOK, WorkerTypeOK, ToolInv
  <1>7. CompletedHasEffect'
    <2>1. SUFFICES ASSUME NEW k \in Key, steps'[k].status = "completed"
                   PROVE  Saved(k, steps'[k].output)
      BY <1>2 DEF CompletedHasEffect, Saved, NoResult, toolVars
    <2>2. CASE RunOf[k] = r
      BY <1>1, <1>2, <2>1, <2>2 DEF StepsOf
    <2>3. CASE RunOf[k] # r
      BY <1>2, <2>1, <2>3 DEF RaceInv, CompletedHasEffect, Saved
    <2>4. QED
      BY <2>2, <2>3
  <1>8. SnapshotIsTruthful'
    BY <1>2 DEF SnapshotIsTruthful, NoSnapshot, Rejected, NewRun
  <1>9. QED
    BY <1>3, <1>6, <1>7, <1>8 DEF RaceInv

LEMMA RaceInit ==
    ASSUME Assumptions, OperatorInit
    PROVE  RaceInv
  <1>1. EngineInv /\ snapshot = NoSnapshot
    BY InitInv DEF OperatorInit, RebuildInit
  <1>2. ASSUME NEW r \in Run
        PROVE  events[r] = <<>> /\ Truthful(r, Replayed(r, events[r]))
    <2>1. events[r] = <<>>
      BY DEF OperatorInit, Init, StorageInit
    <2>2. Replayed(r, <<>>) = Unreduced
      BY ReplayedEmpty
    <2>3. Truthful(r, Unreduced)
      BY DEF Truthful, Unreduced, NewRun, RunRow, RunStatus
    <2>4. QED
      BY <2>1, <2>2, <2>3
  <1>3. HistoryIsTruthful /\ SnapshotIsTruthful
    BY <1>1, <1>2 DEF HistoryIsTruthful, SnapshotIsTruthful
  <1>4. /\ ClaimsAreSupplied /\ CallsAreSupplied /\ EffectsFollowDependencies
    BY DEF OperatorInit, Init, ToolInit, ClaimsAreSupplied, CallsAreSupplied,
           EffectsFollowDependencies, Busy
  <1>5. QED
    BY <1>1, <1>3, <1>4 DEF RaceInv, EngineInv

\* A rebuild may overwrite what was committed after it read, but neither the
\* history nor the rows it leaves are ever ahead of the tool.
THEOREM RaceSafety == OperatorSpec => []RaceInv
  <1>1. Assumptions
    BY StorageAssumption, ToolAssumption, EngineAssumption DEF Assumptions
  <1>2. OperatorInit => RaceInv
    BY <1>1, RaceInit
  <1>3. RaceInv /\ [OperatorNext]_operatorVars => RaceInv'
    <2>1. SUFFICES ASSUME RaceInv, [OperatorNext]_operatorVars
                   PROVE  RaceInv'
      OBVIOUS
    <2>2. CASE UNCHANGED vars /\ UNCHANGED rebuildVars
      <3>1. SnapshotIsTruthful'
        BY <2>1, <2>2 DEF RaceInv, SnapshotIsTruthful, Truthful, Saved, StepsOf,
                          NoSnapshot, Rejected, NewRun, rebuildVars, vars
      <3>2. QED
        BY <2>1, <2>2, <3>1, RaceStutter DEF RaceInv
    <2>3. CASE Next /\ UNCHANGED rebuildVars
      BY <1>1, <2>1, <2>3, RaceBesideEngine
    <2>4. CASE Rebuild
      BY <1>1, <2>1, <2>4, RaceReadsHistory, RaceReplacesRows DEF Rebuild
    <2>5. Read => UNCHANGED vars
      BY DEF Read, SelectRun, SelectSteps, SelectEvents, EndRead
    <2>6. QED
      BY <2>1, <2>2, <2>3, <2>4, <2>5 DEF OperatorNext, operatorVars
  <1>4. QED
    BY <1>2, <1>3, PTL DEF OperatorSpec

\* A completed row names the step's result in the tool also if a rebuild wrote
\* the row from a history that others appended to meanwhile.
THEOREM CompletedHasEffectBesideRebuild ==
    OperatorSpec => []CompletedHasEffect
  <1>1. RaceInv => CompletedHasEffect
    BY DEF RaceInv
  <1>2. QED
    BY <1>1, RaceSafety, PTL

\* A step that a racing rebuild reopens is claimed and sent again, and its
\* dependencies may be reopened too, yet the tool performs no operation before
\* those it depends on.
THEOREM EffectsFollowDependenciesBesideRebuild ==
    OperatorSpec => []EffectsFollowDependencies
  <1>1. RaceInv => EffectsFollowDependencies
    BY DEF RaceInv
  <1>2. QED
    BY <1>1, RaceSafety, PTL

-----------------------------------------------------------------------------
(* The counts of the timeline. *)

\* f lists what the view's loop holds after each of the first n events of h.
IsTally(f, n, r, h) ==
    f = [i \in 0 .. n |-> IF i = 0 THEN Blank(r)
                                  ELSE AddEvent(f[i - 1], h[i])]

LEMMA TallyExists ==
    ASSUME NEW r, NEW h, NEW n \in Nat
    PROVE  \E f : IsTally(f, n, r, h)
  <1> DEFINE T == {m \in Nat : ~ \E f : IsTally(f, m, r, h)}
  <1> SUFFICES ASSUME T # {} PROVE FALSE
    OBVIOUS
  <1>1. PICK m \in T : \A l \in T : m <= l
    BY LeastNatural
  <1>2. CASE m = 0
    <2>1. IsTally([i \in 0 .. 0 |-> Blank(r)], 0, r, h)
      BY DEF IsTally
    <2>2. QED
      BY <1>1, <1>2, <2>1
  <1>3. CASE m # 0
    <2>1. PICK f : IsTally(f, m - 1, r, h)
      BY <1>1, <1>3
    <2> DEFINE g == [i \in 0 .. m |-> IF i = m
                                       THEN AddEvent(f[m - 1], h[m])
                                       ELSE f[i]]
    <2>2. \A i \in 0 .. m : g[i] = IF i = 0 THEN Blank(r)
                                   ELSE AddEvent(g[i - 1], h[i])
      <3>1. \A i \in 0 .. m - 1 : f[i] = IF i = 0 THEN Blank(r)
                                         ELSE AddEvent(f[i - 1], h[i])
        BY <2>1 DEF IsTally
      <3>2. QED
        BY <1>1, <1>3, <3>1
    <2>3. IsTally(g, m, r, h)
      BY <2>2 DEF IsTally
    <2>4. QED
      BY <1>1, <2>3
  <1>4. QED
    BY <1>2, <1>3

LEMMA TallyIs ==
    ASSUME NEW r, NEW h, Len(h) \in Nat
    PROVE  \A i \in 0 .. Len(h) :
              Tally(r, h)[i] = IF i = 0 THEN Blank(r)
                               ELSE AddEvent(Tally(r, h)[i - 1], h[i])
  <1>1. Tally(r, h) = CHOOSE f : IsTally(f, Len(h), r, h)
    BY DEF Tally, IsTally
  <1>2. \E f : IsTally(f, Len(h), r, h)
    BY TallyExists
  <1>3. IsTally(Tally(r, h), Len(h), r, h)
    BY <1>1, <1>2
  <1>4. QED
    BY <1>3 DEF IsTally

\* What the loop holds when it is through.
Total(r, h) == Tally(r, h)[Len(h)]

LEMMA TotalEmpty ==
    ASSUME NEW r
    PROVE  Total(r, <<>>) = Blank(r)
  <1>1. Len(<<>>) = 0
    OBVIOUS
  <1>2. QED
    BY <1>1, TallyIs DEF Total

LEMMA TotalAppend ==
    ASSUME NEW r, NEW S, NEW h \in Seq(S), NEW e \in S
    PROVE  Total(r, h \o <<e>>) = AddEvent(Total(r, h), e)
  <1> DEFINE g == h \o <<e>>
  <1>1. /\ Len(h) \in Nat /\ Len(g) = Len(h) + 1 /\ g[Len(h) + 1] = e
        /\ \A i \in 1 .. Len(h) : h[i] = g[i]
    OBVIOUS
  <1> HIDE DEF g
  <1>2. /\ \A i \in 0 .. Len(h) :
              Tally(r, h)[i] = IF i = 0 THEN Blank(r)
                               ELSE AddEvent(Tally(r, h)[i - 1], h[i])
        /\ \A i \in 0 .. Len(h) + 1 :
              Tally(r, g)[i] = IF i = 0 THEN Blank(r)
                               ELSE AddEvent(Tally(r, g)[i - 1], g[i])
    BY <1>1, TallyIs
  <1>3. Tally(r, h)[Len(h)] = Tally(r, g)[Len(h)]
    <2> DEFINE T == {i \in 0 .. Len(h) : Tally(r, h)[i] # Tally(r, g)[i]}
    <2>1. SUFFICES ASSUME T # {} PROVE FALSE
      BY <1>1
    <2>2. PICK m \in T : \A i \in T : m <= i
      <3>1. T \subseteq Nat
        OBVIOUS
      <3> HIDE DEF T
      <3>2. QED
        BY <2>1, <3>1, LeastNatural
    <2>3. /\ Tally(r, h)[m] = IF m = 0 THEN Blank(r)
                              ELSE AddEvent(Tally(r, h)[m - 1], h[m])
          /\ Tally(r, g)[m] = IF m = 0 THEN Blank(r)
                              ELSE AddEvent(Tally(r, g)[m - 1], g[m])
      <3>1. m \in 0 .. Len(h) /\ m \in 0 .. Len(h) + 1
        BY <1>1
      <3> HIDE DEF T
      <3>2. QED
        BY <1>2, <3>1
    <2>4. m # 0 => Tally(r, h)[m - 1] = Tally(r, g)[m - 1] /\ h[m] = g[m]
      <3>1. m # 0 => /\ m - 1 \in 0 .. Len(h) /\ m - 1 \notin T
                     /\ m \in 1 .. Len(h)
        BY <1>1, <2>2
      <3>2. QED
        BY <1>1, <3>1
    <2>5. QED
      BY <2>3, <2>4
  <1>4. Tally(r, g)[Len(h) + 1] = AddEvent(Tally(r, g)[Len(h)], g[Len(h) + 1])
    BY <1>1, <1>2
  <1>5. QED
    BY <1>1, <1>3, <1>4 DEF Total, g

\* The run's own last event counts for nothing.
LEMMA TotalAppendTwo ==
    ASSUME NEW r, NEW S, NEW h \in Seq(S), NEW e \in S, NEW f \in S,
           f.type \in {"WorkflowRunCompleted", "WorkflowRunFailed"}
    PROVE  Total(r, h \o <<e, f>>) = AddEvent(Total(r, h), e)
  <1>1. <<e>> \in Seq(S) /\ <<f>> \in Seq(S)
    OBVIOUS
  <1>2. <<e, f>> = <<e>> \o <<f>>
    <2>1. <<e, f>> = Append(<<e>>, f)
      OBVIOUS
    <2>2. QED
      BY <1>1, <2>1, AppendIsConcat
  <1>3. h \o <<e, f>> = (h \o <<e>>) \o <<f>>
    BY <1>1, <1>2, ConcatAssociative
  <1>4. h \o <<e>> \in Seq(S)
    BY <1>1, ConcatProperties
  <1>5. Total(r, (h \o <<e>>) \o <<f>>) = AddEvent(Total(r, h \o <<e>>), f)
    BY <1>4, TotalAppend
  <1>6. AddEvent(Total(r, h \o <<e>>), f) = Total(r, h \o <<e>>)
    BY DEF AddEvent
  <1>7. Total(r, h \o <<e>>) = AddEvent(Total(r, h), e)
    BY TotalAppend
  <1>8. QED
    BY <1>3, <1>5, <1>6, <1>7

-----------------------------------------------------------------------------
(* A transition, as the view sees it. *)

\* The event of a step, at one reading of the clock, and what becomes of the
\* step's row with it.
StepMoves(w, e) ==
    LET k == claim[w].key
    IN  /\ e \in Event /\ e.at \in Reading(w)
        /\ e.type \in {"StepAttemptStarted", "StepRetryScheduled",
                       "StepCompleted", "StepFailed"}
        /\ e.key = k
        /\ CASE e.type = "StepAttemptStarted" ->
                  /\ pc[w] = "claimed" /\ DependenciesCompleted(k)
                  /\ steps'[k].status = "intent_recorded"
                  /\ steps'[k].attempts = steps[k].attempts + 1
             [] e.type = "StepRetryScheduled" ->
                  /\ steps'[k].status = "retry_wait"
                  /\ steps'[k].nextAt = e.until
             [] e.type = "StepCompleted" -> steps'[k].status = "completed"
             [] e.type = "StepFailed" -> steps'[k].status = "failed"
        /\ e.type # "StepAttemptStarted" =>
                  /\ steps[k].status = "intent_recorded"
                  /\ steps'[k].attempts = steps[k].attempts

\* The view of a history that an event, and perhaps the run's end, is added to.
ViewMoves(r, e) ==
    LET h == events[r]
        g == events'[r]
    IN  /\ Total(r, g) = AddEvent(Total(r, h), e)
        /\ g # <<>> /\ g[Len(g)].at = e.at
        /\ h # <<>> => g[1] = h[1]

LEMMA OneEventMoves ==
    ASSUME StorageTypeOK, NEW r \in Run, NEW e \in Event,
           AppendEvents(r, <<e>>)
    PROVE  ViewMoves(r, e)
  <1>1. events'[r] = events[r] \o <<e>> /\ events[r] \in Seq(Event)
    BY DEF StorageTypeOK, AppendEvents
  <1> HIDE DEF Event
  <1>2. Total(r, events[r] \o <<e>>) = AddEvent(Total(r, events[r]), e)
    BY <1>1, TotalAppend
  <1>3. ASSUME NEW h \in Seq(Event), NEW g, g = h \o <<e>>
        PROVE  g # <<>> /\ g[Len(g)] = e /\ (h # <<>> => g[1] = h[1])
    BY <1>3
  <1>4. QED
    BY <1>1, <1>2, <1>3 DEF ViewMoves

LEMMA TwoEventsMove ==
    ASSUME StorageTypeOK, NEW r \in Run, NEW e \in Event, NEW f \in Event,
           f.type \in {"WorkflowRunCompleted", "WorkflowRunFailed"},
           f.at = e.at, AppendEvents(r, <<e, f>>)
    PROVE  ViewMoves(r, e)
  <1>1. events'[r] = events[r] \o <<e, f>> /\ events[r] \in Seq(Event)
    BY DEF StorageTypeOK, AppendEvents
  <1> HIDE DEF Event
  <1>2. Total(r, events[r] \o <<e, f>>) = AddEvent(Total(r, events[r]), e)
    BY <1>1, TotalAppendTwo
  <1>3. ASSUME NEW h \in Seq(Event), NEW g, g = h \o <<e, f>>
        PROVE  g # <<>> /\ g[Len(g)] = f /\ (h # <<>> => g[1] = h[1])
    BY <1>3
  <1>4. QED
    BY <1>1, <1>2, <1>3 DEF ViewMoves

LEMMA RecordMoves ==
    ASSUME Assumptions, TypeOK, NEW w \in Worker, Record(w)
    PROVE  \E e : StepMoves(w, e) /\ ViewMoves(RunOf[claim[w].key], e)
  <1> DEFINE k == claim[w].key
  <1>1. PICK now \in Reading(w) : RecordAttempt(k, w, claim[w].token, now)
    BY DEF Record
  <1> DEFINE e == [type |-> "StepAttemptStarted", key |-> k,
                   attempt |-> steps[k].attempts + 1,
                   owner |-> w, token |-> claim[w].token, at |-> now]
  <1>2. /\ k \in Key /\ RunOf[k] \in Run /\ claim[w].token \in Nat
        /\ steps \in [Key -> StepRow] /\ steps[k].attempts \in Nat
        /\ now \in Nat /\ pc[w] = "claimed" /\ StorageTypeOK
    BY TransitionTypes DEF Record, TypeOK
  <1>3. e \in Event /\ e.at = now /\ e.key = k
        /\ e.type = "StepAttemptStarted"
    BY <1>2 DEF Event
  <1>4. /\ AppendEvents(RunOf[k], <<e>>)
        /\ DependenciesCompleted(k)
        /\ steps'[k] = IntentRow(steps[k])
    BY <1>1, <1>2 DEF RecordAttempt
  <1> HIDE DEF e
  <1>5. StepMoves(w, e)
    BY <1>2, <1>3, <1>4 DEF StepMoves, IntentRow
  <1>6. ViewMoves(RunOf[k], e)
    BY <1>2, <1>3, <1>4, OneEventMoves
  <1>7. QED
    BY <1>5, <1>6

LEMMA RetryMoves ==
    ASSUME Assumptions, TypeOK, NEW w \in Worker, Retry(w)
    PROVE  \E e : StepMoves(w, e) /\ ViewMoves(RunOf[claim[w].key], e)
  <1> DEFINE k == claim[w].key
  <1>1. PICK error \in Failures(w) \cap Retryable, until \in Nat,
             now \in Reading(w) :
            ScheduleRetry(k, w, claim[w].token, error, until,
                          error = "throttled", now)
    BY RetryDeadline
  <1> DEFINE e == [type |-> "StepRetryScheduled", key |-> k,
                   attempt |-> steps[k].attempts,
                   error |-> error, until |-> until, at |-> now]
  <1>2. /\ k \in Key /\ RunOf[k] \in Run
        /\ steps \in [Key -> StepRow] /\ steps[k].attempts \in Nat
        /\ now \in Nat /\ StorageTypeOK
    BY TransitionTypes DEF Retry, TypeOK
  <1>3. /\ e \in Event /\ e.at = now /\ e.key = k /\ e.until = until
        /\ e.type = "StepRetryScheduled"
    BY <1>2 DEF Event, Retryable, Error
  <1>4. /\ AppendEvents(RunOf[k], <<e>>)
        /\ steps[k].status = "intent_recorded"
        /\ steps'[k] = RetryRow(steps[k], error, until)
    BY <1>1, <1>2 DEF ScheduleRetry, ActiveAttempt
  <1> HIDE DEF e
  <1>5. StepMoves(w, e)
    BY <1>2, <1>3, <1>4 DEF StepMoves, RetryRow
  <1>6. ViewMoves(RunOf[k], e)
    BY <1>2, <1>3, <1>4, OneEventMoves
  <1>7. QED
    BY <1>5, <1>6

LEMMA CompleteMoves ==
    ASSUME Assumptions, TypeOK, ToolInv, NEW w \in Worker, Complete(w)
    PROVE  \E e : StepMoves(w, e) /\ ViewMoves(RunOf[claim[w].key], e)
  <1> DEFINE k == claim[w].key
  <1>1. PICK r \in Answered(w, {"ok"}), now \in Reading(w) :
            CompleteStep(k, w, claim[w].token, r.ref, now)
    BY DEF Complete
  <1> DEFINE e == [type |-> "StepCompleted", key |-> k,
                   attempt |-> steps[k].attempts,
                   output |-> r.ref, at |-> now]
             f == [type |-> "WorkflowRunCompleted", at |-> now]
  <1>2. /\ k \in Key /\ RunOf[k] \in Run /\ r.ref \in Nat \ {0}
        /\ steps \in [Key -> StepRow] /\ steps[k].attempts \in Nat
        /\ now \in Nat /\ StorageTypeOK
    BY TransitionTypes, AnswerIsRef DEF Complete, TypeOK
  <1>3. /\ e \in Event /\ e.at = now /\ e.key = k /\ e.type = "StepCompleted"
        /\ f \in Event /\ f.at = now /\ f.type = "WorkflowRunCompleted"
    BY <1>2 DEF Event
  <1>4. /\ \/ AppendEvents(RunOf[k], <<e>>)
           \/ AppendEvents(RunOf[k], <<e, f>>)
        /\ steps[k].status = "intent_recorded"
        /\ steps'[k] = CompletedRow(steps[k], r.ref)
    BY <1>1, <1>2 DEF CompleteStep, ActiveAttempt
  <1> HIDE DEF e, f
  <1>5. StepMoves(w, e)
    BY <1>2, <1>3, <1>4 DEF StepMoves, CompletedRow
  <1>6. ViewMoves(RunOf[k], e)
    BY <1>2, <1>3, <1>4, OneEventMoves, TwoEventsMove
  <1>7. QED
    BY <1>5, <1>6

LEMMA GiveUpMoves ==
    ASSUME Assumptions, TypeOK, NEW w \in Worker, GiveUp(w)
    PROVE  \E e : StepMoves(w, e) /\ ViewMoves(RunOf[claim[w].key], e)
  <1> DEFINE k == claim[w].key
  <1>1. PICK now \in Reading(w), error \in Error :
            FailStep(k, w, claim[w].token, error, now)
    BY DEF GiveUp
  <1> DEFINE e == [type |-> "StepFailed", key |-> k,
                   attempt |-> steps[k].attempts,
                   error |-> error, at |-> now]
             f == [type |-> "WorkflowRunFailed", key |-> k,
                   error |-> error, at |-> now]
  <1>2. /\ k \in Key /\ RunOf[k] \in Run
        /\ steps \in [Key -> StepRow] /\ steps[k].attempts \in Nat
        /\ now \in Nat /\ StorageTypeOK
    BY TransitionTypes DEF GiveUp, TypeOK
  <1>3. /\ e \in Event /\ e.at = now /\ e.key = k /\ e.type = "StepFailed"
        /\ f \in Event /\ f.at = now /\ f.type = "WorkflowRunFailed"
    BY <1>2 DEF Event
  <1>4. /\ AppendEvents(RunOf[k], <<e, f>>)
        /\ steps[k].status = "intent_recorded"
        /\ steps'[k] = FailedRow(steps[k], error)
    BY <1>1, <1>2 DEF FailStep, ActiveAttempt
  <1> HIDE DEF e, f
  <1>5. StepMoves(w, e)
    BY <1>2, <1>3, <1>4 DEF StepMoves, FailedRow
  <1>6. ViewMoves(RunOf[k], e)
    BY <1>2, <1>3, <1>4, TwoEventsMove
  <1>7. QED
    BY <1>5, <1>6

LEMMA TransitionMoves ==
    ASSUME Assumptions, EngineInv, NEW w \in Worker, TransitionStep(w)
    PROVE  \E e : StepMoves(w, e) /\ ViewMoves(RunOf[claim[w].key], e)
  BY RecordMoves, RetryMoves, CompleteMoves, GiveUpMoves
     DEF EngineInv, TransitionStep

-----------------------------------------------------------------------------
(* Counts. *)

TotalRow(r) ==
    [attempts : Nat, retries : Nat, plannedWait : Nat,
     first : [StepsOf(r) -> Nat], took : [StepsOf(r) -> Int],
     completed : SUBSET StepsOf(r)]

\* What the view counts of a run fits the rows.  A step that has an attempt
\* under way has one that nothing has closed yet.
CountsFit(r) ==
    LET t == Total(r, events[r])
    IN  /\ t \in TotalRow(r)
        /\ IsFiniteSet(CountedAttempts(r))
        /\ t.attempts = Cardinality(CountedAttempts(r))
        /\ IsFiniteSet(Having(r, "intent_recorded"))
        /\ IsFiniteSet(Having(r, "completed"))
        /\ IsFiniteSet(Having(r, "failed"))
        /\ t.retries + Cardinality(Having(r, "intent_recorded"))
                     + Cardinality(Having(r, "completed"))
                     + Cardinality(Having(r, "failed")) <= t.attempts
        /\ t.completed = Having(r, "completed")

CountsInv == \A r \in Accepted : CountsFit(r)

\* An event of a step keeps the loop's variables well typed.
LEMMA AddEventType ==
    ASSUME NEW r \in Run, NEW t \in TotalRow(r), NEW e \in Event,
           e.type \in {"StepAttemptStarted", "StepRetryScheduled",
                       "StepCompleted", "StepFailed"},
           e.key \in StepsOf(r)
    PROVE  AddEvent(t, e) \in TotalRow(r)
  <1> DEFINE First == [StepsOf(r) -> Nat]
             Took == [StepsOf(r) -> Int]
             Completed == SUBSET StepsOf(r)
  <1>1. TotalRow(r) = [attempts : Nat, retries : Nat, plannedWait : Nat,
                       first : First, took : Took, completed : Completed]
    BY DEF TotalRow
  <1>2. /\ t.attempts \in Nat /\ t.retries \in Nat /\ t.plannedWait \in Nat
        /\ t.first \in First /\ t.took \in Took /\ t.completed \in Completed
        /\ e.at \in Nat
    BY <1>1, EventFields
  <1>3. CASE e.type = "StepAttemptStarted"
    <2>1. [t.first EXCEPT ![e.key] = e.at] \in First
      BY <1>2
    <2> HIDE DEF First, Took, Completed
    <2>2. StartDuration(t, e) \in TotalRow(r)
      BY <1>1, <2>1 DEF StartDuration
    <2>3. AddEvent(t, e) = [StartDuration(t, e) EXCEPT !.attempts = @ + 1]
      BY <1>3 DEF AddEvent
    <2>4. QED
      BY <1>1, <2>2, <2>3
  <1>4. CASE e.type = "StepRetryScheduled"
    <2>1. e.until \in Nat
      BY <1>4, EventFields
    <2>2. Wait(e) \in Nat
      BY <1>2, <2>1 DEF Wait
    <2>3. AddEvent(t, e) = CountRetry(t, e)
      BY <1>4 DEF AddEvent
    <2> DEFINE wait == Wait(e)
    <2>4. /\ CountRetry(t, e) = [t EXCEPT !.retries = t.retries + 1,
                                          !.plannedWait = t.plannedWait + wait]
          /\ t.retries + 1 \in Nat /\ t.plannedWait + wait \in Nat
      BY <1>1, <1>2, <2>2 DEF CountRetry
    <2> HIDE DEF First, Took, Completed, wait
    <2>5. QED
      BY <1>1, <1>2, <2>3, <2>4
  <1>5. CASE e.type = "StepCompleted"
    <2>1. t.first[e.key] \in Nat
      BY <1>2
    <2>2. e.at - t.first[e.key] \in Int
      BY <1>2, <2>1
    <2>3. /\ [t.took EXCEPT ![e.key] = e.at - t.first[e.key]] \in Took
          /\ t.completed \cup {e.key} \in Completed
      BY <1>2, <2>2
    <2>4. AddEvent(t, e) =
            [t EXCEPT !.took = [t.took EXCEPT ![e.key] = e.at - t.first[e.key]],
                      !.completed = t.completed \cup {e.key}]
      BY <1>5 DEF AddEvent
    <2> HIDE DEF First, Took, Completed
    <2>5. QED
      BY <1>1, <2>3, <2>4
  <1>6. CASE e.type = "StepFailed"
    BY <1>6 DEF AddEvent
  <1>7. QED
    BY <1>3, <1>4, <1>5, <1>6

\* One more attempt of one step.
LEMMA OneMoreAttempt ==
    ASSUME NEW r \in Run,
           steps \in [Key -> StepRow], steps' \in [Key -> StepRow],
           NEW k \in StepsOf(r), steps'[k].attempts = steps[k].attempts + 1,
           \A j \in Key \ {k} : steps'[j] = steps[j],
           IsFiniteSet(CountedAttempts(r))
    PROVE  /\ IsFiniteSet(CountedAttempts(r)')
           /\ Cardinality(CountedAttempts(r)') =
                 Cardinality(CountedAttempts(r)) + 1
  <1> DEFINE pair == <<k, steps[k].attempts + 1>>
  <1>1. \A j \in StepsOf(r) : j \in Key
    BY DEF StepsOf
  <1>2. \A j \in Key : steps[j].attempts \in Nat /\ steps'[j].attempts \in Nat
    BY DEF StepRow
  <1>3. \A p : p \in CountedAttempts(r) <=>
           \E j \in StepsOf(r) : \E n \in 1 .. steps[j].attempts : p = <<j, n>>
    BY DEF CountedAttempts
  <1>4. \A p : p \in CountedAttempts(r)' <=>
           \E j \in StepsOf(r) : \E n \in 1 .. steps'[j].attempts : p = <<j, n>>
    BY DEF CountedAttempts, StepsOf
  <1>5. pair \notin CountedAttempts(r)
    BY <1>1, <1>2, <1>3
  <1>6. ASSUME NEW j \in StepsOf(r), NEW n
        PROVE  n \in 1 .. steps'[j].attempts <=>
                  \/ n \in 1 .. steps[j].attempts
                  \/ j = k /\ n = steps[k].attempts + 1
    <2>1. CASE j = k
      BY <1>1, <1>2, <2>1
    <2>2. CASE j # k
      BY <1>1, <2>2
    <2>3. QED
      BY <2>1, <2>2
  <1>7. CountedAttempts(r)' = CountedAttempts(r) \cup {pair}
    <2>1. ASSUME NEW p, p \in CountedAttempts(r)'
          PROVE  p \in CountedAttempts(r) \cup {pair}
      BY <1>3, <1>4, <1>6, <2>1
    <2>2. ASSUME NEW p, p \in CountedAttempts(r)
          PROVE  p \in CountedAttempts(r)'
      BY <1>3, <1>4, <1>6, <2>2
    <2>3. pair \in CountedAttempts(r)'
      <3>1. steps[k].attempts + 1 \in 1 .. steps'[k].attempts
        BY <1>1, <1>2
      <3>2. QED
        BY <1>4, <3>1
    <2>4. QED
      BY <2>1, <2>2, <2>3
  <1> HIDE DEF pair
  <1>8. QED
    BY <1>5, <1>7, FS_AddElement

\* The attempts a step's row counts say which attempts there are.
LEMMA SameAttempts ==
    ASSUME NEW r \in Run,
           \A k \in StepsOf(r) : steps'[k].attempts = steps[k].attempts
    PROVE  CountedAttempts(r)' = CountedAttempts(r)
  <1>1. ASSUME NEW k \in StepsOf(r)
        PROVE  {k} \X (1 .. steps'[k].attempts)
                  = {k} \X (1 .. steps[k].attempts)
    OBVIOUS
  <1>2. CountedAttempts(r)' =
            UNION {{k} \X (1 .. steps'[k].attempts) : k \in StepsOf(r)}
    BY DEF CountedAttempts, StepsOf
  <1>3. {{k} \X (1 .. steps'[k].attempts) : k \in StepsOf(r)} =
           {{k} \X (1 .. steps[k].attempts) : k \in StepsOf(r)}
    BY <1>1
  <1>4. QED
    BY <1>2, <1>3 DEF CountedAttempts

\* The step that moves joins the steps of one status and leaves those of all
\* others.
LEMMA HavingMoves ==
    ASSUME NEW r \in Run, NEW k \in StepsOf(r),
           \A j \in Key \ {k} : steps'[j] = steps[j]
    PROVE  /\ Having(r, "intent_recorded")' =
                 IF steps'[k].status = "intent_recorded"
                 THEN Having(r, "intent_recorded") \cup {k}
                 ELSE Having(r, "intent_recorded") \ {k}
           /\ Having(r, "completed")' =
                 IF steps'[k].status = "completed"
                 THEN Having(r, "completed") \cup {k}
                 ELSE Having(r, "completed") \ {k}
           /\ Having(r, "failed")' =
                 IF steps'[k].status = "failed"
                 THEN Having(r, "failed") \cup {k}
                 ELSE Having(r, "failed") \ {k}
  BY DEF Having, StepsOf

LEMMA CountsFitMoves ==
    ASSUME Assumptions, TypeOK, TypeOK', NEW w \in Worker, Transition(w),
           NEW e, StepMoves(w, e),
           NEW r \in Run, r = RunOf[claim[w].key], ViewMoves(r, e),
           CountsFit(r)
    PROVE  CountsFit(r)'
  <1> DEFINE k == claim[w].key
             t == Total(r, events[r])
             intent == Having(r, "intent_recorded")
             done == Having(r, "completed")
             failed == Having(r, "failed")
  <1>1. /\ k \in Key /\ k \in StepsOf(r)
        /\ steps \in [Key -> StepRow] /\ steps' \in [Key -> StepRow]
        /\ \A j \in Key \ {k} : steps'[j] = steps[j]
    BY TransitionTypes DEF Transition, StepsOf, TypeOK, StorageTypeOK
  <1>2. /\ t \in TotalRow(r)
        /\ IsFiniteSet(CountedAttempts(r))
        /\ t.attempts = Cardinality(CountedAttempts(r))
        /\ IsFiniteSet(intent) /\ IsFiniteSet(done) /\ IsFiniteSet(failed)
        /\ t.retries + Cardinality(intent) + Cardinality(done)
                     + Cardinality(failed) <= t.attempts
        /\ t.completed = done
        /\ t.attempts \in Nat /\ t.retries \in Nat
    BY DEF CountsFit, TotalRow
  <1>3. /\ Cardinality(intent) \in Nat /\ Cardinality(done) \in Nat
        /\ Cardinality(failed) \in Nat
    BY <1>2, FS_CardinalityType
  <1>4. Total(r, events[r])' = AddEvent(t, e)
    <2>1. Total(r, events[r])' = Total(r, events'[r])
      BY DEF Total, Tally, Blank, StepsOf, AddEvent, StartDuration, CountRetry,
             Wait
    <2>2. QED
      BY <2>1 DEF ViewMoves
  <1>5. AddEvent(t, e) \in TotalRow(r)
    BY <1>1, <1>2, AddEventType DEF StepMoves
  <1>6. /\ Having(r, "intent_recorded")' =
              IF steps'[k].status = "intent_recorded" THEN intent \cup {k}
                                                      ELSE intent \ {k}
        /\ Having(r, "completed")' =
              IF steps'[k].status = "completed" THEN done \cup {k}
                                                ELSE done \ {k}
        /\ Having(r, "failed")' =
              IF steps'[k].status = "failed" THEN failed \cup {k}
                                             ELSE failed \ {k}
    BY <1>1, HavingMoves
  <1>7. /\ k \in intent <=> steps[k].status = "intent_recorded"
        /\ k \in done <=> steps[k].status = "completed"
        /\ k \in failed <=> steps[k].status = "failed"
    BY <1>1 DEF Having
  <1> HIDE DEF intent, done, failed, t
  <1>8. /\ IsFiniteSet(intent \cup {k}) /\ IsFiniteSet(intent \ {k})
        /\ IsFiniteSet(done \cup {k}) /\ IsFiniteSet(done \ {k})
        /\ IsFiniteSet(failed \cup {k}) /\ IsFiniteSet(failed \ {k})
        /\ Cardinality(intent \cup {k}) =
              IF k \in intent THEN Cardinality(intent)
                              ELSE Cardinality(intent) + 1
        /\ Cardinality(intent \ {k}) =
              IF k \in intent THEN Cardinality(intent) - 1
                              ELSE Cardinality(intent)
        /\ Cardinality(done \cup {k}) =
              IF k \in done THEN Cardinality(done)
                              ELSE Cardinality(done) + 1
        /\ Cardinality(failed \cup {k}) =
              IF k \in failed THEN Cardinality(failed)
                              ELSE Cardinality(failed) + 1
    BY <1>2, FS_AddElement, FS_RemoveElement
  <1>9. /\ IsFiniteSet(Having(r, "intent_recorded")')
        /\ IsFiniteSet(Having(r, "completed")')
        /\ IsFiniteSet(Having(r, "failed")')
    BY <1>6, <1>8
  <1>10. steps[k].status \in Runnable
    BY DEF Transition
  <1>11. CASE e.type = "StepAttemptStarted"
    <2>1. /\ steps'[k].status = "intent_recorded"
          /\ steps'[k].attempts = steps[k].attempts + 1
      BY <1>11 DEF StepMoves
    <2>2. /\ AddEvent(t, e).attempts = t.attempts + 1
          /\ AddEvent(t, e).retries = t.retries
          /\ AddEvent(t, e).completed = t.completed
      BY <1>2, <1>11 DEF AddEvent, StartDuration, TotalRow
    <2>3. /\ Having(r, "intent_recorded")' = intent \cup {k}
          /\ Having(r, "completed")' = done
          /\ Having(r, "failed")' = failed
      BY <1>6, <1>7, <1>10, <2>1 DEF Runnable
    <2>4. /\ IsFiniteSet(CountedAttempts(r)')
          /\ Cardinality(CountedAttempts(r)')
                = Cardinality(CountedAttempts(r)) + 1
      BY <1>1, <1>2, <2>1, OneMoreAttempt
    <2>5. AddEvent(t, e).retries + Cardinality(Having(r, "intent_recorded")')
            + Cardinality(Having(r, "completed")')
            + Cardinality(Having(r, "failed")') <= AddEvent(t, e).attempts
      <3>1. \/ Cardinality(Having(r, "intent_recorded")') = Cardinality(intent)
            \/ Cardinality(Having(r, "intent_recorded")')
                  = Cardinality(intent) + 1
        BY <1>8, <2>3
      <3>2. /\ Cardinality(Having(r, "completed")') = Cardinality(done)
            /\ Cardinality(Having(r, "failed")') = Cardinality(failed)
        BY <2>3
      <3>3. QED
        BY <1>2, <1>3, <2>2, <3>1, <3>2
    <2>6. QED
      BY <1>2, <1>4, <1>5, <1>9, <2>2, <2>3, <2>4, <2>5
         DEF CountsFit, TotalRow, StepsOf
  <1>12. CASE e.type # "StepAttemptStarted"
    <2>1. /\ steps[k].status = "intent_recorded" /\ k \in intent
          /\ steps'[k].attempts = steps[k].attempts
      BY <1>7, <1>12 DEF StepMoves
    <2>2. CountedAttempts(r)' = CountedAttempts(r)
      <3>1. \A j \in StepsOf(r) : steps'[j].attempts = steps[j].attempts
        BY <1>1, <2>1 DEF StepsOf
      <3>2. QED
        BY <3>1, SameAttempts
    <2>3. k \notin done /\ k \notin failed
      BY <1>7, <2>1
    <2>4. Having(r, "intent_recorded")' = intent \ {k}
      BY <1>6, <1>12 DEF StepMoves
    <2>5. CASE e.type = "StepRetryScheduled"
      <3>1. /\ AddEvent(t, e).attempts = t.attempts
            /\ AddEvent(t, e).retries = t.retries + 1
            /\ AddEvent(t, e).completed = t.completed
        BY <1>2, <2>5 DEF AddEvent, CountRetry, TotalRow
      <3>2. Having(r, "completed")' = done /\ Having(r, "failed")' = failed
        BY <1>6, <2>3, <2>5 DEF StepMoves
      <3>3. AddEvent(t, e).retries + Cardinality(Having(r, "intent_recorded")')
              + Cardinality(Having(r, "completed")')
              + Cardinality(Having(r, "failed")') <= AddEvent(t, e).attempts
        <4>1. Cardinality(Having(r, "intent_recorded")')
                 = Cardinality(intent) - 1
          BY <1>8, <2>1, <2>4
        <4>2. QED
          BY <1>2, <1>3, <3>1, <3>2, <4>1
      <3>4. QED
        BY <1>2, <1>4, <1>5, <1>9, <2>2, <3>1, <3>2, <3>3
           DEF CountsFit, TotalRow, StepsOf
    <2>6. CASE e.type = "StepCompleted"
      <3>1. /\ AddEvent(t, e).attempts = t.attempts
            /\ AddEvent(t, e).retries = t.retries
            /\ AddEvent(t, e).completed = t.completed \cup {k}
        BY <1>2, <2>6 DEF AddEvent, TotalRow, StepMoves
      <3>2. /\ Having(r, "completed")' = done \cup {k}
            /\ Having(r, "failed")' = failed
        BY <1>6, <2>3, <2>6 DEF StepMoves
      <3>3. AddEvent(t, e).retries + Cardinality(Having(r, "intent_recorded")')
              + Cardinality(Having(r, "completed")')
              + Cardinality(Having(r, "failed")') <= AddEvent(t, e).attempts
        <4>1. Cardinality(Having(r, "intent_recorded")')
                 = Cardinality(intent) - 1
          BY <1>8, <2>1, <2>4
        <4>2. Cardinality(Having(r, "completed")') = Cardinality(done) + 1
          BY <1>8, <2>3, <3>2
        <4>3. QED
          BY <1>2, <1>3, <3>1, <3>2, <4>1, <4>2
      <3>4. QED
        BY <1>2, <1>4, <1>5, <1>9, <2>2, <3>1, <3>2, <3>3
           DEF CountsFit, TotalRow, StepsOf
    <2>7. CASE e.type = "StepFailed"
      <3>1. AddEvent(t, e) = t
        BY <2>7 DEF AddEvent
      <3>2. /\ Having(r, "completed")' = done
            /\ Having(r, "failed")' = failed \cup {k}
        BY <1>6, <2>3, <2>7 DEF StepMoves
      <3>3. t.retries + Cardinality(Having(r, "intent_recorded")')
              + Cardinality(Having(r, "completed")')
              + Cardinality(Having(r, "failed")') <= t.attempts
        <4>1. Cardinality(Having(r, "intent_recorded")')
                 = Cardinality(intent) - 1
          BY <1>8, <2>1, <2>4
        <4>2. Cardinality(Having(r, "failed")') = Cardinality(failed) + 1
          BY <1>8, <2>3, <3>2
        <4>3. QED
          BY <1>2, <1>3, <3>2, <4>1, <4>2
      <3>4. QED
        BY <1>2, <1>4, <1>5, <1>9, <2>2, <3>1, <3>2, <3>3
           DEF CountsFit, TotalRow, StepsOf
    <2>8. QED
      BY <1>12, <2>5, <2>6, <2>7 DEF StepMoves
  <1>13. QED
    BY <1>11, <1>12

\* Nothing changes for a run that a step leaves alone.
LEMMA CountsFitAlone ==
    ASSUME NEW r \in Run, CountsFit(r), events'[r] = events[r],
           \A k \in StepsOf(r) : steps'[k] = steps[k]
    PROVE  CountsFit(r)'
  <1>1. Total(r, events[r])' = Total(r, events[r])
    BY DEF Total, Tally, Blank, StepsOf, AddEvent, StartDuration, CountRetry,
           Wait
  <1>2. CountedAttempts(r)' = CountedAttempts(r)
    BY SameAttempts
  <1>3. /\ Having(r, "intent_recorded")' = Having(r, "intent_recorded")
        /\ Having(r, "completed")' = Having(r, "completed")
        /\ Having(r, "failed")' = Having(r, "failed")
    BY DEF Having, StepsOf
  <1>4. QED
    BY <1>1, <1>2, <1>3 DEF CountsFit, TotalRow, StepsOf

\* A new run has counted nothing.
LEMMA CountsFitNew ==
    ASSUME Assumptions, TypeOK, AbsentIsEmpty, NEW r \in Run, Submit(r)
    PROVE  CountsFit(r)'
  <1>1. PICK now \in Recent : CreateWorkflowRun(r, now)
    BY DEF Submit
  <1> DEFINE e == [type |-> "WorkflowRunCreated", at |-> now]
  <1>2. /\ events[r] = <<>> /\ AppendEvents(r, <<e>>) /\ StorageTypeOK
        /\ steps' = [k \in Key |-> IF RunOf[k] = r THEN NewStep ELSE steps[k]]
    BY <1>1 DEF CreateWorkflowRun, AbsentIsEmpty, TypeOK
  <1>3. e \in Event
    BY <1>2, RecentIsNat DEF Event
  <1>4. ViewMoves(r, e)
    BY <1>2, <1>3, OneEventMoves
  <1>5. AddEvent(Blank(r), e) = Blank(r)
    BY DEF AddEvent
  <1>6. Total(r, events'[r]) = Blank(r)
    BY <1>2, <1>4, <1>5, TotalEmpty DEF ViewMoves
  <1>7. Total(r, events[r])' = Total(r, events'[r])
    BY DEF Total, Tally, Blank, StepsOf, AddEvent, StartDuration, CountRetry,
           Wait
  <1>8. Blank(r) \in TotalRow(r)
    BY DEF Blank, TotalRow, NotYet
  <1>9. \A k \in StepsOf(r) : steps'[k] = NewStep
    BY <1>2 DEF StepsOf
  <1>10. CountedAttempts(r)' = {}
    BY <1>9 DEF CountedAttempts, StepsOf, NewStep
  <1>11. /\ Having(r, "intent_recorded")' = {}
         /\ Having(r, "completed")' = {}
         /\ Having(r, "failed")' = {}
    BY <1>9 DEF Having, StepsOf, NewStep
  <1>12. /\ Blank(r).attempts = 0 /\ Blank(r).retries = 0
         /\ Blank(r).completed = {}
    BY DEF Blank
  <1>13. QED
    BY <1>6, <1>7, <1>8, <1>10, <1>11, <1>12, FS_EmptySet
       DEF CountsFit, TotalRow, StepsOf

LEMMA CountsStep ==
    ASSUME Assumptions, EngineInv, AbsentIsEmpty, CountsInv, Next
    PROVE  CountsInv'
  <1>1. /\ TypeOK /\ TypeOK' /\ steps \in [Key -> StepRow]
        /\ runs \in [Run -> RunRow]
    BY NextInv DEF EngineInv, TypeOK, StorageTypeOK
  <1>2. SUFFICES ASSUME NEW r \in Run, runs'[r].status # "absent"
                 PROVE  CountsFit(r)'
    BY DEF CountsInv, Accepted
  <1>3. ASSUME runs[r].status # "absent", events'[r] = events[r],
               \A k \in StepsOf(r) : steps'[k] = steps[k]
        PROVE  CountsFit(r)'
    BY <1>3, CountsFitAlone DEF CountsInv, Accepted
  <1>4. ASSUME NEW s \in Run, Submit(s)
        PROVE  CountsFit(r)'
    <2>1. CASE s = r
      BY <1>1, <1>4, <2>1, CountsFitNew
    <2>2. CASE s # r
      BY <1>1, <1>2, <1>3, <1>4, <2>2
         DEF Submit, CreateWorkflowRun, AppendEvents, StepsOf, TypeOK,
             StorageTypeOK
    <2>3. QED
      BY <2>1, <2>2
  <1>5. ASSUME NEW w \in Worker, TransitionStep(w), Transition(w)
        PROVE  CountsFit(r)'
    <2>1. CASE RunOf[claim[w].key] = r
      <3>1. PICK e : StepMoves(w, e) /\ ViewMoves(r, e)
        BY <1>5, <2>1, TransitionMoves
      <3>2. CountsFit(r)
        BY <1>1, <1>5, <2>1, WriterOfRunning DEF CountsInv, Accepted
      <3>3. QED
        BY <1>1, <1>5, <2>1, <3>1, <3>2, CountsFitMoves
    <2>2. CASE RunOf[claim[w].key] # r
      <3>1. runs'[r] = runs[r] /\ events'[r] = events[r]
        BY <1>5, <2>2 DEF Transition
      <3>2. \A k \in StepsOf(r) : steps'[k] = steps[k]
        BY <1>5, <2>2 DEF Transition, StepsOf
      <3>3. QED
        BY <1>2, <1>3, <3>1, <3>2
    <2>3. QED
      BY <2>1, <2>2
  <1>6. CASE UNCHANGED <<runs, steps, events>>
    BY <1>2, <1>3, <1>6
  <1>7. QED
    BY <1>4, <1>5, <1>6, StepKinds

LEMMA CountsStay ==
    ASSUME CountsInv, UNCHANGED <<runs, steps, events>>
    PROVE  CountsInv'
  BY CountsFitAlone DEF CountsInv, Accepted

\* What the summary of an accepted run says, in terms of the loop.
LEMMA SummaryIs ==
    ASSUME NEW r \in Run
    PROVE  LET t == Total(r, events[r])
               s == Summary(r)
           IN  /\ s.attempts = t.attempts /\ s.retries = t.retries
               /\ s.plannedWait = t.plannedWait
               /\ s.elapsed = events[r][Len(events[r])].at - events[r][1].at
               /\ s.duration = [k \in t.completed |-> t.took[k]]
  BY DEF Summary, Total

LEMMA CountsAddUp ==
    ASSUME CountsInv
    PROVE  SummaryAddsUp
  <1> SUFFICES ASSUME NEW r \in Accepted
               PROVE  LET s == Summary(r)
                          closed == s.retries
                                      + Cardinality(Having(r, "completed"))
                                      + Cardinality(Having(r, "failed"))
                      IN  /\ s.attempts = Cardinality(CountedAttempts(r))
                          /\ closed <= s.attempts
                          /\ DOMAIN s.duration = Having(r, "completed")
    BY DEF SummaryAddsUp
  <1> DEFINE t == Total(r, events[r])
  <1>1. CountsFit(r) /\ r \in Run
    BY DEF CountsInv, Accepted
  <1>2. /\ Summary(r).attempts = t.attempts /\ Summary(r).retries = t.retries
        /\ DOMAIN Summary(r).duration = t.completed
    BY <1>1, SummaryIs
  <1>3. /\ Cardinality(Having(r, "intent_recorded")) \in Nat
        /\ Cardinality(Having(r, "completed")) \in Nat
        /\ Cardinality(Having(r, "failed")) \in Nat
        /\ t.attempts \in Nat /\ t.retries \in Nat
    BY <1>1, FS_CardinalityType DEF CountsFit, TotalRow
  <1>4. QED
    BY <1>1, <1>2, <1>3 DEF CountsFit

\* What the summary of a run counts is what the rows of its steps say, and no
\* attempt is closed twice, whoever retried it, lost it or took it over.
THEOREM SummaryAlwaysAddsUp == Spec => []SummaryAddsUp
  <1>1. Assumptions
    BY StorageAssumption, ToolAssumption, EngineAssumption DEF Assumptions
  <1>2. Init => CountsInv
    BY DEF Init, StorageInit, CountsInv, Accepted, NewRun
  <1>3. HistoryInv => AbsentIsEmpty
    BY DEF HistoryInv
  <1>4. EngineInv /\ AbsentIsEmpty /\ CountsInv /\ [Next]_vars => CountsInv'
    BY <1>1, CountsStep, CountsStay DEF vars
  <1>5. Spec => []CountsInv
    BY <1>2, <1>3, <1>4, EngineSafety, HistorySafety, PTL DEF Spec
  <1>6. QED
    BY <1>5, CountsAddUp, PTL

\* So it is of a run that is rebuilt.
THEOREM SummaryAddsUpBesideRebuild ==
    ASSUME Quiet
    PROVE  OperatorSpec => []SummaryAddsUp
  <1>1. Assumptions
    BY StorageAssumption, ToolAssumption, EngineAssumption DEF Assumptions
  <1>2. OperatorInit => CountsInv
    BY DEF OperatorInit, Init, StorageInit, CountsInv, Accepted, NewRun
  <1>3. OperatorInv => EngineInv /\ AbsentIsEmpty
    BY DEF OperatorInv, ReplayInv, Replays, AbsentIsEmpty
  <1>4. OperatorInv /\ [OperatorNext]_operatorVars =>
            Next \/ UNCHANGED <<runs, steps, events>>
    BY ReplaceWritesRows
       DEF OperatorNext, Rebuild, ReadHistory, Read, SelectRun, SelectSteps,
           SelectEvents, EndRead, operatorVars, vars
  <1>5. OperatorInv /\ CountsInv /\ [OperatorNext]_operatorVars => CountsInv'
    BY <1>1, <1>3, <1>4, CountsStep, CountsStay
  <1>6. OperatorSpec => []CountsInv
    BY <1>2, <1>5, OperatorSafety, PTL DEF OperatorSpec
  <1>7. QED
    BY <1>6, CountsAddUp, PTL

-----------------------------------------------------------------------------
(* Times. *)

\* A step that has been attempted had its dependencies completed.
StartedAreReady ==
    \A k \in Key : steps[k].status # "pending" => DependenciesCompleted(k)

\* Who is about to record an attempt came after the deadline in the step's row.
OwnerRowIsDue ==
    \A w \in Worker : (pc[w] = "claimed" /\ OwnsRun(w)) =>
        steps[claim[w].key].nextAt <= since[w]

Begin(r) == events[r][1].at
Latest(r) == events[r][Len(events[r])].at

\* First attempts and completions lie within what history spans.
SpanFits(r) ==
    LET t == Total(r, events[r])
    IN  /\ events[r] # <<>> /\ 0 < Begin(r) /\ Begin(r) <= Latest(r)
        /\ \A k \in StepsOf(r) :
              /\ t.first[k] = NotYet \/ t.first[k] \in Begin(r) .. Latest(r)
              /\ steps[k].status # "pending" => t.first[k] # NotYet
              /\ steps[k].status = "completed" =>
                    t.took[k] \in 0 .. Latest(r) - Begin(r)

\* The waits planned in a chain are over, or those before the one that is not.
WaitsFit(r) ==
    LET t == Total(r, events[r])
    IN  Chained(r) =>
          \/ t.plannedWait <= Latest(r) - Begin(r)
          \/ \E k \in StepsOf(r) :
                /\ steps[k].status = "retry_wait"
                /\ t.plannedWait <= steps[k].nextAt - Begin(r)

RunTimes == \A r \in Accepted : SpanFits(r) /\ WaitsFit(r)

TimesInv == StartedAreReady /\ OwnerRowIsDue /\ RunTimes

\* In a chain whoever is ready has nobody unfinished before it: the step before
\* it is completed, hence was ready itself.
LEMMA ChainOrder ==
    ASSUME Assumptions, StartedAreReady, NEW r \in Run, Chained(r),
           NEW j \in StepsOf(r), NEW k \in StepsOf(r), j # k,
           Position[j] <= Position[k], DependenciesCompleted(k)
    PROVE  steps[j].status = "completed"
  <1> SUFFICES ASSUME steps[j].status # "completed" PROVE FALSE
    OBVIOUS
  <1> DEFINE Behind == {i \in StepsOf(r) : /\ i # j
                                           /\ Position[j] <= Position[i]
                                           /\ DependenciesCompleted(i)}
             T == {Position[i] : i \in Behind}
  <1>1. /\ Position \in [Key -> Nat] /\ StepsOf(r) \subseteq Key
        /\ \A i \in StepsOf(r) : \A d \in DependsOn[i] : d \in StepsOf(r)
    BY DEF Assumptions, StorageAssumption, StepsOf
  <1>2. T \subseteq Nat /\ T # {}
    BY <1>1
  <1>3. PICK n \in T : \A m \in T : n <= m
    <2> HIDE DEF T
    <2>1. QED
      BY <1>2, LeastNatural
  <1>4. PICK i \in Behind : n = Position[i]
    BY <1>3
  <1>5. PICK d \in DependsOn[i] :
            Position[j] <= Position[d] /\ Position[d] < Position[i]
    BY <1>4 DEF Chained
  <1>6. d \in StepsOf(r) /\ steps[d].status = "completed"
    BY <1>1, <1>4, <1>5 DEF DependenciesCompleted
  <1>7. d # j /\ DependenciesCompleted(d)
    BY <1>1, <1>6 DEF StartedAreReady
  <1>8. Position[d] \in T
    BY <1>5, <1>6, <1>7
  <1>9. Position[i] <= Position[d] /\ Position[i] \in Nat /\ Position[d] \in Nat
    BY <1>1, <1>3, <1>4, <1>6, <1>8
  <1>10. QED
    BY <1>5, <1>9

LEMMA OnlyOneWaits ==
    ASSUME Assumptions, StartedAreReady, NEW r \in Run, Chained(r),
           NEW j \in StepsOf(r), NEW k \in StepsOf(r), j # k,
           steps[j].status = "retry_wait",
           steps[k].status # "completed", DependenciesCompleted(k)
    PROVE  FALSE
  <1>1. DependenciesCompleted(j)
    BY DEF StartedAreReady, StepsOf
  <1>2. Position[j] \in Nat /\ Position[k] \in Nat
    BY DEF Assumptions, StorageAssumption, StepsOf
  <1>3. Position[j] <= Position[k] \/ Position[k] <= Position[j]
    BY <1>2
  <1>4. QED
    BY <1>1, <1>3, ChainOrder

LEMMA StartedAreReadyStep ==
    ASSUME Assumptions, EngineInv, TimesInv, Next
    PROVE  StartedAreReady'
  <1> SUFFICES ASSUME NEW k \in Key, steps'[k].status # "pending"
               PROVE  DependenciesCompleted(k)'
    BY DEF StartedAreReady
  <1>1. TypeOK /\ ClaimsAreReady /\ StartedAreReady
    BY DEF EngineInv, TimesInv
  <1>2. CASE steps'[k] = steps[k]
    BY <1>1, <1>2, DependenciesStay DEF StartedAreReady
  <1>3. ASSUME NEW r \in Run, Submit(r)
        PROVE  steps'[k] = steps[k]
    <2>1. steps'[k] = IF RunOf[k] = r THEN NewStep ELSE steps[k]
      BY <1>3 DEF Submit, CreateWorkflowRun
    <2>2. QED
      BY <2>1 DEF NewStep
  <1>4. ASSUME NEW w \in Worker, Transition(w)
        PROVE  steps'[k] = steps[k] \/ DependenciesCompleted(k)
    BY <1>1, <1>4 DEF Transition, ClaimsAreReady, Busy
  <1>5. QED
    BY <1>2, <1>3, <1>4, DependenciesStay, StepKinds

LEMMA OwnerRowIsDueStep ==
    ASSUME Assumptions, EngineInv, PastInv, TimesInv, Next
    PROVE  OwnerRowIsDue'
  <1> SUFFICES ASSUME NEW w \in Worker, pc'[w] = "claimed", OwnsRun(w)'
               PROVE  steps'[claim'[w].key].nextAt <= since'[w]
    BY DEF OwnerRowIsDue
  <1>1. TypeOK /\ TypeOK'
    BY NextInv DEF EngineInv
  <1>2. CASE ClaimStep(w)
    <2>1. since'[w] = clock /\ UNCHANGED steps
      BY <1>1, <1>2, MoversAreCurrent, ClaimIsEligible
    <2>2. QED
      BY <1>1, <1>2, <2>1, ClaimIsDue
  <1>3. CASE pc[w] = "claimed" /\ claim'[w] = claim[w] /\ Untouched(w)
    <2>1. OwnsRun(w) /\ steps'[claim'[w].key] = steps[claim[w].key]
      BY <1>3 DEF Untouched, OwnsRun
    <2>2. /\ claim[w].key \in Key
          /\ steps[claim[w].key].nextAt \in Nat
      BY <1>1, <1>3, ClaimIsTyped DEF TypeOK, StorageTypeOK, StepRow
    <2>3. steps[claim[w].key].nextAt <= since[w]
      BY <1>3, <2>1 DEF TimesInv, OwnerRowIsDue
    <2>4. /\ since[w] \in Nat /\ since'[w] \in Nat
          /\ since[w] <= since'[w]
      BY <1>1, SinceMoves DEF PastInv
    <2>5. QED
      BY <2>1, <2>2, <2>3, <2>4
  <1>4. QED
    BY <1>2, <1>3, OwnerOrigin DEF Busy

\* A transition comes after all that the history of its run tells.
LEMMA MoveIsLater ==
    ASSUME Assumptions, EngineInv, PastInv, NEW w \in Worker, Transition(w),
           NEW r \in Run, r = RunOf[claim[w].key], events[r] # <<>>,
           NEW t \in Reading(w)
    PROVE  /\ Begin(r) \in Nat /\ Latest(r) \in Nat /\ t \in Nat
           /\ Latest(r) <= since[w] /\ since[w] \in Nat /\ since[w] <= t
  <1>1. TypeOK /\ pc[w] \in Busy /\ OwnsRun(w)
    BY DEF EngineInv, Transition, OwnsRun, Busy
  <1>2. /\ 1 \in Index(r) /\ Len(events[r]) \in Index(r)
        /\ events[r][1] \in Event /\ events[r][Len(events[r])] \in Event
    <2>1. events[r] \in Seq(Event)
      BY <1>1 DEF TypeOK, StorageTypeOK
    <2> HIDE DEF Event
    <2>2. QED
      BY <2>1 DEF Index
  <1>3. Begin(r) \in Nat /\ Latest(r) \in Nat
    BY <1>2, EventFields DEF Begin, Latest
  <1>4. Latest(r) <= since[w]
    BY <1>1, <1>2 DEF PastInv, OwnerIsLater, Latest
  <1>5. QED
    BY <1>1, <1>3, <1>4, ClockTypes

LEMMA SpanFitsMoves ==
    ASSUME Assumptions, EngineInv, PastInv, NEW w \in Worker, Transition(w),
           NEW e, StepMoves(w, e),
           NEW r \in Run, r = RunOf[claim[w].key], ViewMoves(r, e),
           CountsFit(r), SpanFits(r)
    PROVE  SpanFits(r)'
  <1> DEFINE k == claim[w].key
             t == Total(r, events[r])
             u == AddEvent(t, e)
             from == Begin(r)
             to == Latest(r)
  <1>1. /\ k \in Key /\ k \in StepsOf(r)
        /\ \A j \in StepsOf(r) : j # k => steps'[j] = steps[j]
    BY TransitionTypes DEF Transition, StepsOf, EngineInv
  <1>2. /\ from \in Nat /\ to \in Nat /\ e.at \in Nat /\ to <= e.at
        /\ 0 < from /\ from <= to
    BY MoveIsLater DEF StepMoves, SpanFits, EngineInv
  <1>3. events'[r] # <<>> /\ Begin(r)' = from /\ Latest(r)' = e.at
    BY DEF ViewMoves, SpanFits, Begin, Latest
  <1>4. Total(r, events[r])' = u
    <2>1. Total(r, events[r])' = Total(r, events'[r])
      BY DEF Total, Tally, Blank, StepsOf, AddEvent, StartDuration, CountRetry,
             Wait
    <2>2. QED
      BY <2>1 DEF ViewMoves
  <1>5. /\ t.first \in [StepsOf(r) -> Nat] /\ t.took \in [StepsOf(r) -> Int]
        /\ t \in TotalRow(r)
    BY DEF CountsFit, TotalRow
  <1>6. \A j \in StepsOf(r) :
           /\ t.first[j] = NotYet \/ t.first[j] \in from .. to
           /\ steps[j].status # "pending" => t.first[j] # NotYet
           /\ steps[j].status = "completed" => t.took[j] \in 0 .. to - from
    BY DEF SpanFits
  <1>7. NotYet = 0
    BY DEF NotYet
  <1> HIDE DEF t, from, to
  <1>8. CASE e.type = "StepAttemptStarted"
    <2>1. /\ u.took = t.took
          /\ u.first = IF t.first[k] = NotYet
                       THEN [t.first EXCEPT ![k] = e.at] ELSE t.first
      BY <1>5, <1>8 DEF AddEvent, StartDuration, StepMoves, TotalRow
    <2>2. steps'[k].status = "intent_recorded"
      BY <1>8 DEF StepMoves
    <2>3. ASSUME NEW j \in StepsOf(r)
          PROVE  /\ u.first[j] = NotYet \/ u.first[j] \in from .. e.at
                 /\ steps'[j].status # "pending" => u.first[j] # NotYet
                 /\ steps'[j].status = "completed" =>
                       u.took[j] \in 0 .. e.at - from
      <3>1. CASE j = k
        BY <1>1, <1>2, <1>5, <1>6, <1>7, <2>1, <2>2, <3>1
      <3>2. CASE j # k
        <4>1. u.first[j] = t.first[j] /\ steps'[j] = steps[j]
          BY <1>1, <1>5, <2>1, <3>2
        <4>2. QED
          BY <1>2, <1>6, <2>1, <4>1
      <3>3. QED
        BY <3>1, <3>2
    <2> HIDE DEF u
    <2>4. 0 < Begin(r)' /\ Begin(r)' <= Latest(r)'
      BY <1>2, <1>3
    <2>5. StepsOf(r)' = StepsOf(r) /\ NotYet' = NotYet
      BY DEF StepsOf, NotYet
    <2>6. \A j \in StepsOf(r)' :
             /\ u.first[j] = NotYet' \/ u.first[j] \in Begin(r)' .. Latest(r)'
             /\ steps'[j].status # "pending" => u.first[j] # NotYet'
             /\ steps'[j].status = "completed" =>
                   u.took[j] \in 0 .. Latest(r)' - Begin(r)'
      BY <1>3, <2>3, <2>5
    <2>7. QED
      BY <1>3, <1>4, <2>4, <2>6 DEF SpanFits
  <1>9. CASE e.type # "StepAttemptStarted"
    <2>1. steps[k].status = "intent_recorded"
      BY <1>9 DEF StepMoves
    <2>2. t.first[k] \in from .. to
      BY <1>1, <1>6, <2>1
    <2>3. /\ u.first = t.first
          /\ e.type # "StepCompleted" =>
                u.took = t.took /\ steps'[k].status # "completed"
          /\ e.type = "StepCompleted" =>
                u.took = [t.took EXCEPT ![k] = e.at - t.first[k]]
      BY <1>5, <1>9 DEF AddEvent, CountRetry, StepMoves, TotalRow
    <2>4. e.at - t.first[k] \in 0 .. e.at - from
      BY <1>2, <2>2
    <2>5. ASSUME NEW j \in StepsOf(r)
          PROVE  /\ u.first[j] = NotYet \/ u.first[j] \in from .. e.at
                 /\ steps'[j].status # "pending" => u.first[j] # NotYet
                 /\ steps'[j].status = "completed" =>
                       u.took[j] \in 0 .. e.at - from
      <3>1. CASE j = k
        <4>1. u.first[k] \in from .. e.at /\ u.first[k] # NotYet
          BY <1>2, <1>7, <2>2, <2>3
        <4>2. steps'[k].status = "completed" => u.took[k] \in 0 .. e.at - from
          BY <1>1, <1>5, <2>3, <2>4
        <4>3. QED
          BY <3>1, <4>1, <4>2
      <3>2. CASE j # k
        <4>1. u.first[j] = t.first[j] /\ steps'[j] = steps[j]
              /\ u.took[j] = t.took[j]
          BY <1>1, <1>5, <2>3, <3>2
        <4>2. QED
          BY <1>2, <1>6, <4>1
      <3>3. QED
        BY <3>1, <3>2
    <2> HIDE DEF u
    <2>6. 0 < Begin(r)' /\ Begin(r)' <= Latest(r)'
      BY <1>2, <1>3
    <2>7. StepsOf(r)' = StepsOf(r) /\ NotYet' = NotYet
      BY DEF StepsOf, NotYet
    <2>8. \A j \in StepsOf(r)' :
             /\ u.first[j] = NotYet' \/ u.first[j] \in Begin(r)' .. Latest(r)'
             /\ steps'[j].status # "pending" => u.first[j] # NotYet'
             /\ steps'[j].status = "completed" =>
                   u.took[j] \in 0 .. Latest(r)' - Begin(r)'
      BY <1>3, <2>5, <2>7
    <2>9. QED
      BY <1>3, <1>4, <2>6, <2>8 DEF SpanFits
  <1>10. QED
    BY <1>8, <1>9

\* Whatever wait was planned, it is over when the next event is written.
LEMMA WaitIsOver ==
    ASSUME Assumptions, EngineInv, PastInv, StartedAreReady, OwnerRowIsDue,
           NEW w \in Worker, Transition(w), NEW e, StepMoves(w, e),
           NEW r \in Run, r = RunOf[claim[w].key],
           CountsFit(r), SpanFits(r), WaitsFit(r), Chained(r)
    PROVE  Total(r, events[r]).plannedWait <= e.at - Begin(r)
  <1> DEFINE k == claim[w].key
             wait == Total(r, events[r]).plannedWait
  <1>1. /\ k \in Key /\ k \in StepsOf(r) /\ StepsOf(r) \subseteq Key
        /\ steps \in [Key -> StepRow]
    BY TransitionTypes DEF Transition, StepsOf, EngineInv, TypeOK, StorageTypeOK
  <1>2. /\ Begin(r) \in Nat /\ Latest(r) \in Nat /\ e.at \in Nat
        /\ Latest(r) <= since[w] /\ since[w] \in Nat /\ since[w] <= e.at
        /\ wait \in Nat
    BY MoveIsLater DEF StepMoves, SpanFits, CountsFit, TotalRow
  <1>3. DependenciesCompleted(k) /\ steps[k].status # "completed"
    BY <1>1 DEF StepMoves, StartedAreReady, Transition, Runnable
  <1> HIDE DEF wait
  <1>4. ASSUME wait <= Latest(r) - Begin(r)
        PROVE  wait <= e.at - Begin(r)
    BY <1>2, <1>4
  <1>5. ASSUME NEW j \in StepsOf(r), steps[j].status = "retry_wait",
               wait <= steps[j].nextAt - Begin(r)
        PROVE  wait <= e.at - Begin(r)
    <2>1. j = k
      BY <1>1, <1>3, <1>5, OnlyOneWaits
    <2>2. pc[w] = "claimed" /\ OwnsRun(w)
      BY <1>5, <2>1 DEF StepMoves, Transition, OwnsRun
    <2>3. steps[k].nextAt <= since[w] /\ steps[k].nextAt \in Nat
      BY <1>1, <2>2 DEF OwnerRowIsDue, StepRow
    <2>4. QED
      BY <1>2, <1>5, <2>1, <2>3
  <1>6. \/ wait <= Latest(r) - Begin(r)
        \/ \E j \in StepsOf(r) : /\ steps[j].status = "retry_wait"
                                 /\ wait <= steps[j].nextAt - Begin(r)
    BY DEF WaitsFit, wait
  <1>7. wait <= e.at - Begin(r)
    BY <1>4, <1>5, <1>6
  <1>8. QED
    BY <1>7 DEF wait

LEMMA WaitsFitMoves ==
    ASSUME Assumptions, EngineInv, PastInv, StartedAreReady, OwnerRowIsDue,
           NEW w \in Worker, Transition(w), NEW e, StepMoves(w, e),
           NEW r \in Run, r = RunOf[claim[w].key], ViewMoves(r, e),
           CountsFit(r), SpanFits(r), WaitsFit(r)
    PROVE  WaitsFit(r)'
  <1> DEFINE k == claim[w].key
             t == Total(r, events[r])
             u == AddEvent(t, e)
             from == Begin(r)
  <1>1. SUFFICES ASSUME Chained(r)
                 PROVE  WaitsFit(r)'
    BY DEF WaitsFit, Chained, StepsOf
  <1>2. Begin(r)' = from /\ Latest(r)' = e.at
    BY DEF ViewMoves, SpanFits, Begin, Latest
  <1>3. Total(r, events[r])' = u
    <2>1. Total(r, events[r])' = Total(r, events'[r])
      BY DEF Total, Tally, Blank, StepsOf, AddEvent, StartDuration, CountRetry,
             Wait
    <2>2. QED
      BY <2>1 DEF ViewMoves
  <1>4. /\ from \in Nat /\ e.at \in Nat
        /\ t.plannedWait \in Nat /\ t \in TotalRow(r)
    BY MoveIsLater DEF StepMoves, SpanFits, CountsFit, TotalRow
  <1>5. t.plannedWait <= e.at - from
    BY <1>1, WaitIsOver
  <1>6. k \in StepsOf(r)
    BY TransitionTypes DEF Transition, StepsOf, EngineInv
  <1> HIDE DEF t, from
  <1>7. CASE e.type = "StepRetryScheduled"
    <2>1. u.plannedWait = t.plannedWait + Wait(e)
      BY <1>4, <1>7 DEF AddEvent, CountRetry, TotalRow
    <2>2. e.until \in Nat
      BY <1>7, EventFields DEF StepMoves
    <2>3. steps'[k].status = "retry_wait" /\ steps'[k].nextAt = e.until
      BY <1>7 DEF StepMoves
    <2>4. \/ u.plannedWait <= e.at - from
          \/ u.plannedWait <= steps'[k].nextAt - from
      BY <1>4, <1>5, <2>1, <2>2, <2>3 DEF Wait
    <2> HIDE DEF u
    <2>5. QED
      BY <1>2, <1>3, <1>6, <2>3, <2>4 DEF WaitsFit, StepsOf
  <1>8. CASE e.type # "StepRetryScheduled"
    <2>1. u.plannedWait = t.plannedWait
      BY <1>4, <1>8 DEF AddEvent, StartDuration, StepMoves, TotalRow
    <2> HIDE DEF u
    <2>2. QED
      BY <1>2, <1>3, <1>5, <2>1 DEF WaitsFit, StepsOf
  <1>9. QED
    BY <1>7, <1>8

LEMMA TimesAlone ==
    ASSUME NEW r \in Run, SpanFits(r), WaitsFit(r), events'[r] = events[r],
           \A k \in StepsOf(r) : steps'[k] = steps[k]
    PROVE  SpanFits(r)' /\ WaitsFit(r)'
  <1>1. Total(r, events[r])' = Total(r, events[r])
    BY DEF Total, Tally, Blank, StepsOf, AddEvent, StartDuration, CountRetry,
           Wait
  <1>2. /\ Begin(r)' = Begin(r) /\ Latest(r)' = Latest(r)
        /\ StepsOf(r)' = StepsOf(r) /\ NotYet' = NotYet
        /\ Chained(r)' <=> Chained(r)
    BY DEF Begin, Latest, StepsOf, NotYet, Chained
  <1>3. SpanFits(r)'
    BY <1>1, <1>2 DEF SpanFits
  <1>4. WaitsFit(r)'
    BY <1>1, <1>2 DEF WaitsFit
  <1>5. QED
    BY <1>3, <1>4

\* A new run spans no time.
LEMMA TimesNew ==
    ASSUME Assumptions, TypeOK, AbsentIsEmpty, NEW r \in Run, Submit(r)
    PROVE  SpanFits(r)' /\ WaitsFit(r)'
  <1>1. PICK now \in Recent : CreateWorkflowRun(r, now)
    BY DEF Submit
  <1> DEFINE e == [type |-> "WorkflowRunCreated", at |-> now]
  <1>2. /\ events[r] = <<>> /\ AppendEvents(r, <<e>>) /\ StorageTypeOK
        /\ steps' = [k \in Key |-> IF RunOf[k] = r THEN NewStep ELSE steps[k]]
        /\ now \in Nat /\ 0 < now
    BY <1>1, ClockTypes
       DEF CreateWorkflowRun, AbsentIsEmpty, TypeOK, Recent, StorageTypeOK
  <1>3. e \in Event /\ e.at = now
    BY <1>2 DEF Event
  <1>4. ViewMoves(r, e)
    BY <1>2, <1>3, OneEventMoves
  <1>5. AddEvent(Blank(r), e) = Blank(r)
    BY DEF AddEvent
  <1>6. Total(r, events[r])' = Blank(r)
    <2>1. Total(r, events'[r]) = Blank(r)
      BY <1>2, <1>4, <1>5, TotalEmpty DEF ViewMoves
    <2>2. Total(r, events[r])' = Total(r, events'[r])
      BY DEF Total, Tally, Blank, StepsOf, AddEvent, StartDuration, CountRetry,
             Wait
    <2>3. QED
      BY <2>1, <2>2
  <1>7. events'[r] = <<e>>
    BY <1>2, <1>3 DEF AppendEvents, StorageTypeOK
  <1> HIDE DEF e
  <1>8. events'[r] # <<>> /\ Begin(r)' = now /\ Latest(r)' = now
    BY <1>3, <1>7 DEF Begin, Latest
  <1>9. \A k \in StepsOf(r) : steps'[k].status = "pending"
    BY <1>2 DEF StepsOf, NewStep
  <1>10. /\ \A k \in StepsOf(r) : Blank(r).first[k] = NotYet
         /\ Blank(r).plannedWait = 0
    BY DEF Blank
  <1>11. SpanFits(r)'
    BY <1>2, <1>6, <1>8, <1>9, <1>10 DEF SpanFits, StepsOf, NotYet
  <1>12. WaitsFit(r)'
    BY <1>2, <1>6, <1>8, <1>10 DEF WaitsFit, StepsOf
  <1>13. QED
    BY <1>11, <1>12

LEMMA RunTimesStep ==
    ASSUME Assumptions, EngineInv, PastInv, AbsentIsEmpty, CountsInv, TimesInv,
           Next
    PROVE  RunTimes'
  <1>1. /\ TypeOK /\ AbsentIsEmpty /\ steps \in [Key -> StepRow]
        /\ runs \in [Run -> RunRow] /\ StartedAreReady /\ OwnerRowIsDue
    BY DEF EngineInv, TypeOK, StorageTypeOK, TimesInv
  <1>2. SUFFICES ASSUME NEW r \in Run, runs'[r].status # "absent"
                 PROVE  SpanFits(r)' /\ WaitsFit(r)'
    BY DEF RunTimes, Accepted
  <1>3. ASSUME runs[r].status # "absent", events'[r] = events[r],
               \A k \in StepsOf(r) : steps'[k] = steps[k]
        PROVE  SpanFits(r)' /\ WaitsFit(r)'
    BY <1>3, TimesAlone DEF TimesInv, RunTimes, Accepted
  <1>4. ASSUME NEW s \in Run, Submit(s)
        PROVE  SpanFits(r)' /\ WaitsFit(r)'
    <2>1. CASE s = r
      BY <1>1, <1>4, <2>1, TimesNew
    <2>2. CASE s # r
      BY <1>1, <1>2, <1>3, <1>4, <2>2
         DEF Submit, CreateWorkflowRun, AppendEvents, StepsOf, TypeOK,
             StorageTypeOK
    <2>3. QED
      BY <2>1, <2>2
  <1>5. ASSUME NEW w \in Worker, TransitionStep(w), Transition(w)
        PROVE  SpanFits(r)' /\ WaitsFit(r)'
    <2>1. CASE RunOf[claim[w].key] = r
      <3>1. PICK e : StepMoves(w, e) /\ ViewMoves(r, e)
        BY <1>5, <2>1, TransitionMoves
      <3>2. CountsFit(r) /\ SpanFits(r) /\ WaitsFit(r)
        BY <1>5, <2>1, WriterOfRunning
           DEF CountsInv, TimesInv, RunTimes, Accepted
      <3>3. QED
        BY <1>1, <1>5, <2>1, <3>1, <3>2, SpanFitsMoves, WaitsFitMoves
    <2>2. CASE RunOf[claim[w].key] # r
      <3>1. runs'[r] = runs[r] /\ events'[r] = events[r]
        BY <1>5, <2>2 DEF Transition
      <3>2. \A k \in StepsOf(r) : steps'[k] = steps[k]
        BY <1>5, <2>2 DEF Transition, StepsOf
      <3>3. QED
        BY <1>2, <1>3, <3>1, <3>2
    <2>3. QED
      BY <2>1, <2>2
  <1>6. CASE UNCHANGED <<runs, steps, events>>
    BY <1>2, <1>3, <1>6
  <1>7. QED
    BY <1>4, <1>5, <1>6, StepKinds

\* So it is while rows, clock and workers are left alone and nobody gets a run.
LEMMA TimesStay ==
    ASSUME PastInv, TimesInv,
           UNCHANGED <<runs, steps, events, clock, pc, claim, since>>,
           \A w \in Worker : (pc[w] \in Busy /\ OwnsRun(w)') => OwnsRun(w)
    PROVE  PastInv' /\ TimesInv'
  <1>1. (SinceIsPast /\ TimesArePast)'
    BY DEF PastInv, SinceIsPast, TimesArePast, Index
  <1>2. OwnerIsLater' /\ OwnerRowIsDue'
    BY DEF PastInv, TimesInv, OwnerIsLater, OwnerRowIsDue, Index, Busy
  <1>3. StartedAreReady'
    BY DEF TimesInv, StartedAreReady, DependenciesCompleted
  <1>4. RunTimes'
    BY TimesAlone DEF TimesInv, RunTimes, Accepted
  <1>5. QED
    BY <1>1, <1>2, <1>3, <1>4 DEF PastInv, TimesInv

LEMMA TimesStep ==
    ASSUME Assumptions, EngineInv, AbsentIsEmpty, PastInv, CountsInv, TimesInv,
           Next
    PROVE  PastInv' /\ CountsInv' /\ TimesInv'
  BY CountsStep, TimesArePastStep, OwnerIsLaterStep, StartedAreReadyStep,
     OwnerRowIsDueStep, RunTimesStep DEF PastInv, TimesInv

LEMMA TimesImplyFit ==
    ASSUME CountsInv, TimesInv, ReplayInv
    PROVE  TimesFit
  <1> SUFFICES ASSUME NEW r \in Accepted
               PROVE  LET s == Summary(r)
                      IN  /\ \A k \in Having(r, "completed") :
                                s.duration[k] \in 0 .. s.elapsed
                          /\ (runs[r].status = "completed" /\ Chained(r))
                                => s.plannedWait <= s.elapsed
    BY DEF TimesFit
  <1> DEFINE t == Total(r, events[r])
             s == Summary(r)
  <1>1. /\ r \in Run /\ CountsFit(r) /\ SpanFits(r) /\ WaitsFit(r)
        /\ EndIsEarned(r)
    BY DEF CountsInv, TimesInv, RunTimes, Accepted, ReplayInv, Replays
  <1>2. /\ s.elapsed = Latest(r) - Begin(r)
        /\ s.plannedWait = t.plannedWait
        /\ s.duration = [k \in Having(r, "completed") |-> t.took[k]]
    BY <1>1, SummaryIs DEF CountsFit, Latest, Begin
  <1>3. \A k \in Having(r, "completed") : s.duration[k] \in 0 .. s.elapsed
    BY <1>1, <1>2 DEF SpanFits, Having
  <1>4. ASSUME runs[r].status = "completed", Chained(r)
        PROVE  s.plannedWait <= s.elapsed
    <2>1. \A k \in StepsOf(r) : steps[k].status = "completed"
      BY <1>1, <1>4 DEF EndIsEarned
    <2>2. QED
      BY <1>1, <1>2, <1>4, <2>1 DEF WaitsFit
  <1>5. QED
    BY <1>3, <1>4

\* The durations of a run's steps lie within the run's, and a chain that has
\* completed has lasted as long as it planned to wait, however its steps were
\* retried, lost and taken over.
THEOREM TimesAlwaysFit == Spec => []TimesFit
  <1>1. Assumptions
    BY StorageAssumption, ToolAssumption, EngineAssumption DEF Assumptions
  <1>2. Init => CountsInv /\ TimesInv /\ ReplayInv
    BY InitReplays
       DEF Init, StorageInit, CountsInv, TimesInv, StartedAreReady,
           OwnerRowIsDue, RunTimes, Accepted, NewRun, NewStep
  <1>3. HistoryInv => PastInv /\ AbsentIsEmpty
    BY DEF HistoryInv, PastInv
  <1>4. ASSUME EngineInv, HistoryInv, CountsInv, TimesInv, [Next]_vars
        PROVE  CountsInv' /\ TimesInv'
    <2>1. CASE Next
      BY <1>1, <1>3, <1>4, <2>1, TimesStep
    <2>2. CASE UNCHANGED vars
      BY <1>3, <1>4, <2>2, CountsStay, TimesStay DEF vars, OwnsRun, Owns
    <2>3. QED
      BY <1>4, <2>1, <2>2
  <1>5. EngineInv /\ ReplayInv /\ [Next]_vars => ReplayInv'
    BY <1>1, NextReplays
  <1>6. Spec => [](CountsInv /\ TimesInv /\ ReplayInv)
    BY <1>2, <1>4, <1>5, EngineSafety, HistorySafety, PTL DEF Spec
  <1>7. QED
    BY <1>6, TimesImplyFit, PTL

\* Beside the engine's own steps, the others leave its rows, its clock and its
\* workers alone; whoever owns a run after them owned it before.
LEMMA OthersTakeNothing ==
    ASSUME Assumptions, Quiet, OperatorInv,
           [OperatorNext]_operatorVars, ~ Next
    PROVE  /\ UNCHANGED <<runs, steps, events, clock, pc, claim, since>>
           /\ \A w \in Worker : (pc[w] \in Busy /\ OwnsRun(w)') => OwnsRun(w)
  <1>1. EngineInv
    BY DEF OperatorInv
  <1>2. CASE ReplaceRows
    <2>1. UNCHANGED <<runs, steps, events, clock, pc, claim, since>>
      BY <1>2, ReplaceWritesRows DEF ReplaceRows, ReplaceBy, workerVars
    <2>2. PICK r \in Run : leases' = [leases EXCEPT ![r] = NoLease]
      BY <1>2, ReplaceWritesRows
    <2>3. \A w \in Worker : pc[w] \in Busy => RunOf[claim[w].key] \in Run
      BY <1>1, ClaimIsTyped, RunOfType DEF EngineInv, Busy
    <2>4. ASSUME NEW w \in Worker, NEW q \in Run, NEW token,
                 Owns(q, w, token)'
          PROVE  Owns(q, w, token)
      BY <1>1, <2>2, <2>4 DEF Owns, NoLease, Assumptions, StorageAssumption,
                              EngineInv, TypeOK, StorageTypeOK
    <2>5. QED
      BY <2>1, <2>3, <2>4 DEF OwnsRun, Owns
  <1>3. CASE UNCHANGED vars
    BY <1>3 DEF vars, OwnsRun, Owns
  <1>4. ReplaceRows \/ UNCHANGED vars
    BY DEF OperatorNext, Rebuild, ReadHistory, Read, SelectRun, SelectSteps,
           SelectEvents, EndRead, operatorVars
  <1>5. QED
    BY <1>2, <1>3, <1>4

\* So it is of a run that is rebuilt, whose owner loses the lease.
THEOREM TimesFitBesideRebuild ==
    ASSUME Quiet
    PROVE  OperatorSpec => []TimesFit
  <1>1. Assumptions
    BY StorageAssumption, ToolAssumption, EngineAssumption DEF Assumptions
  <1>2. OperatorInit => PastInv /\ CountsInv /\ TimesInv
    <2>1. Init => CountsInv /\ TimesInv
      BY DEF Init, StorageInit, CountsInv, TimesInv, StartedAreReady,
             OwnerRowIsDue, RunTimes, Accepted, NewRun, NewStep
    <2>2. Init => PastInv
      BY <1>1, HistoryInit DEF HistoryInv, PastInv
    <2>3. QED
      BY <2>1, <2>2 DEF OperatorInit
  <1>3. ASSUME OperatorInv, PastInv, CountsInv, TimesInv,
               [OperatorNext]_operatorVars
        PROVE  PastInv' /\ CountsInv' /\ TimesInv'
    <2>1. EngineInv /\ AbsentIsEmpty
      BY <1>3 DEF OperatorInv, ReplayInv, Replays, AbsentIsEmpty
    <2>2. CASE Next
      BY <1>1, <1>3, <2>1, <2>2, TimesStep
    <2>3. CASE ~ Next
      BY <1>1, <1>3, <2>3, OthersTakeNothing, CountsStay, TimesStay
    <2>4. QED
      BY <2>2, <2>3
  <1>4. OperatorInv => ReplayInv
    BY DEF OperatorInv
  <1>5. OperatorSpec => [](PastInv /\ CountsInv /\ TimesInv)
    BY <1>2, <1>3, OperatorSafety, PTL DEF OperatorSpec
  <1>6. QED
    BY <1>4, <1>5, TimesImplyFit, OperatorSafety, PTL
=============================================================================
