------------------------------- MODULE Progress -------------------------------
(***************************************************************************)
(* Does every run end?  The queue and run_once of Storage and Engine again *)
(* (crashsafe/storage.py, crashsafe/engine.py), without the clock, so that *)
(* behaviours may go on for ever: a lease is live or not, a retry deadline *)
(* has come or not, the tool's cooldown is in force or not.  History,      *)
(* tokens and the tool's ledger are left out: Engine shows that a worker   *)
(* whose lease is gone writes nothing.                                     *)
(*                                                                         *)
(* What may disturb a run without counting against the retry budget is     *)
(* bounded: crashes, leases lost in mid-attempt, malformed answers.        *)
(***************************************************************************)
EXTENDS Naturals, FiniteSets

CONSTANTS
    Run,            \* runs, numbered in the order of created_at
    Key,            \* their steps: <<run, position>>
    DependsOn,      \* steps that a step depends on
    Worker,
    Nobody,
    MaxAttempts,    \* CRASHSAFE_MAX_ATTEMPTS
    MaxTroubles,    \* bound: crashes, leases lost by working workers, raises
    Endless         \* raises are not bounded

NoKey == <<0, 0>>

ProgressAssumption ==
    /\ Run \subseteq Nat \ {0} /\ Key \subseteq Run \X Nat
    /\ DependsOn \in [Key -> SUBSET Key]
    /\ \A k \in Key : \A l \in DependsOn[k] : l[1] = k[1] /\ l[2] < k[2]
    /\ Nobody \notin Worker
    /\ MaxAttempts \in Nat \ {0}
    /\ MaxTroubles \in Nat
    /\ Endless \in BOOLEAN

ASSUME ProgressAssumption

VARIABLES
    run,        \* status of each run
    step,       \* status of each step
    attempts,   \* attempts of each step, counted up to MaxAttempts
    due,        \* next_attempt_at is null or has passed
    owner,      \* the owner in the lease row of each run
    live,       \* the lease has not run out
    cooldown,   \* blocked_until of the tool lies ahead
    pc,         \* where run_once is
    claim,      \* the step it has claimed
    troubles    \* how many crashes, losses and raises there have been

queueVars == <<run, step, attempts, due, owner, live, cooldown>>
workerVars == <<pc, claim>>
progressVars == <<queueVars, workerVars, troubles>>

RunOf(k) == k[1]

Init ==
    /\ run = [r \in Run |-> "absent"]
    /\ step = [k \in Key |-> "pending"]
    /\ attempts = [k \in Key |-> 0]
    /\ due = [k \in Key |-> TRUE]
    /\ owner = [r \in Run |-> Nobody]
    /\ live = [r \in Run |-> FALSE]
    /\ cooldown = FALSE
    /\ pc = [w \in Worker |-> "idle"]
    /\ claim = [w \in Worker |-> NoKey]
    /\ troubles = 0

Locations == {"idle", "claimed", "intent", "sent", "settled", "raised"}

ProgressTypeOK ==
    /\ run \in [Run -> {"absent", "running", "completed", "failed"}]
    /\ step \in [Key -> {"pending", "intent_recorded", "retry_wait",
                         "completed", "failed"}]
    /\ attempts \in [Key -> 0 .. MaxAttempts]
    /\ due \in [Key -> BOOLEAN]
    /\ owner \in [Run -> Worker \cup {Nobody}]
    /\ live \in [Run -> BOOLEAN]
    /\ cooldown \in BOOLEAN
    /\ pc \in [Worker -> Locations]
    /\ claim \in [Worker -> Key \cup {NoKey}]
    /\ \A w \in Worker : pc[w] = "idle" <=> claim[w] = NoKey
    /\ troubles \in 0 .. MaxTroubles

-----------------------------------------------------------------------------
(* The queue. *)

\* Runs come in the order of their creation.
Submit(r) ==
    /\ run[r] = "absent"
    /\ \A q \in Run : q < r => run[q] # "absent"
    /\ run' = [run EXCEPT ![r] = "running"]
    /\ UNCHANGED <<step, attempts, due, owner, live, cooldown, workerVars, troubles>>

Before(k, l) == RunOf(k) < RunOf(l) \/ (RunOf(k) = RunOf(l) /\ k[2] < l[2])

Claimable == {"pending", "intent_recorded", "retry_wait"}

Eligible(k) ==
    /\ run[RunOf(k)] = "running"
    /\ step[k] \in Claimable
    /\ due[k]
    /\ ~ cooldown
    /\ ~ live[RunOf(k)]
    /\ \A l \in DependsOn[k] : step[l] = "completed"

\* One more of the things that no retry budget counts.
Trouble == troubles < MaxTroubles /\ troubles' = troubles + 1

Goto(w, place) == pc' = [pc EXCEPT ![w] = place] /\ UNCHANGED claim

Holds(w) == LET r == RunOf(claim[w]) IN owner[r] = w /\ live[r]

-----------------------------------------------------------------------------
(* run_once. *)

\* The oldest eligible step; without one the worker polls again.
ClaimStep(w) ==
    /\ pc[w] = "idle"
    /\ \E k \in Key :
          /\ Eligible(k)
          /\ \A l \in Key : Eligible(l) /\ l # k => Before(k, l)
          /\ claim' = [claim EXCEPT ![w] = k]
          /\ owner' = [owner EXCEPT ![RunOf(k)] = w]
          /\ live' = [live EXCEPT ![RunOf(k)] = TRUE]
    /\ pc' = [pc EXCEPT ![w] = "claimed"]
    /\ UNCHANGED <<run, step, attempts, due, cooldown, troubles>>

Record(w) ==
    /\ pc[w] = "claimed"
    /\ IF Holds(w)
       THEN /\ step' = [step EXCEPT ![claim[w]] = "intent_recorded"]
            /\ attempts' = [attempts EXCEPT ![claim[w]] =
                               IF @ < MaxAttempts THEN @ + 1 ELSE @]
            /\ due' = [due EXCEPT ![claim[w]] = TRUE]
            /\ Goto(w, "intent")
       ELSE /\ Goto(w, "settled")
            /\ UNCHANGED <<step, attempts, due>>
    /\ UNCHANGED <<run, owner, live, cooldown, troubles>>

Send(w) ==
    /\ pc[w] = "intent"
    /\ Goto(w, "sent")
    /\ UNCHANGED <<queueVars, troubles>>

\* complete_step: with the last step the run is completed.
Complete(w) ==
    /\ pc[w] = "sent" /\ Holds(w)
    /\ step' = [step EXCEPT ![claim[w]] = "completed"]
    /\ run' = [run EXCEPT ![RunOf(claim[w])] =
                  IF \A k \in Key : RunOf(k) = RunOf(claim[w]) => step'[k] = "completed"
                  THEN "completed" ELSE @]
    /\ Goto(w, "settled")
    /\ UNCHANGED <<attempts, due, owner, live, cooldown, troubles>>

\* schedule_retry, after a 429 with the tool's cooldown.
Retry(w) ==
    /\ pc[w] = "sent" /\ Holds(w)
    /\ attempts[claim[w]] < MaxAttempts
    /\ step' = [step EXCEPT ![claim[w]] = "retry_wait"]
    /\ due' = [due EXCEPT ![claim[w]] = FALSE]
    /\ cooldown' \in {cooldown, TRUE}
    /\ Goto(w, "settled")
    /\ UNCHANGED <<run, attempts, owner, live, troubles>>

\* fail_step: a permanent error at any attempt, any other at the last one.
Fail(w, permanent) ==
    /\ pc[w] = "sent" /\ Holds(w)
    /\ permanent \/ attempts[claim[w]] = MaxAttempts
    /\ step' = [step EXCEPT ![claim[w]] = "failed"]
    /\ run' = [run EXCEPT ![RunOf(claim[w])] = "failed"]
    /\ Goto(w, "settled")
    /\ UNCHANGED <<attempts, due, owner, live, cooldown, troubles>>

\* LeaseLostError.
Discard(w) ==
    /\ pc[w] = "sent" /\ ~ Holds(w)
    /\ Goto(w, "settled")
    /\ UNCHANGED <<queueVars, troubles>>

\* A 2xx whose body does not validate: the exception leaves run_once and the
\* process, at whatever attempt.
Raise(w) ==
    /\ pc[w] = "sent"
    /\ IF Endless THEN UNCHANGED troubles ELSE Trouble
    /\ Goto(w, "raised")
    /\ UNCHANGED queueVars

\* Plausible bug: the deadline is computed before the budget is tested.
RaiseBeforeBudget(w) ==
    /\ pc[w] = "sent"
    /\ Goto(w, "raised")
    /\ UNCHANGED <<queueVars, troubles>>

\* So does a Retry-After that timedelta cannot hold (inf, nan, 1e300), unless
\* the budget is used up; a worker without its lease may have counted less.
RaiseOnDelay(w) ==
    /\ pc[w] = "sent"
    /\ attempts[claim[w]] < MaxAttempts \/ ~ Holds(w)
    /\ Goto(w, "raised")
    /\ UNCHANGED <<queueVars, troubles>>

\* Plausible bug: the worker polls again with the claim it has released.
ReleaseKeepingClaim(w) ==
    /\ pc[w] \in {"settled", "raised"}
    /\ live' = [live EXCEPT ![RunOf(claim[w])] =
                   IF owner[RunOf(claim[w])] = w THEN FALSE ELSE @]
    /\ Goto(w, "idle")
    /\ UNCHANGED <<run, step, attempts, due, owner, cooldown, troubles>>

\* finally: release_lease expires the lease of this owner.  A heartbeat that
\* outlives stop() may renew it once more.
Release(w) ==
    /\ pc[w] \in {"settled", "raised"}
    /\ \/ live' = [live EXCEPT ![RunOf(claim[w])] =
                      IF owner[RunOf(claim[w])] = w THEN FALSE ELSE @]
       \/ UNCHANGED live
    /\ pc' = [pc EXCEPT ![w] = "idle"]
    /\ claim' = [claim EXCEPT ![w] = NoKey]
    /\ UNCHANGED <<run, step, attempts, due, owner, cooldown, troubles>>

-----------------------------------------------------------------------------
(* The environment. *)

\* The owner of the lease works on the run; its heartbeat renews the lease.
Working(r) == \E w \in Worker : pc[w] # "idle" /\ RunOf(claim[w]) = r /\ owner[r] = w

\* A lease that nobody renews runs out.
Lapse(r) ==
    /\ live[r] /\ ~ Working(r)
    /\ live' = [live EXCEPT ![r] = FALSE]
    /\ UNCHANGED <<run, step, attempts, due, owner, cooldown, workerVars, troubles>>

\* So does one whose owner is paused, or whose heartbeat waits for the lock.
Lose(r) ==
    /\ live[r] /\ Working(r)
    /\ Trouble
    /\ live' = [live EXCEPT ![r] = FALSE]
    /\ UNCHANGED <<run, step, attempts, due, owner, cooldown, workerVars>>

\* next_attempt_at passes.
BecomeDue(k) ==
    /\ ~ due[k]
    /\ due' = [due EXCEPT ![k] = TRUE]
    /\ UNCHANGED <<run, step, attempts, owner, live, cooldown, workerVars, troubles>>

\* blocked_until passes.
EndCooldown ==
    /\ cooldown
    /\ cooldown' = FALSE
    /\ UNCHANGED <<run, step, attempts, due, owner, live, workerVars, troubles>>

RunOnce(w) ==
    \/ ClaimStep(w) \/ Record(w) \/ Send(w)
    \/ Complete(w) \/ Retry(w) \/ Fail(w, TRUE) \/ Fail(w, FALSE)
    \/ Discard(w) \/ Raise(w) \/ RaiseOnDelay(w)
    \/ Release(w)

-----------------------------------------------------------------------------
(* Properties. *)

Ended(r) == run[r] \in {"completed", "failed"}
=============================================================================
