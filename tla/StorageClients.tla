--------------------------- MODULE StorageClients ---------------------------
(***************************************************************************)
(* engine.db on its own, under clients that keep no protocol but the types *)
(* of the calls: a client gets a ClaimedStep from claim_runnable_step and  *)
(* may then call any operation for that step with that owner and token, in *)
(* any order, any number of times, however long ago the claim was.  What   *)
(* holds here holds by the guards inside the transactions alone, not by    *)
(* the order in which the engine happens to call them.                     *)
(***************************************************************************)
EXTENDS Storage

CONSTANT
    ClaimCap        \* bound: claims of one run

VARIABLE
    granted         \* ClaimedSteps handed out so far

clientVars == <<runs, steps, leases, throttles, events, clock, granted>>

ClaimedStep == [owner : Worker, key : Key, token : Nat \ {0}]

ClientTypeOK ==
    /\ StorageTypeOK
    /\ granted \subseteq ClaimedStep

ClientInit == StorageInit /\ granted = {}

Create ==
    /\ \E r \in Run, now \in Recent : CreateWorkflowRun(r, now)
    /\ UNCHANGED <<clock, granted>>

ClaimOne ==
    /\ \E w \in Worker, k \in Key, now \in Recent :
          /\ leases[RunOf[k]].token < ClaimCap
          /\ ClaimRunnableStep(w, k, now)
          /\ granted' = granted \cup
                {[owner |-> w, key |-> k, token |-> leases'[RunOf[k]].token]}
    /\ UNCHANGED clock

\* renew_lease and release_lease.
LeaseCall(g, now) ==
    \/ RenewLease(RunOf[g.key], g.owner, g.token, now)
    \/ ReleaseLease(RunOf[g.key], g.owner, g.token, now)

\* record_attempt, schedule_retry, fail_step and complete_step.
TransitionCall(g, now) ==
    \/ /\ steps[g.key].attempts < AttemptCap
       /\ RecordAttempt(g.key, g.owner, g.token, now)
    \/ \E error \in {"throttled", "error"}, until \in now .. MaxTime :
          ScheduleRetry(g.key, g.owner, g.token, error, until,
                        error = "throttled", now)
    \/ FailStep(g.key, g.owner, g.token, "rejected", now)
    \/ CompleteStep(g.key, g.owner, g.token, steps[g.key].attempts, now)

Call ==
    /\ \E g \in granted, now \in Recent :
          LeaseCall(g, now) \/ TransitionCall(g, now)
    /\ UNCHANGED <<clock, granted>>

ClientTick ==
    /\ clock < MaxTime
    /\ clock' = clock + 1
    /\ UNCHANGED <<tables, granted>>

ClientNext == Create \/ ClaimOne \/ Call \/ ClientTick

ClientSpec == ClientInit /\ [][ClientNext]_clientVars

-----------------------------------------------------------------------------
(* Properties. *)

\* A lease changes hands only with a higher token: whoever holds an older one
\* is fenced off, even an owner with the same name (a restarted worker slot).
TakeoverRaisesToken ==
    [][\A r \in Run :
         /\ leases'[r].token >= leases[r].token
         /\ leases'[r].owner # leases[r].owner
              => leases'[r].token > leases[r].token]_clientVars

\* The last attempt recorded for a run never carries a token above the lease
\* row's, and later attempts never carry a lower one than earlier attempts:
\* history tells in which order the owners worked.
TokensFollowHistory ==
    \A r \in Run :
        LET Started == {i \in DOMAIN events[r] :
                          events[r][i].type = "StepAttemptStarted"}
        IN  /\ \A i \in Started : events[r][i].token <= leases[r].token
            /\ \A i, j \in Started :
                  i < j => events[r][i].token <= events[r][j].token
=============================================================================
