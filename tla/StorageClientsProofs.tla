------------------------- MODULE StorageClientsProofs -------------------------
(***************************************************************************)
(* What the transactions on engine.db guarantee by their own guards, for   *)
(* any number of runs, steps and clients, whatever order the clients call  *)
(* in: types, the order of the fence tokens, the cooldowns, ended runs.    *)
(***************************************************************************)
EXTENDS StorageClients, StorageProofs

\* complete_step refers to the attempt under way, so there has been one.
IntentIsCounted ==
    \A k \in Key : steps[k].status = "intent_recorded" => steps[k].attempts > 0

\* No claim was handed out with a token above the lease row's.
GrantsAreFenced ==
    \A g \in granted : g.token <= leases[RunOf[g.key]].token

\* A run's token is handed out once: for one step, to one owner.
GrantsAreUnique ==
    \A g, h \in granted :
        (RunOf[g.key] = RunOf[h.key] /\ g.token = h.token) => g = h

\* Whoever still holds the lease of an ended run holds it for a settled step.
EndedIsSettled ==
    \A g \in granted :
        (/\ runs[RunOf[g.key]].status \in {"completed", "failed"}
         /\ Owns(RunOf[g.key], g.owner, g.token))
        => steps[g.key].status \notin Runnable

\* The inductive invariant.
ClientInv ==
    /\ ClientTypeOK
    /\ IntentIsCounted
    /\ TokensFollowHistory
    /\ CooldownRemembered
    /\ GrantsAreFenced
    /\ GrantsAreUnique
    /\ EndedIsSettled

-----------------------------------------------------------------------------
(* What a transition may do. *)

\* What the appended events may say.
NewsIsCovered(g, es) ==
    \A j \in DOMAIN es :
        /\ es[j].type = "StepAttemptStarted" => es[j].token = g.token
        /\ (es[j].type = "StepRetryScheduled" /\ es[j].error = "throttled")
              => es[j].until <= throttles'[ToolOf[es[j].key]]

Footprint(g) ==
    LET k == g.key
    IN  /\ Owns(RunOf[k], g.owner, g.token)
        /\ steps[k].status \in Runnable
        /\ \A j \in Key \ {k} : steps'[j] = steps[j]
        /\ steps'[k].status = "intent_recorded" => steps'[k].attempts > 0
        /\ \A r \in Run \ {RunOf[k]} : runs'[r] = runs[r]
        /\ \/ runs'[RunOf[k]] = runs[RunOf[k]]
           \/ steps'[k].status \notin Runnable
        /\ \E es \in Seq(Event) : AppendEvents(RunOf[k], es)
                                  /\ NewsIsCovered(g, es)
        /\ \A t \in ToolName : throttles[t] <= throttles'[t]
        /\ UNCHANGED leases

\* A claim that was handed out is a claim of a step.
LEMMA GrantIsTyped ==
    ASSUME StorageAssumption, ClientTypeOK, NEW g \in granted
    PROVE  /\ g \in ClaimedStep
           /\ g.owner \in Worker /\ g.key \in Key /\ g.token \in Nat \ {0}
           /\ RunOf[g.key] \in Run /\ ToolOf[g.key] \in ToolName
           /\ steps[g.key] \in StepRow /\ steps[g.key].attempts \in Nat
           /\ StorageTypeOK
  <1>1. g \in ClaimedStep /\ StorageTypeOK
    BY DEF ClientTypeOK
  <1>2. g.owner \in Worker /\ g.key \in Key /\ g.token \in Nat \ {0}
    BY <1>1 DEF ClaimedStep
  <1>3. QED
    BY <1>1, <1>2 DEF StorageAssumption, StorageTypeOK, StepRow

LEMMA RecordFootprint ==
    ASSUME StorageAssumption, ClientTypeOK, NEW g \in granted, NEW now \in Nat,
           RecordAttempt(g.key, g.owner, g.token, now), UNCHANGED clock
    PROVE  StorageTypeOK' /\ Footprint(g)
  <1> DEFINE k == g.key
             e == [type |-> "StepAttemptStarted", key |-> k,
                   attempt |-> steps[k].attempts + 1,
                   owner |-> g.owner, token |-> g.token, at |-> now]
  <1>1. /\ StorageTypeOK /\ g.owner \in Worker /\ k \in Key
        /\ g.token \in Nat /\ RunOf[k] \in Run /\ steps[k].attempts \in Nat
    BY GrantIsTyped
  <1>2. StorageTypeOK'
    BY <1>1, RecordType
  <1>3. <<e>> \in Seq(Event)
    <2>1. e \in Event
      BY <1>1 DEF Event
    <2>2. QED
      BY <2>1, SingleEvent
  <1>4. AppendEvents(RunOf[k], <<e>>) /\ NewsIsCovered(g, <<e>>)
    BY DEF RecordAttempt, NewsIsCovered
  <1>5. steps'[k].attempts > 0 /\ \A j \in Key \ {k} : steps'[j] = steps[j]
    BY <1>1 DEF RecordAttempt, IntentRow, StorageTypeOK
  <1>6. \A t \in ToolName : throttles[t] <= throttles'[t]
    BY <1>1 DEF RecordAttempt, StorageTypeOK
  <1>7. QED
    BY <1>2, <1>3, <1>4, <1>5, <1>6
       DEF Footprint, RecordAttempt, RequireLease

LEMMA RetryFootprint ==
    ASSUME StorageAssumption, ClientTypeOK, NEW g \in granted, NEW now \in Nat,
           NEW error \in {"throttled", "error"}, NEW until \in Nat,
           ScheduleRetry(g.key, g.owner, g.token, error, until,
                         error = "throttled", now), UNCHANGED clock
    PROVE  StorageTypeOK' /\ Footprint(g)
  <1> DEFINE k == g.key
             e == [type |-> "StepRetryScheduled", key |-> k,
                   attempt |-> steps[k].attempts,
                   error |-> error, until |-> until, at |-> now]
  <1>1. /\ StorageTypeOK /\ g.owner \in Worker /\ k \in Key
        /\ RunOf[k] \in Run /\ steps[k].attempts \in Nat
        /\ ToolOf[k] \in ToolName
    BY GrantIsTyped
  <1>2. error \in Error /\ (error = "throttled") \in BOOLEAN
    BY DEF Error
  <1>3. StorageTypeOK'
    BY <1>1, <1>2, RetryType
  <1>4. <<e>> \in Seq(Event)
    <2>1. e \in Event
      BY <1>1, <1>2 DEF Event
    <2>2. QED
      BY <2>1, SingleEvent
  <1>5. throttles \in [ToolName -> Nat]
    BY <1>1 DEF StorageTypeOK
  <1>6. \A t \in ToolName : throttles[t] <= throttles'[t]
    BY <1>1, <1>5 DEF ScheduleRetry, Later
  <1>7. error = "throttled" => until <= throttles'[ToolOf[k]]
    BY <1>1, <1>5 DEF ScheduleRetry, Later
  <1>8. AppendEvents(RunOf[k], <<e>>) /\ NewsIsCovered(g, <<e>>)
    BY <1>7 DEF ScheduleRetry, NewsIsCovered
  <1>9. /\ \A j \in Key \ {k} : steps'[j] = steps[j]
        /\ steps'[k].status = "retry_wait"
    BY <1>1 DEF ScheduleRetry, RetryRow, StorageTypeOK
  <1>10. QED
    BY <1>3, <1>4, <1>6, <1>8, <1>9
       DEF Footprint, ScheduleRetry, ActiveAttempt, RequireLease, Runnable

LEMMA FailFootprint ==
    ASSUME StorageAssumption, ClientTypeOK, NEW g \in granted, NEW now \in Nat,
           FailStep(g.key, g.owner, g.token, "rejected", now), UNCHANGED clock
    PROVE  StorageTypeOK' /\ Footprint(g)
  <1> DEFINE k == g.key
             e == [type |-> "StepFailed", key |-> k,
                   attempt |-> steps[k].attempts,
                   error |-> "rejected", at |-> now]
             f == [type |-> "WorkflowRunFailed", key |-> k,
                   error |-> "rejected", at |-> now]
  <1>1. /\ StorageTypeOK /\ g.owner \in Worker /\ k \in Key
        /\ RunOf[k] \in Run /\ steps[k].attempts \in Nat
    BY GrantIsTyped
  <1>2. "rejected" \in Error
    BY DEF Error
  <1>3. StorageTypeOK'
    BY <1>1, <1>2, FailType
  <1>4. <<e, f>> \in Seq(Event)
    <2>1. e \in Event /\ f \in Event
      BY <1>1, <1>2 DEF Event
    <2>2. QED
      BY <2>1, TwoEvents
  <1>5. AppendEvents(RunOf[k], <<e, f>>) /\ NewsIsCovered(g, <<e, f>>)
    BY DEF FailStep, NewsIsCovered
  <1>6. /\ \A j \in Key \ {k} : steps'[j] = steps[j]
        /\ steps'[k].status = "failed"
        /\ \A r \in Run \ {RunOf[k]} : runs'[r] = runs[r]
    BY <1>1 DEF FailStep, FailedRow, StorageTypeOK
  <1>7. \A t \in ToolName : throttles[t] <= throttles'[t]
    BY <1>1 DEF FailStep, StorageTypeOK
  <1>8. QED
    BY <1>3, <1>4, <1>5, <1>6, <1>7
       DEF Footprint, FailStep, ActiveAttempt, RequireLease, Runnable

LEMMA CompleteFootprint ==
    ASSUME StorageAssumption, ClientTypeOK, IntentIsCounted,
           NEW g \in granted, NEW now \in Nat,
           CompleteStep(g.key, g.owner, g.token, steps[g.key].attempts, now),
           UNCHANGED clock
    PROVE  StorageTypeOK' /\ Footprint(g)
  <1> DEFINE k == g.key
             e == [type |-> "StepCompleted", key |-> k,
                   attempt |-> steps[k].attempts,
                   output |-> steps[k].attempts, at |-> now]
             f == [type |-> "WorkflowRunCompleted", at |-> now]
  <1>1. /\ StorageTypeOK /\ g.owner \in Worker /\ k \in Key
        /\ RunOf[k] \in Run /\ steps[k].attempts \in Nat
    BY GrantIsTyped
  <1>2. steps[k].attempts \in Nat \ {0}
    BY <1>1 DEF IntentIsCounted, CompleteStep, ActiveAttempt
  <1>3. StorageTypeOK'
    BY <1>1, <1>2, CompleteType
  <1>4. <<e>> \in Seq(Event) /\ <<e, f>> \in Seq(Event)
    <2>1. e \in Event /\ f \in Event
      BY <1>1, <1>2 DEF Event
    <2>2. QED
      BY <2>1, SingleEvent, TwoEvents
  <1>5. NewsIsCovered(g, <<e>>) /\ NewsIsCovered(g, <<e, f>>)
    BY DEF NewsIsCovered
  <1>6. AppendEvents(RunOf[k], <<e>>) \/ AppendEvents(RunOf[k], <<e, f>>)
    BY DEF CompleteStep
  <1>7. /\ \A j \in Key \ {k} : steps'[j] = steps[j]
        /\ steps'[k].status = "completed"
        /\ \A r \in Run \ {RunOf[k]} : runs'[r] = runs[r]
    BY <1>1 DEF CompleteStep, CompletedRow, StorageTypeOK
  <1>8. \A t \in ToolName : throttles[t] <= throttles'[t]
    BY <1>1 DEF CompleteStep, StorageTypeOK
  <1>9. QED
    BY <1>3, <1>4, <1>5, <1>6, <1>7, <1>8
       DEF Footprint, CompleteStep, ActiveAttempt, RequireLease, Runnable

\* Every transition leaves that footprint.
LEMMA TransitionCallFootprint ==
    ASSUME StorageAssumption, ClientInv, NEW g \in granted, NEW now \in Recent,
           TransitionCall(g, now), UNCHANGED clock
    PROVE  StorageTypeOK' /\ Footprint(g)
  <1>1. now \in Nat /\ ClientTypeOK /\ IntentIsCounted
    BY RecentIsNat DEF ClientInv, ClientTypeOK
  <1>2. MaxTime \in Nat
    BY DEF StorageAssumption
  <1>3. \A until \in now .. MaxTime : until \in Nat
    BY <1>1, <1>2
  <1>4. QED
    BY <1>1, <1>3, RecordFootprint, RetryFootprint, FailFootprint,
       CompleteFootprint DEF TransitionCall
-----------------------------------------------------------------------------
(* Appended histories. *)

\* News under the lease row's token keeps the tokens in order.
LEMMA TokensAfterAppend ==
    ASSUME StorageTypeOK, StorageTypeOK', TokensFollowHistory,
           NEW r \in Run, NEW es \in Seq(Event), AppendEvents(r, es),
           \A j \in DOMAIN es : es[j].type = "StepAttemptStarted"
                                 => es[j].token = leases[r].token,
           UNCHANGED leases
    PROVE  TokensFollowHistory'
  <1>1. events \in [Run -> Seq(Event)]
    BY DEF StorageTypeOK
  <1> DEFINE Started(q) == {i \in DOMAIN events[q] :
                              events[q][i].type = "StepAttemptStarted"}
  <1>2. ASSUME NEW q \in Run, NEW i \in Started(q)'
        PROVE  /\ events'[q][i].token <= leases[q].token
               /\ \/ i \in Started(q) /\ events'[q][i] = events[q][i]
                  \/ /\ q = r /\ i > Len(events[r])
                     /\ events'[q][i].token = leases[q].token
    <2>1. CASE i \in DOMAIN events[q] /\ events'[q][i] = events[q][i]
      BY <1>2, <2>1 DEF TokensFollowHistory
    <2>2. CASE /\ q = r /\ i > Len(events[r])
               /\ \E j \in DOMAIN es : events'[q][i] = es[j]
      <3>1. leases[q].token \in Nat
        BY DEF StorageTypeOK, LeaseRow
      <3>2. QED
        BY <1>2, <2>2, <3>1
    <2>3. QED
      BY <1>1, <1>2, <2>1, <2>2, AppendedIsOldOrNew
  <1>3. ASSUME NEW q \in Run, NEW i \in Started(q)', NEW j \in Started(q)',
               i < j
        PROVE  events'[q][i].token <= events'[q][j].token
    <2>1. CASE j \in Started(q) /\ events'[q][j] = events[q][j]
      <3>1. j \in 1 .. Len(events[q]) /\ Len(events[q]) \in Nat /\ i \in Nat
        BY <1>1, <2>1 DEF StorageTypeOK
      <3>2. i <= Len(events[q])
        BY <1>3, <3>1
      <3>3. i \in Started(q) /\ events'[q][i] = events[q][i]
        BY <1>2, <1>3, <3>1, <3>2
      <3>4. QED
        BY <1>3, <2>1, <3>3 DEF TokensFollowHistory
    <2>2. CASE events'[q][j].token = leases[q].token
      BY <1>2, <2>2
    <2>3. QED
      BY <1>2, <2>1, <2>2
  <1>4. leases' = leases
    OBVIOUS
  <1>5. QED
    BY <1>2, <1>3, <1>4 DEF TokensFollowHistory

\* Cooldowns that only grow, and cover the news, cover all of history.
LEMMA CooldownAfterAppend ==
    ASSUME StorageAssumption, StorageTypeOK, StorageTypeOK',
           CooldownRemembered,
           NEW r \in Run, NEW es \in Seq(Event), AppendEvents(r, es),
           \A j \in DOMAIN es :
              (es[j].type = "StepRetryScheduled" /\ es[j].error = "throttled")
                 => es[j].until <= throttles'[ToolOf[es[j].key]],
           \A t \in ToolName : throttles[t] <= throttles'[t]
    PROVE  CooldownRemembered'
  <1> SUFFICES ASSUME NEW q \in Run, NEW i \in DOMAIN events'[q],
                      events'[q][i].type = "StepRetryScheduled",
                      events'[q][i].error = "throttled"
               PROVE  events'[q][i].until <= throttles'[ToolOf[events'[q][i].key]]
    BY DEF CooldownRemembered
  <1>1. events \in [Run -> Seq(Event)]
    BY DEF StorageTypeOK
  <1>2. CASE i \in DOMAIN events[q] /\ events'[q][i] = events[q][i]
    <2> DEFINE e == events[q][i]
    <2>1. e \in Event /\ e.type = "StepRetryScheduled"
      BY <1>1, <1>2
    <2>2. e.key \in Key /\ e.until \in Nat
      BY <2>1 DEF Event
    <2>3. ToolOf[e.key] \in ToolName
      BY <2>2 DEF StorageAssumption
    <2>4. /\ throttles[ToolOf[e.key]] \in Nat /\ throttles'[ToolOf[e.key]] \in Nat
          /\ throttles[ToolOf[e.key]] <= throttles'[ToolOf[e.key]]
      BY <2>3 DEF StorageTypeOK
    <2>5. e.until <= throttles[ToolOf[e.key]]
      BY <1>2 DEF CooldownRemembered
    <2>6. QED
      BY <1>2, <2>2, <2>4, <2>5
  <1>3. CASE \E j \in DOMAIN es : events'[q][i] = es[j]
    BY <1>3
  <1>4. QED
    BY <1>1, <1>2, <1>3, AppendedIsOldOrNew
-----------------------------------------------------------------------------
(* The invariant. *)

\* Creating a run starts a history with no attempt in it.
LEMMA CreateInv ==
    ASSUME StorageAssumption, ClientInv, Create
    PROVE  ClientInv'
  <1>1. PICK r \in Run, now \in Recent : CreateWorkflowRun(r, now)
    BY DEF Create
  <1> DEFINE e == [type |-> "WorkflowRunCreated", at |-> now]
  <1>2. /\ ClientTypeOK /\ StorageTypeOK /\ now \in Nat
        /\ UNCHANGED <<clock, granted, leases, throttles>>
    BY RecentIsNat DEF ClientInv, ClientTypeOK, Create, CreateWorkflowRun
  <1>3. StorageTypeOK'
    BY <1>1, <1>2, CreateType
  <1>4. <<e>> \in Seq(Event) /\ AppendEvents(r, <<e>>)
    <2>1. e \in Event
      BY <1>2 DEF Event
    <2>2. QED
      BY <1>1, <2>1, SingleEvent DEF CreateWorkflowRun
  <1>5. IntentIsCounted'
    BY <1>1, <1>2 DEF ClientInv, IntentIsCounted, CreateWorkflowRun, NewStep,
                      StorageTypeOK
  <1>6. TokensFollowHistory'
    <2>1. \A j \in DOMAIN <<e>> : <<e>>[j].type # "StepAttemptStarted"
      OBVIOUS
    <2>2. QED
      BY <1>2, <1>3, <1>4, <2>1, TokensAfterAppend DEF ClientInv
  <1>7. CooldownRemembered'
    <2>1. \A j \in DOMAIN <<e>> : <<e>>[j].type # "StepRetryScheduled"
      OBVIOUS
    <2>2. \A t \in ToolName : throttles[t] <= throttles'[t]
      BY <1>2 DEF StorageTypeOK
    <2>3. QED
      BY <1>2, <1>3, <1>4, <2>1, <2>2, CooldownAfterAppend DEF ClientInv
  <1>8. GrantsAreFenced' /\ GrantsAreUnique'
    BY <1>2 DEF ClientInv, GrantsAreFenced, GrantsAreUnique
  <1>9. EndedIsSettled'
    <2> SUFFICES ASSUME NEW g \in granted,
                        runs'[RunOf[g.key]].status \in {"completed", "failed"},
                        Owns(RunOf[g.key], g.owner, g.token)'
                 PROVE  steps'[g.key].status \notin Runnable
      BY <1>2 DEF EndedIsSettled
    <2>1. g.key \in Key /\ RunOf[g.key] \in Run
      BY <1>2, GrantIsTyped
    <2>2. RunOf[g.key] # r
      BY <1>1, <1>2, <2>1 DEF CreateWorkflowRun, StorageTypeOK
    <2>3. /\ runs'[RunOf[g.key]] = runs[RunOf[g.key]]
          /\ steps'[g.key] = steps[g.key]
      BY <1>1, <1>2, <2>1, <2>2 DEF CreateWorkflowRun, StorageTypeOK
    <2>4. QED
      BY <1>2, <2>3 DEF ClientInv, EndedIsSettled, Owns
  <1>10. QED
    BY <1>2, <1>3, <1>5, <1>6, <1>7, <1>8, <1>9 DEF ClientInv, ClientTypeOK

\* A claim hands out a token above every one handed out for the run before.
LEMMA ClaimOneInv ==
    ASSUME StorageAssumption, ClientInv, ClaimOne
    PROVE  ClientInv'
  <1>1. PICK w \in Worker, k \in Key, now \in Recent :
            /\ ClaimRunnableStep(w, k, now)
            /\ granted' = granted \cup
                  {[owner |-> w, key |-> k, token |-> leases'[RunOf[k]].token]}
    BY DEF ClaimOne
  <1> DEFINE c == [owner |-> w, key |-> k, token |-> leases[RunOf[k]].token + 1]
  <1>2. /\ ClientTypeOK /\ StorageTypeOK /\ now \in Nat
        /\ UNCHANGED <<clock, runs, steps, throttles, events>>
    BY <1>1, RecentIsNat DEF ClientInv, ClientTypeOK, ClaimOne,
                             ClaimRunnableStep
  <1>3. StorageTypeOK'
    BY <1>1, <1>2, ClaimType
  <1>4. /\ RunOf[k] \in Run /\ leases[RunOf[k]].token \in Nat
        /\ leases'[RunOf[k]].token = leases[RunOf[k]].token + 1
        /\ \A r \in Run \ {RunOf[k]} : leases'[r] = leases[r]
    BY <1>1, <1>2 DEF ClaimRunnableStep, StorageTypeOK, LeaseRow,
                      StorageAssumption
  <1>5. granted' = granted \cup {c}
    BY <1>1, <1>4
  <1>6. ClientTypeOK'
    BY <1>2, <1>3, <1>4, <1>5 DEF ClientTypeOK, ClaimedStep
  <1>7. IntentIsCounted' /\ CooldownRemembered'
    BY <1>2 DEF ClientInv, IntentIsCounted, CooldownRemembered
  <1>8. \A r \in Run : /\ leases[r].token \in Nat /\ leases'[r].token \in Nat
                       /\ leases[r].token <= leases'[r].token
    <2>1. \A r \in Run : leases[r].token \in Nat /\ leases'[r].token \in Nat
      BY <1>2, <1>3 DEF StorageTypeOK, LeaseRow
    <2>2. QED
      BY <1>4, <2>1
  <1>9. TokensFollowHistory'
    <2> SUFFICES ASSUME NEW r \in Run, NEW i \in DOMAIN events[r],
                        events[r][i].type = "StepAttemptStarted"
                 PROVE  events[r][i].token <= leases'[r].token
      BY <1>2 DEF ClientInv, TokensFollowHistory
    <2>1. events[r][i].token <= leases[r].token
      BY DEF ClientInv, TokensFollowHistory
    <2>2. QED
      BY <1>2, <1>8, <2>1, StartedToken
  <1>10. \A g \in granted :
            /\ g.token \in Nat /\ RunOf[g.key] \in Run
            /\ g.token <= leases[RunOf[g.key]].token
    BY <1>2, GrantIsTyped DEF ClientInv, GrantsAreFenced
  <1>11. GrantsAreFenced'
    BY <1>4, <1>5, <1>8, <1>10 DEF GrantsAreFenced
  <1>12. \A g \in granted : RunOf[g.key] = RunOf[k] => g.token # c.token
    BY <1>4, <1>10
  <1>13. GrantsAreUnique'
    BY <1>5, <1>12 DEF ClientInv, GrantsAreUnique
  <1>14. EndedIsSettled'
    <2> SUFFICES ASSUME NEW g \in granted',
                        runs[RunOf[g.key]].status \in {"completed", "failed"},
                        Owns(RunOf[g.key], g.owner, g.token)'
                 PROVE  steps[g.key].status \notin Runnable
      BY <1>2 DEF EndedIsSettled
    <2>1. runs[RunOf[k]].status = "running"
      BY <1>1 DEF ClaimRunnableStep, SelectRunnable, Eligible
    <2>2. RunOf[g.key] # RunOf[k] /\ g \in granted
      BY <1>5, <2>1
    <2>3. Owns(RunOf[g.key], g.owner, g.token)
      BY <1>4, <1>10, <2>2 DEF Owns
    <2>4. QED
      BY <2>2, <2>3 DEF ClientInv, EndedIsSettled
  <1>15. QED
    BY <1>6, <1>7, <1>9, <1>11, <1>13, <1>14 DEF ClientInv

\* A transition under a live lease is the last thing that run's history tells.
LEMMA FootprintInv ==
    ASSUME StorageAssumption, ClientInv, NEW g \in granted,
           StorageTypeOK', Footprint(g), UNCHANGED <<clock, granted>>
    PROVE  ClientInv'
  <1> DEFINE k == g.key
  <1>1. /\ ClientTypeOK /\ StorageTypeOK /\ k \in Key /\ RunOf[k] \in Run
    BY GrantIsTyped DEF ClientInv
  <1>2. /\ Owns(RunOf[k], g.owner, g.token) /\ UNCHANGED leases
        /\ \A t \in ToolName : throttles[t] <= throttles'[t]
    BY DEF Footprint
  <1>3. PICK es \in Seq(Event) : /\ AppendEvents(RunOf[k], es)
                                 /\ NewsIsCovered(g, es)
    BY DEF Footprint
  <1>4. ClientTypeOK'
    BY <1>1 DEF ClientTypeOK
  <1>5. IntentIsCounted'
    BY DEF Footprint, ClientInv, IntentIsCounted
  <1>6. TokensFollowHistory'
    <2>1. \A j \in DOMAIN es : es[j].type = "StepAttemptStarted"
                               => es[j].token = leases[RunOf[k]].token
      BY <1>2, <1>3 DEF NewsIsCovered, Owns
    <2>2. QED
      BY <1>1, <1>2, <1>3, <2>1, TokensAfterAppend DEF ClientInv
  <1>7. CooldownRemembered'
    BY <1>1, <1>2, <1>3, CooldownAfterAppend DEF ClientInv, NewsIsCovered
  <1>8. GrantsAreFenced' /\ GrantsAreUnique'
    BY <1>2 DEF ClientInv, GrantsAreFenced, GrantsAreUnique
  <1>9. EndedIsSettled'
    <2> SUFFICES ASSUME NEW h \in granted,
                        runs'[RunOf[h.key]].status \in {"completed", "failed"},
                        Owns(RunOf[h.key], h.owner, h.token)
                 PROVE  steps'[h.key].status \notin Runnable
      BY <1>2 DEF EndedIsSettled, Owns
    <2>1. h.key \in Key /\ RunOf[h.key] \in Run
      BY <1>1, GrantIsTyped
    <2>2. CASE h.key = k
      <3>1. runs'[RunOf[k]] = runs[RunOf[k]] => steps[k].status \notin Runnable
        BY <1>2, <2>2 DEF ClientInv, EndedIsSettled
      <3>2. QED
        BY <2>2, <3>1 DEF Footprint
    <2>3. CASE h.key # k /\ RunOf[h.key] = RunOf[k]
      BY <1>2, <2>3 DEF ClientInv, GrantsAreUnique, Owns
    <2>4. CASE RunOf[h.key] # RunOf[k]
      <3>1. /\ steps'[h.key] = steps[h.key]
            /\ runs'[RunOf[h.key]] = runs[RunOf[h.key]]
        BY <2>1, <2>4 DEF Footprint
      <3>2. QED
        BY <3>1 DEF ClientInv, EndedIsSettled
    <2>5. QED
      BY <2>2, <2>3, <2>4
  <1>10. QED
    BY <1>4, <1>5, <1>6, <1>7, <1>8, <1>9 DEF ClientInv
\* A renewal or a release changes an expiry, never an owner or a token.
LEMMA LeaseCallKeepsTokens ==
    ASSUME StorageAssumption, ClientTypeOK, NEW g \in granted,
           NEW now \in Recent, LeaseCall(g, now), UNCHANGED clock
    PROVE  /\ StorageTypeOK'
           /\ UNCHANGED <<runs, steps, throttles, events>>
           /\ \A r \in Run : /\ leases'[r].owner = leases[r].owner
                             /\ leases'[r].token = leases[r].token
  <1>1. now \in Nat /\ StorageTypeOK /\ RunOf[g.key] \in Run
    BY RecentIsNat, GrantIsTyped DEF ClientTypeOK
  <1>2. StorageTypeOK'
    BY <1>1, RenewType, ReleaseType DEF LeaseCall
  <1>3. UNCHANGED <<runs, steps, throttles, events>>
    BY DEF LeaseCall, RenewLease, ReleaseLease
  <1>4. \A r \in Run : /\ leases'[r].owner = leases[r].owner
                      /\ leases'[r].token = leases[r].token
    <2>1. \E t : leases' \in {leases, [leases EXCEPT ![RunOf[g.key]].expires = t]}
      BY DEF LeaseCall, RenewLease, ReleaseLease
    <2>2. PICK t : leases' \in {leases,
                              [leases EXCEPT ![RunOf[g.key]].expires = t]}
      BY <2>1
    <2>3. leases \in [Run -> LeaseRow]
      BY <1>1 DEF StorageTypeOK
    <2>4. QED
      BY <1>1, <2>2, <2>3 DEF LeaseRow
  <1>5. QED
    BY <1>2, <1>3, <1>4

LEMMA LeaseCallInv ==
    ASSUME StorageAssumption, ClientInv, NEW g \in granted,
           NEW now \in Recent, LeaseCall(g, now), UNCHANGED <<clock, granted>>
    PROVE  ClientInv'
  <1>1. /\ ClientTypeOK /\ StorageTypeOK' /\ granted' = granted
        /\ UNCHANGED <<runs, steps, throttles, events>>
        /\ \A r \in Run : /\ leases'[r].owner = leases[r].owner
                          /\ leases'[r].token = leases[r].token
    BY LeaseCallKeepsTokens DEF ClientInv
  <1>2. \A h \in granted : RunOf[h.key] \in Run
    BY <1>1, GrantIsTyped
  <1>3. ClientTypeOK' /\ IntentIsCounted' /\ CooldownRemembered'
    BY <1>1 DEF ClientInv, ClientTypeOK, IntentIsCounted, CooldownRemembered
  <1>4. TokensFollowHistory'
    BY <1>1 DEF ClientInv, TokensFollowHistory
  <1>5. GrantsAreFenced' /\ GrantsAreUnique'
    BY <1>1, <1>2 DEF ClientInv, GrantsAreFenced, GrantsAreUnique
  <1>6. EndedIsSettled'
    BY <1>1, <1>2 DEF ClientInv, EndedIsSettled, Owns
  <1>7. QED
    BY <1>3, <1>4, <1>5, <1>6 DEF ClientInv

\* Time is in no part of the invariant but its type.
LEMMA QuietInv ==
    ASSUME StorageAssumption, ClientInv, UNCHANGED <<tables, granted>>,
           clock' \in Nat
    PROVE  ClientInv'
  BY DEF ClientInv, ClientTypeOK, StorageTypeOK, IntentIsCounted,
         TokensFollowHistory, CooldownRemembered, GrantsAreFenced,
         GrantsAreUnique, EndedIsSettled, Owns, tables

\* A call is a lease call or a transition by the holder of a claim.
LEMMA CallKinds ==
    ASSUME StorageAssumption, ClientInv, Call
    PROVE  \E g \in granted :
              \/ \E now \in Recent : LeaseCall(g, now)
              \/ StorageTypeOK' /\ Footprint(g)
  <1>1. PICK g \in granted, now \in Recent :
            LeaseCall(g, now) \/ TransitionCall(g, now)
    BY DEF Call
  <1>2. UNCHANGED clock
    BY DEF Call
  <1>3. QED
    BY <1>1, <1>2, TransitionCallFootprint

\* Every step keeps the invariant.
LEMMA ClientNextInv ==
    ASSUME StorageAssumption, ClientInv, [ClientNext]_clientVars
    PROVE  ClientInv'
  <1>1. CASE Create
    BY <1>1, CreateInv
  <1>2. CASE ClaimOne
    BY <1>2, ClaimOneInv
  <1>3. CASE Call
    BY <1>3, CallKinds, LeaseCallInv, FootprintInv DEF Call
  <1>4. CASE ClientTick
    BY <1>4, QuietInv DEF ClientTick, ClientInv, ClientTypeOK, StorageTypeOK
  <1>5. CASE UNCHANGED clientVars
    BY <1>5, QuietInv DEF clientVars, tables, ClientInv, ClientTypeOK,
                          StorageTypeOK
  <1>6. QED
    BY <1>1, <1>2, <1>3, <1>4, <1>5 DEF ClientNext

LEMMA ClientInitInv ==
    ASSUME StorageAssumption, ClientInit
    PROVE  ClientInv
  <1>1. StorageTypeOK /\ granted = {} /\ \A r \in Run : events[r] = <<>>
    BY DEF ClientInit, StorageInit, StorageTypeOK, NewRun, NewStep, NoLease,
           RunRow, StepRow, LeaseRow, RunStatus, StepStatus, Runnable
  <1>2. TokensFollowHistory /\ CooldownRemembered
    BY <1>1 DEF TokensFollowHistory, CooldownRemembered
  <1>3. IntentIsCounted
    BY DEF ClientInit, StorageInit, NewStep, IntentIsCounted
  <1>4. QED
    BY <1>1, <1>2, <1>3 DEF ClientInv, ClientTypeOK, GrantsAreFenced,
                            GrantsAreUnique, EndedIsSettled

-----------------------------------------------------------------------------
(* The rows and the history. *)

\* Claims are handed out for runs that exist.
GrantsExist == \A g \in granted : runs[RunOf[g.key]].status # "absent"

\* A transition under a claim finds its run running: the claim was made when
\* it was, and whoever still holds the lease of an ended run has nothing left
\* to record.
LEMMA CallerIsRunning ==
    ASSUME StorageAssumption, ClientInv, GrantsExist, NEW g \in granted,
           RequireLease(g.key, g.owner, g.token),
           steps[g.key].status \in Runnable
    PROVE  runs[RunOf[g.key]].status = "running"
  <1>1. RunOf[g.key] \in Run /\ StorageTypeOK
    BY GrantIsTyped DEF ClientInv
  <1>2. runs[RunOf[g.key]].status \in RunStatus
    BY <1>1 DEF StorageTypeOK, RunRow
  <1>3. runs[RunOf[g.key]].status \notin {"completed", "failed"}
    BY DEF ClientInv, EndedIsSettled, RequireLease
  <1>4. QED
    BY <1>2, <1>3 DEF GrantsExist, RunStatus

LEMMA TransitionCallReplays ==
    ASSUME StorageAssumption, ClientInv, GrantsExist, ReplayInv,
           NEW g \in granted, NEW now \in Recent, TransitionCall(g, now),
           UNCHANGED clock
    PROVE  /\ ReplayInv'
           /\ \A r \in Run : runs[r].status # "absent" => runs'[r].status # "absent"
  <1> DEFINE k == g.key
             Kept == \A r \in Run : runs[r].status # "absent"
                                     => runs'[r].status # "absent"
  <1>1. /\ StorageTypeOK /\ g.owner \in Worker /\ k \in Key
        /\ g.token \in Nat /\ RunOf[k] \in Run /\ steps[k].attempts \in Nat
        /\ now \in Nat /\ runs \in [Run -> RunRow]
    BY GrantIsTyped, RecentIsNat DEF ClientInv, StorageTypeOK
  <1>2. CASE RecordAttempt(k, g.owner, g.token, now)
    <2>1. runs[RunOf[k]].status = "running" /\ UNCHANGED runs
      BY <1>2, CallerIsRunning DEF RecordAttempt
    <2>2. QED
      BY <1>1, <1>2, <2>1, RecordReplays
  <1>3. ASSUME NEW error \in {"throttled", "error"}, NEW until \in now .. MaxTime,
               ScheduleRetry(k, g.owner, g.token, error, until,
                             error = "throttled", now)
        PROVE  ReplayInv' /\ Kept
    <2>1. runs[RunOf[k]].status = "running" /\ UNCHANGED runs
      BY <1>3, CallerIsRunning DEF ScheduleRetry, ActiveAttempt, Runnable
    <2>2. error \in Error /\ until \in Nat
      BY <1>1 DEF Error, StorageAssumption
    <2>3. ReplayInv'
      BY <1>1, <1>3, <2>1, <2>2, RetryReplays
    <2>4. QED
      BY <2>1, <2>3
  <1>4. CASE FailStep(k, g.owner, g.token, "rejected", now)
    <2>1. /\ runs[RunOf[k]].status = "running"
          /\ runs' = [runs EXCEPT ![RunOf[k]].status = "failed"]
      BY <1>4, CallerIsRunning DEF FailStep, ActiveAttempt, Runnable
    <2>2. "rejected" \in Error
      BY DEF Error
    <2>3. ReplayInv'
      BY <1>1, <1>4, <2>1, <2>2, FailReplays
    <2>4. QED
      BY <1>1, <2>1, <2>3 DEF RunRow
  <1>5. CASE CompleteStep(k, g.owner, g.token, steps[k].attempts, now)
    <2>1. /\ runs[RunOf[k]].status = "running"
          /\ \/ runs' = [runs EXCEPT ![RunOf[k]].status = "completed"]
             \/ UNCHANGED runs
      BY <1>5, CallerIsRunning DEF CompleteStep, ActiveAttempt, Runnable
    <2>2. steps[k].attempts \in Nat \ {0}
      BY <1>1, <1>5 DEF CompleteStep, ActiveAttempt, ClientInv, IntentIsCounted
    <2>3. ReplayInv'
      BY <1>1, <1>5, <2>1, <2>2, CompleteReplays
    <2>4. QED
      BY <1>1, <2>1, <2>3 DEF RunRow
  <1>6. QED
    BY <1>2, <1>3, <1>4, <1>5 DEF TransitionCall

LEMMA ClientReplays ==
    ASSUME StorageAssumption, ClientInv, GrantsExist, ReplayInv,
           [ClientNext]_clientVars
    PROVE  GrantsExist' /\ ReplayInv'
  <1>1. StorageTypeOK /\ \A g \in granted : RunOf[g.key] \in Run
    BY GrantIsTyped DEF ClientInv, ClientTypeOK
  <1>2. CASE Create
    <2>1. PICK r \in Run, now \in Recent : CreateWorkflowRun(r, now)
      BY <1>2 DEF Create
    <2>2. ReplayInv'
      BY <1>1, <2>1, RecentIsNat, CreateReplays
    <2>3. GrantsExist'
      BY <1>1, <1>2, <2>1
         DEF Create, CreateWorkflowRun, GrantsExist, StorageTypeOK
    <2>4. QED
      BY <2>2, <2>3
  <1>3. CASE ClaimOne
    <2>1. PICK w \in Worker, k \in Key, now \in Recent :
              /\ ClaimRunnableStep(w, k, now)
              /\ granted' = granted \cup
                   {[owner |-> w, key |-> k, token |-> leases'[RunOf[k]].token]}
      BY <1>3 DEF ClaimOne
    <2>2. UNCHANGED <<runs, steps, events>> /\ runs[RunOf[k]].status = "running"
      BY <2>1 DEF ClaimRunnableStep, SelectRunnable, Eligible
    <2>3. QED
      BY <2>1, <2>2, ReplayStays DEF GrantsExist
  <1>4. ASSUME NEW g \in granted, NEW now \in Recent, LeaseCall(g, now),
               UNCHANGED <<clock, granted>>
        PROVE  GrantsExist' /\ ReplayInv'
    BY <1>4, LeaseCallKeepsTokens, ReplayStays DEF ClientInv, GrantsExist
  <1>5. ASSUME NEW g \in granted, NEW now \in Recent, TransitionCall(g, now),
               UNCHANGED <<clock, granted>>
        PROVE  GrantsExist' /\ ReplayInv'
    BY <1>1, <1>5, TransitionCallReplays DEF GrantsExist
  <1>6. CASE ClientTick \/ UNCHANGED clientVars
    BY <1>6, ReplayStays DEF ClientTick, tables, clientVars, GrantsExist
  <1>7. QED
    BY <1>2, <1>3, <1>4, <1>5, <1>6 DEF ClientNext, Call

-----------------------------------------------------------------------------
(* Theorems. *)

\* The invariant holds whatever the clients do.
THEOREM ClientSafety == ClientSpec => []ClientInv
  <1>1. StorageAssumption
    BY StorageAssumption
  <1>2. QED
    BY <1>1, ClientInitInv, ClientNextInv, PTL DEF ClientSpec

\* Every row and event any sequence of calls writes is well typed.
THEOREM ClientTypeCorrect == ClientSpec => []ClientTypeOK
  <1>1. ClientInv => ClientTypeOK
    BY DEF ClientInv
  <1>2. QED
    BY <1>1, ClientSafety, PTL

\* History never shows an attempt under a lower token than one before it, nor
\* one above the lease row's: record_attempt's fence orders the owners.
THEOREM TokensAlwaysFollowHistory == ClientSpec => []TokensFollowHistory
  <1>1. ClientInv => TokensFollowHistory
    BY DEF ClientInv
  <1>2. QED
    BY <1>1, ClientSafety, PTL

\* No 429 deadline in any history exceeds its tool's shared cooldown: the MAX
\* in schedule_retry keeps the longest of all runs.
THEOREM CooldownAlwaysRemembered == ClientSpec => []CooldownRemembered
  <1>1. ClientInv => CooldownRemembered
    BY DEF ClientInv
  <1>2. QED
    BY <1>1, ClientSafety, PTL

\* Only claim_runnable_step moves a lease to another owner, and it adds one.
THEOREM TakeoverAlwaysRaisesToken == ClientSpec => TakeoverRaisesToken
  <1> DEFINE Fenced(r) == /\ leases'[r].token >= leases[r].token
                          /\ leases'[r].owner # leases[r].owner
                               => leases'[r].token > leases[r].token
  <1>1. ASSUME StorageAssumption, ClientInv, [ClientNext]_clientVars,
               NEW r \in Run
        PROVE  Fenced(r)
    <2>1. leases[r] \in LeaseRow /\ leases[r].token \in Nat
      BY <1>1 DEF ClientInv, ClientTypeOK, StorageTypeOK, LeaseRow
    <2>2. CASE leases' = leases
      BY <2>1, <2>2
    <2>3. CASE ClaimOne
      <3>1. PICK w \in Worker, k \in Key, now \in Recent :
                ClaimRunnableStep(w, k, now)
        BY <2>3 DEF ClaimOne
      <3>2. leases'[r] = leases[r] \/ leases'[r].token = leases[r].token + 1
        BY <1>1, <3>1 DEF ClaimRunnableStep, ClientInv, ClientTypeOK,
                          StorageTypeOK
      <3>3. QED
        BY <2>1, <3>2
    <2>4. ASSUME NEW g \in granted, NEW now \in Recent, LeaseCall(g, now),
                 UNCHANGED clock
          PROVE  Fenced(r)
      BY <1>1, <2>1, <2>4, LeaseCallKeepsTokens DEF ClientInv
    <2>5. CASE Call
      BY <1>1, <2>2, <2>4, <2>5, CallKinds DEF Call, Footprint
    <2>6. QED
      BY <1>1, <2>2, <2>3, <2>5
         DEF ClientNext, Create, CreateWorkflowRun, ClientTick, tables,
             clientVars
  <1>2. StorageAssumption
    BY StorageAssumption
  <1>3. (ClientInv /\ [ClientNext]_clientVars)
            => [\A r \in Run : Fenced(r)]_clientVars
    BY <1>1, <1>2
  <1>4. QED
    BY <1>3, ClientSafety, PTL DEF ClientSpec, TakeoverRaisesToken

\* A run that has completed or failed is never written to again, even by a
\* client whose claim is older than the end: the claim, record_attempt and the
\* three settling calls each re-check status and lease in their transaction.
THEOREM EndedRunsStayEnded == ClientSpec => TerminalIsFinal
  <1> DEFINE Kept(r) == /\ runs'[r] = runs[r]
                        /\ events'[r] = events[r]
                        /\ \A k \in StepsOf(r) : steps'[k] = steps[k]
             Final == \A r \in Run :
                         runs[r].status \in {"completed", "failed"} => Kept(r)
  <1>1. ASSUME StorageAssumption, ClientInv, [ClientNext]_clientVars,
               NEW r \in Run, runs[r].status \in {"completed", "failed"}
        PROVE  Kept(r)
    <2>1. StorageTypeOK
      BY <1>1 DEF ClientInv, ClientTypeOK
    <2>2. CASE UNCHANGED <<runs, steps, events>>
      BY <2>2 DEF StepsOf
    <2>3. CASE Create
      <3>1. PICK q \in Run, now \in Recent : CreateWorkflowRun(q, now)
        BY <2>3 DEF Create
      <3>2. q # r
        BY <1>1, <3>1 DEF CreateWorkflowRun
      <3>3. QED
        BY <2>1, <3>1, <3>2
           DEF CreateWorkflowRun, AppendEvents, StepsOf, StorageTypeOK
    <2>4. ASSUME NEW g \in granted, Footprint(g)
          PROVE  Kept(r)
      <3>1. g.key \in Key /\ RunOf[g.key] \in Run
        BY <1>1, GrantIsTyped DEF ClientInv
      <3>2. RunOf[g.key] # r
        BY <1>1, <2>4 DEF Footprint, ClientInv, EndedIsSettled
      <3>3. events'[r] = events[r]
        BY <2>1, <2>4, <3>1, <3>2 DEF Footprint, AppendEvents, StorageTypeOK
      <3>4. QED
        BY <2>4, <3>2, <3>3 DEF Footprint, StepsOf
    <2>5. CASE Call
      BY <1>1, <2>2, <2>4, <2>5, CallKinds, LeaseCallKeepsTokens
         DEF Call, ClientInv
    <2>6. QED
      BY <1>1, <2>2, <2>3, <2>5
         DEF ClientNext, ClaimOne, ClaimRunnableStep, ClientTick, tables,
             clientVars
  <1>2. StorageAssumption
    BY StorageAssumption
  <1>3. (ClientInv /\ [ClientNext]_clientVars) => [Final]_storageVars
    BY <1>1, <1>2
  <1>4. QED
    BY <1>3, ClientSafety, PTL DEF ClientSpec, TerminalIsFinal

\* In whatever order clients call, the strict reducer accepts every history
\* and yields the rows: each transaction writes what its events say.
THEOREM HistoryAlwaysMatches == ClientSpec => []ProjectionMatchesHistory
  <1>1. StorageAssumption
    BY StorageAssumption
  <1>2. ClientInit => GrantsExist /\ ReplayInv
    BY InitReplays DEF ClientInit, GrantsExist
  <1>3. ClientInv /\ (GrantsExist /\ ReplayInv) /\ [ClientNext]_clientVars
            => (GrantsExist /\ ReplayInv)'
    BY <1>1, ClientReplays
  <1>4. ClientSpec => [](GrantsExist /\ ReplayInv)
    BY <1>2, <1>3, ClientSafety, PTL DEF ClientSpec
  <1>5. GrantsExist /\ ReplayInv => ProjectionMatchesHistory
    BY ReplayInvMatches
  <1>6. QED
    BY <1>4, <1>5, PTL
=============================================================================
