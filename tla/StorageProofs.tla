---------------------------- MODULE StorageProofs ----------------------------
(***************************************************************************)
(* Facts about single transactions on engine.db, cited by the proofs about *)
(* the storage's clients and about the engine: the types they keep, and    *)
(* that the reducer, given the events a transaction appends, arrives at    *)
(* the rows it writes.                                                     *)
(***************************************************************************)
EXTENDS History, SequenceTheorems, WellFoundedInduction, TLAPS

\* Readings of the clock are numbers.
LEMMA RecentIsNat ==
    ASSUME StorageTypeOK
    PROVE  Recent \subseteq Nat
  BY DEF Recent, StorageTypeOK

\* Appending events keeps every history a sequence of events.
LEMMA AppendEventsType ==
    ASSUME events \in [Run -> Seq(Event)], NEW r \in Run,
           NEW es \in Seq(Event), AppendEvents(r, es)
    PROVE  events' \in [Run -> Seq(Event)]
  <1>1. events[r] \o es \in Seq(Event)
    BY ConcatProperties
  <1>2. QED
    BY <1>1 DEF AppendEvents

\* One event, and two, make a sequence of events.
LEMMA SingleEvent ==
    ASSUME NEW e \in Event
    PROVE  <<e>> \in Seq(Event)
  <1> HIDE DEF Event
  <1>1. QED
    OBVIOUS

LEMMA TwoEvents ==
    ASSUME NEW e \in Event, NEW f \in Event
    PROVE  <<e, f>> \in Seq(Event)
  <1> HIDE DEF Event
  <1>1. QED
    OBVIOUS

\* Each transaction writes rows and events of the right types.
LEMMA CreateType ==
    ASSUME StorageAssumption, StorageTypeOK, NEW r \in Run, NEW now \in Nat,
           CreateWorkflowRun(r, now), UNCHANGED clock
    PROVE  StorageTypeOK'
  <1> DEFINE e == [type |-> "WorkflowRunCreated", at |-> now]
  <1>1. e \in Event
    BY DEF Event
  <1>2. <<e>> \in Seq(Event)
    BY <1>1, SingleEvent
  <1>3. events' \in [Run -> Seq(Event)]
    BY <1>2, AppendEventsType DEF CreateWorkflowRun, StorageTypeOK
  <1>4. runs' \in [Run -> RunRow]
    BY DEF CreateWorkflowRun, StorageTypeOK, RunRow, RunStatus
  <1>5. NewStep \in StepRow
    BY DEF NewStep, StepRow, StepStatus, Runnable
  <1>6. steps' \in [Key -> StepRow]
    BY <1>5 DEF CreateWorkflowRun, StorageTypeOK
  <1>7. QED
    BY <1>3, <1>4, <1>6 DEF CreateWorkflowRun, StorageTypeOK

LEMMA ClaimType ==
    ASSUME StorageAssumption, StorageTypeOK, NEW w \in Worker, NEW k \in Key,
           NEW now \in Nat, ClaimRunnableStep(w, k, now), UNCHANGED clock
    PROVE  StorageTypeOK'
  <1>1. leases' \in [Run -> LeaseRow]
    BY DEF ClaimRunnableStep, StorageTypeOK, StorageAssumption, LeaseRow
  <1>2. QED
    BY <1>1 DEF ClaimRunnableStep, StorageTypeOK

LEMMA RenewType ==
    ASSUME StorageAssumption, StorageTypeOK, NEW w, NEW r \in Run, NEW token,
           NEW now \in Nat, RenewLease(r, w, token, now), UNCHANGED clock
    PROVE  StorageTypeOK'
  <1> DEFINE until == now + LeaseTtl
  <1>0. until \in Nat
    BY DEF StorageAssumption
  <1> HIDE DEF until
  <1>1. leases' \in [Run -> LeaseRow]
    <2>1. leases' = [leases EXCEPT ![r].expires = until] \/ leases' = leases
      BY DEF RenewLease, until
    <2>2. QED
      BY <1>0, <2>1 DEF StorageTypeOK, LeaseRow
  <1>2. QED
    BY <1>1 DEF RenewLease, StorageTypeOK

LEMMA ReleaseType ==
    ASSUME StorageTypeOK, NEW w, NEW r \in Run, NEW token,
           NEW now \in Nat, ReleaseLease(r, w, token, now), UNCHANGED clock
    PROVE  StorageTypeOK'
  <1>1. leases' \in [Run -> LeaseRow]
    BY DEF ReleaseLease, StorageTypeOK, LeaseRow
  <1>2. QED
    BY <1>1 DEF ReleaseLease, StorageTypeOK

LEMMA RecordType ==
    ASSUME StorageAssumption, StorageTypeOK, NEW w \in Worker, NEW k \in Key,
           NEW token \in Nat, NEW now \in Nat,
           RecordAttempt(k, w, token, now), UNCHANGED clock
    PROVE  StorageTypeOK'
  <1> DEFINE e == [type |-> "StepAttemptStarted", key |-> k,
                   attempt |-> steps[k].attempts + 1,
                   owner |-> w, token |-> token, at |-> now]
  <1>1. RunOf[k] \in Run /\ steps[k].attempts + 1 \in Nat
    BY DEF StorageAssumption, StorageTypeOK, StepRow
  <1>2. e \in Event
    BY <1>1 DEF Event
  <1>3. <<e>> \in Seq(Event)
    BY <1>2, SingleEvent
  <1>4. events' \in [Run -> Seq(Event)]
    BY <1>1, <1>3, AppendEventsType DEF RecordAttempt, StorageTypeOK
  <1>5. steps' \in [Key -> StepRow]
    BY DEF RecordAttempt, IntentRow, StorageTypeOK, StepRow, StepStatus,
           Runnable
  <1>6. QED
    BY <1>4, <1>5 DEF RecordAttempt, StorageTypeOK

LEMMA RetryType ==
    ASSUME StorageAssumption, StorageTypeOK, NEW w, NEW k \in Key,
           NEW token, NEW error \in Error, NEW until \in Nat,
           NEW throttleTool \in BOOLEAN, NEW now \in Nat,
           ScheduleRetry(k, w, token, error, until, throttleTool, now),
           UNCHANGED clock
    PROVE  StorageTypeOK'
  <1> DEFINE e == [type |-> "StepRetryScheduled", key |-> k,
                   attempt |-> steps[k].attempts,
                   error |-> error, until |-> until, at |-> now]
  <1>1. RunOf[k] \in Run /\ steps[k].attempts \in Nat
    BY DEF StorageAssumption, StorageTypeOK, StepRow
  <1>2. e \in Event
    BY <1>1 DEF Event
  <1>3. <<e>> \in Seq(Event)
    BY <1>2, SingleEvent
  <1>4. events' \in [Run -> Seq(Event)]
    BY <1>1, <1>3, AppendEventsType DEF ScheduleRetry, StorageTypeOK
  <1>5. steps' \in [Key -> StepRow]
    BY DEF ScheduleRetry, RetryRow, StorageTypeOK, StepRow, StepStatus,
           Runnable
  <1>6. throttles' \in [ToolName -> Nat]
    BY DEF ScheduleRetry, StorageTypeOK, Later
  <1>7. QED
    BY <1>4, <1>5, <1>6 DEF ScheduleRetry, StorageTypeOK

LEMMA FailType ==
    ASSUME StorageAssumption, StorageTypeOK, NEW w, NEW k \in Key,
           NEW token, NEW error \in Error, NEW now \in Nat,
           FailStep(k, w, token, error, now), UNCHANGED clock
    PROVE  StorageTypeOK'
  <1> DEFINE e == [type |-> "StepFailed", key |-> k,
                   attempt |-> steps[k].attempts,
                   error |-> error, at |-> now]
             f == [type |-> "WorkflowRunFailed", key |-> k,
                   error |-> error, at |-> now]
  <1>1. RunOf[k] \in Run /\ steps[k].attempts \in Nat
    BY DEF StorageAssumption, StorageTypeOK, StepRow
  <1>2. e \in Event /\ f \in Event
    BY <1>1 DEF Event
  <1>3. <<e, f>> \in Seq(Event)
    BY <1>2, TwoEvents
  <1>4. events' \in [Run -> Seq(Event)]
    BY <1>1, <1>3, AppendEventsType DEF FailStep, StorageTypeOK
  <1>5. steps' \in [Key -> StepRow]
    BY DEF FailStep, FailedRow, StorageTypeOK, StepRow, StepStatus, Runnable
  <1>6. runs' \in [Run -> RunRow]
    BY <1>1 DEF FailStep, StorageTypeOK, RunRow, RunStatus
  <1>7. QED
    BY <1>4, <1>5, <1>6 DEF FailStep, StorageTypeOK

LEMMA CompleteType ==
    ASSUME StorageAssumption, StorageTypeOK, NEW w, NEW k \in Key,
           NEW token, NEW output \in Nat \ {0}, NEW now \in Nat,
           CompleteStep(k, w, token, output, now), UNCHANGED clock
    PROVE  StorageTypeOK'
  <1> DEFINE e == [type |-> "StepCompleted", key |-> k,
                   attempt |-> steps[k].attempts,
                   output |-> output, at |-> now]
             f == [type |-> "WorkflowRunCompleted", at |-> now]
  <1>1. RunOf[k] \in Run /\ steps[k].attempts \in Nat
    BY DEF StorageAssumption, StorageTypeOK, StepRow
  <1>2. e \in Event /\ f \in Event
    BY <1>1 DEF Event
  <1>3. <<e>> \in Seq(Event) /\ <<e, f>> \in Seq(Event)
    BY <1>2, SingleEvent, TwoEvents
  <1>4. events' \in [Run -> Seq(Event)]
    <2>1. CASE LastStep(k)
      BY <1>1, <1>3, <2>1, AppendEventsType DEF CompleteStep, StorageTypeOK
    <2>2. CASE ~ LastStep(k)
      BY <1>1, <1>3, <2>2, AppendEventsType DEF CompleteStep, StorageTypeOK
    <2>3. QED
      BY <2>1, <2>2
  <1>5. steps' \in [Key -> StepRow]
    BY DEF CompleteStep, CompletedRow, StorageTypeOK, StepRow, StepStatus,
           Runnable, Error
  <1>6. runs' \in [Run -> RunRow]
    BY <1>1 DEF CompleteStep, StorageTypeOK, RunRow, RunStatus
  <1>7. QED
    BY <1>4, <1>5, <1>6 DEF CompleteStep, StorageTypeOK

\* An event of the new history is an old one at its old place, or one of the
\* appended ones behind them all.
LEMMA AppendedIsOldOrNew ==
    ASSUME events \in [Run -> Seq(Event)], NEW r \in Run,
           NEW es \in Seq(Event), AppendEvents(r, es),
           NEW q \in Run, NEW i \in DOMAIN events'[q]
    PROVE  \/ i \in DOMAIN events[q] /\ events'[q][i] = events[q][i]
           \/ /\ q = r /\ i > Len(events[r])
              /\ \E j \in DOMAIN es : /\ events'[q][i] = es[j]
                                      /\ i = Len(events[r]) + j
  <1>1. CASE q # r
    BY <1>1 DEF AppendEvents
  <1>2. CASE q = r
    <2>1. events'[r] = events[r] \o es /\ events[r] \in Seq(Event)
      BY <1>2 DEF AppendEvents
    <2>2. /\ Len(events'[r]) = Len(events[r]) + Len(es)
          /\ Len(events[r]) \in Nat /\ Len(es) \in Nat
          /\ i \in 1 .. Len(events'[r])
          /\ \A n \in 1 .. Len(events'[r]) :
                events'[r][n] = IF n <= Len(events[r]) THEN events[r][n]
                                ELSE es[n - Len(events[r])]
      BY <1>2, <2>1
    <2>3. CASE i <= Len(events[r])
      BY <1>2, <2>2, <2>3
    <2>4. CASE i > Len(events[r])
      <3> DEFINE j == i - Len(events[r])
      <3>1. j \in DOMAIN es
        BY <2>2, <2>4
      <3>2. events'[r][i] = es[j] /\ i = Len(events[r]) + j
        BY <2>2, <2>4
      <3> HIDE DEF j
      <3>3. QED
        BY <1>2, <2>4, <3>1, <3>2
    <2>5. QED
      BY <2>2, <2>3, <2>4
  <1>3. QED
    BY <1>1, <1>2

\* The token of a recorded attempt is a number.
LEMMA StartedToken ==
    ASSUME StorageTypeOK, NEW r \in Run, NEW i \in DOMAIN events[r],
           events[r][i].type = "StepAttemptStarted"
    PROVE  events[r][i].token \in Nat
  <1>1. events[r][i] \in Event
    BY DEF StorageTypeOK
  <1>2. QED
    BY <1>1 DEF Event

-----------------------------------------------------------------------------
(***************************************************************************)
(* The reducer's loop.  Reduced is a recursive function; that it has the   *)
(* value its recursion says is shown by the least number at which there    *)
(* would be none; that a longer history reduces alike as far as a shorter  *)
(* one goes, by the least number at which it would not.                    *)
(***************************************************************************)

LEMMA LeastNatural ==
    ASSUME NEW T, T \subseteq Nat, T # {}
    PROVE  \E n \in T : \A m \in T : n <= m
  <1>1. \E n \in T : \A m \in T : ~ (<<m, n>> \in OpToRel(<, Nat))
    BY NatLessThanWellFounded, WFMin
  <1>2. \A m, n \in T : <<m, n>> \notin OpToRel(<, Nat) => n <= m
    BY DEF OpToRel
  <1>3. QED
    BY <1>1, <1>2

\* f lists what the reducer holds after each of the first n events of h.
IsReduction(f, n, r, h) ==
    f = [i \in 0 .. n |-> IF i = 0 THEN Unreduced
                                  ELSE ReduceEvent(r, f[i - 1], h[i])]

LEMMA ReductionExists ==
    ASSUME NEW r, NEW h, NEW n \in Nat
    PROVE  \E f : IsReduction(f, n, r, h)
  <1> DEFINE T == {m \in Nat : ~ \E f : IsReduction(f, m, r, h)}
  <1> SUFFICES ASSUME T # {} PROVE FALSE
    OBVIOUS
  <1>1. PICK m \in T : \A l \in T : m <= l
    BY LeastNatural
  <1>2. CASE m = 0
    <2>1. IsReduction([i \in 0 .. 0 |-> Unreduced], 0, r, h)
      BY DEF IsReduction
    <2>2. QED
      BY <1>1, <1>2, <2>1
  <1>3. CASE m # 0
    <2>1. PICK f : IsReduction(f, m - 1, r, h)
      BY <1>1, <1>3
    <2> DEFINE g == [i \in 0 .. m |-> IF i = m
                                       THEN ReduceEvent(r, f[m - 1], h[m])
                                       ELSE f[i]]
    <2>2. \A i \in 0 .. m : g[i] = IF i = 0 THEN Unreduced
                                   ELSE ReduceEvent(r, g[i - 1], h[i])
      <3>1. \A i \in 0 .. m - 1 : f[i] = IF i = 0 THEN Unreduced
                                         ELSE ReduceEvent(r, f[i - 1], h[i])
        BY <2>1 DEF IsReduction
      <3>2. QED
        BY <1>1, <1>3, <3>1
    <2>3. IsReduction(g, m, r, h)
      BY <2>2 DEF IsReduction
    <2>4. QED
      BY <1>1, <2>3
  <1>4. QED
    BY <1>2, <1>3

LEMMA ReducedIs ==
    ASSUME NEW r, NEW h, Len(h) \in Nat
    PROVE  \A i \in 0 .. Len(h) :
              Reduced(r, h)[i] = IF i = 0 THEN Unreduced
                                 ELSE ReduceEvent(r, Reduced(r, h)[i - 1], h[i])
  <1>1. IsReduction(Reduced(r, h), Len(h), r, h)
    BY ReductionExists DEF Reduced, IsReduction
  <1>2. QED
    BY <1>1 DEF IsReduction

\* What the loop holds when it is through.
Replayed(r, h) == Reduced(r, h)[Len(h)]

LEMMA ReplayedEmpty ==
    ASSUME NEW r
    PROVE  Replayed(r, <<>>) = Unreduced
  <1>1. Len(<<>>) = 0
    OBVIOUS
  <1>2. QED
    BY <1>1, ReducedIs DEF Replayed

LEMMA ReplayedAppend ==
    ASSUME NEW r, NEW S, NEW h \in Seq(S), NEW e \in S
    PROVE  Replayed(r, h \o <<e>>) = ReduceEvent(r, Replayed(r, h), e)
  <1> DEFINE g == h \o <<e>>
  <1>1. /\ Len(h) \in Nat /\ Len(g) = Len(h) + 1 /\ g[Len(h) + 1] = e
        /\ \A i \in 1 .. Len(h) : h[i] = g[i]
    OBVIOUS
  <1> HIDE DEF g
  <1>2. /\ \A i \in 0 .. Len(h) :
              Reduced(r, h)[i] = IF i = 0 THEN Unreduced
                                 ELSE ReduceEvent(r, Reduced(r, h)[i - 1], h[i])
        /\ \A i \in 0 .. Len(h) + 1 :
              Reduced(r, g)[i] = IF i = 0 THEN Unreduced
                                 ELSE ReduceEvent(r, Reduced(r, g)[i - 1], g[i])
    BY <1>1, ReducedIs
  <1>3. Reduced(r, h)[Len(h)] = Reduced(r, g)[Len(h)]
    <2> DEFINE T == {i \in 0 .. Len(h) : Reduced(r, h)[i] # Reduced(r, g)[i]}
    <2>1. SUFFICES ASSUME T # {} PROVE FALSE
      BY <1>1
    <2>2. PICK m \in T : \A i \in T : m <= i
      <3>1. T \subseteq Nat
        OBVIOUS
      <3> HIDE DEF T
      <3>2. QED
        BY <2>1, <3>1, LeastNatural
    <2>3. /\ Reduced(r, h)[m] = IF m = 0 THEN Unreduced
                                ELSE ReduceEvent(r, Reduced(r, h)[m - 1], h[m])
          /\ Reduced(r, g)[m] = IF m = 0 THEN Unreduced
                                ELSE ReduceEvent(r, Reduced(r, g)[m - 1], g[m])
      <3>1. m \in 0 .. Len(h) /\ m \in 0 .. Len(h) + 1
        BY <1>1
      <3> HIDE DEF T
      <3>2. QED
        BY <1>2, <3>1
    <2>4. m # 0 => Reduced(r, h)[m - 1] = Reduced(r, g)[m - 1] /\ h[m] = g[m]
      <3>1. m # 0 => m - 1 \in 0 .. Len(h) /\ m - 1 \notin T /\ m \in 1 .. Len(h)
        BY <1>1, <2>2
      <3>2. QED
        BY <1>1, <3>1
    <2>5. QED
      BY <2>3, <2>4
  <1>4. Reduced(r, g)[Len(h) + 1] =
            ReduceEvent(r, Reduced(r, g)[Len(h)], g[Len(h) + 1])
    BY <1>1, <1>2
  <1>5. QED
    BY <1>1, <1>3, <1>4 DEF Replayed, g

LEMMA ReplayedAppendTwo ==
    ASSUME NEW r, NEW S, NEW h \in Seq(S), NEW e \in S, NEW f \in S
    PROVE  Replayed(r, h \o <<e, f>>) =
              ReduceEvent(r, ReduceEvent(r, Replayed(r, h), e), f)
  <1>1. <<e>> \in Seq(S) /\ <<f>> \in Seq(S)
    OBVIOUS
  <1>2. <<e, f>> = <<e>> \o <<f>>
    <2>1. <<e, f>> = Append(<<e>>, f)
      OBVIOUS
    <2>2. QED
      BY <1>1, <2>1, AppendIsConcat
  <1>3. h \o <<e, f>> = (h \o <<e>>) \o <<f>>
    BY <1>1, <1>2, ConcatAssociative
  <1>4. h \o <<e>> \in Seq(S)
    BY <1>1, ConcatProperties
  <1>5. Replayed(r, (h \o <<e>>) \o <<f>>) =
            ReduceEvent(r, Replayed(r, h \o <<e>>), f)
    BY <1>4, ReplayedAppend
  <1>6. Replayed(r, h \o <<e>>) = ReduceEvent(r, Replayed(r, h), e)
    BY ReplayedAppend
  <1>7. QED
    BY <1>3, <1>5, <1>6

-----------------------------------------------------------------------------
(***************************************************************************)
(* The reducer keeps up with the transactions: if it arrives at a run's    *)
(* rows before a transaction, it does after it.                            *)
(***************************************************************************)

\* The reducer arrives at the rows, and would not reject them as unsettled.
RowsFollow(r) ==
    /\ Replayed(r, events[r]) = Projection(r)
    /\ Settled(Projection(r))

\* A run that has ended has the steps to show for it.
EndIsEarned(r) ==
    /\ runs[r].status = "completed" =>
          \A k \in StepsOf(r) : steps[k].status = "completed"
    /\ runs[r].status = "failed" =>
          \E k \in StepsOf(r) : steps[k].status = "failed"

\* What is kept of each run.  An attempt under way has no deadline: the
\* reducer clears it when a step fails, fail_step leaves it as it is.
Replays(r) ==
    /\ runs[r].status = "absent" => events[r] = <<>>
    /\ runs[r].status # "absent" => RowsFollow(r)
    /\ EndIsEarned(r)
    /\ \A k \in StepsOf(r) :
          steps[k].status = "intent_recorded" => steps[k].nextAt = 0

ReplayInv == \A r \in Run : Replays(r)

LEMMA ReplayInvMatches == ReplayInv => ProjectionMatchesHistory
  <1> SUFFICES ASSUME NEW r \in Run, RowsFollow(r)
               PROVE  ReduceHistory(r, events[r]) = Projection(r)
    BY DEF ReplayInv, Replays, ProjectionMatchesHistory
  <1>1. Projection(r).accepted
    BY DEF Projection
  <1>2. QED
    BY <1>1 DEF RowsFollow, Replayed, ReduceHistory

\* A run whose rows and events a step leaves alone.
LEMMA ReplaysAlone ==
    ASSUME NEW r \in Run, Replays(r), runs'[r] = runs[r],
           events'[r] = events[r], \A k \in StepsOf(r) : steps'[k] = steps[k]
    PROVE  Replays(r)'
  <1>1. Projection(r)' = Projection(r) /\ StepsOf(r)' = StepsOf(r)
    BY DEF Projection, StepsOf
  <1>2. Settled(Projection(r))' <=> Settled(Projection(r))
    BY <1>1 DEF Settled
  <1>3. Replayed(r, events[r])' = Replayed(r, events[r])
    BY DEF Replayed, Reduced, ReduceEvent, ReduceCreated, ReduceStepEvent
  <1>4. RowsFollow(r)' <=> RowsFollow(r)
    BY <1>1, <1>2, <1>3 DEF RowsFollow
  <1>5. QED
    BY <1>1, <1>4 DEF Replays, EndIsEarned

LEMMA ReplayStays ==
    ASSUME ReplayInv, UNCHANGED <<runs, steps, events>>
    PROVE  ReplayInv'
  BY ReplaysAlone DEF ReplayInv

\* A transaction writes to one run.
LEMMA ReplayOne ==
    ASSUME StorageTypeOK, ReplayInv, NEW r \in Run, NEW es,
           AppendEvents(r, es),
           \A q \in Run \ {r} : runs'[q] = runs[q],
           \A k \in Key : RunOf[k] # r => steps'[k] = steps[k],
           Replays(r)'
    PROVE  ReplayInv'
  <1>1. \A q \in Run \ {r} : events'[q] = events[q]
    BY DEF AppendEvents, StorageTypeOK
  <1>2. ASSUME NEW q \in Run \ {r}
        PROVE  Replays(q)'
    BY <1>1, ReplaysAlone DEF ReplayInv, StepsOf
  <1>3. QED
    BY <1>2 DEF ReplayInv

\* A new run: its first event makes the rows that are inserted.
LEMMA CreateReplays ==
    ASSUME StorageAssumption, StorageTypeOK, ReplayInv, NEW r \in Run,
           NEW now \in Nat, CreateWorkflowRun(r, now)
    PROVE  ReplayInv'
  <1> DEFINE e == [type |-> "WorkflowRunCreated", at |-> now]
             new == [accepted |-> TRUE,
                     run |-> [status |-> "running", createdAt |-> now],
                     steps |-> [k \in StepsOf(r) |-> NewStep]]
  <1>1. /\ AppendEvents(r, <<e>>)
        /\ runs' = [runs EXCEPT ![r] = [status |-> "running",
                                        createdAt |-> now]]
        /\ steps' = [k \in Key |-> IF RunOf[k] = r THEN NewStep ELSE steps[k]]
        /\ events[r] = <<>>
    BY DEF CreateWorkflowRun, ReplayInv, Replays
  <1>2. Projection(r)' = new
    BY <1>1 DEF Projection, StepsOf, StorageTypeOK
  <1>3. Replayed(r, events'[r]) = new
    <2>1. e \in Event /\ <<>> \in Seq(Event)
      BY DEF Event
    <2>2. events'[r] = <<>> \o <<e>>
      BY <1>1 DEF AppendEvents, StorageTypeOK
    <2>3. Replayed(r, events'[r]) = ReduceEvent(r, Unreduced, e)
      <3> HIDE DEF e
      <3>1. Replayed(r, <<>> \o <<e>>) = ReduceEvent(r, Replayed(r, <<>>), e)
        BY <2>1, ReplayedAppend
      <3>2. QED
        BY <2>2, <3>1, ReplayedEmpty
    <2>4. ReduceEvent(r, Unreduced, e) = new
      BY DEF ReduceEvent, ReduceCreated, Unreduced, NewRun
    <2>5. QED
      BY <2>3, <2>4
  <1>4. Settled(new)
    <2>1. PICK k \in Key : RunOf[k] = r
      BY DEF StorageAssumption
    <2>2. QED
      BY <2>1 DEF Settled, NewStep, StepsOf
  <1>5. RowsFollow(r)'
    <2>1. Replayed(r, events[r])' = Replayed(r, events'[r])
      BY DEF Replayed, Reduced, ReduceEvent, ReduceCreated, ReduceStepEvent
    <2>2. Settled(Projection(r))' <=> Settled(new)
      BY <1>2 DEF Settled
    <2>3. QED
      BY <1>2, <1>3, <1>4, <2>1, <2>2 DEF RowsFollow
  <1>6. Replays(r)'
    <2>1. runs'[r].status = "running" /\ \A k \in StepsOf(r) : steps'[k] = NewStep
      BY <1>1 DEF StorageTypeOK, StepsOf
    <2>2. QED
      BY <1>5, <2>1 DEF Replays, EndIsEarned, NewStep, StepsOf
  <1>7. QED
    BY <1>1, <1>6, ReplayOne DEF StorageTypeOK

\* The rows of k's run once the row of k is another.
After(k, row) ==
    [accepted |-> TRUE, run |-> runs[RunOf[k]],
     steps |-> [j \in StepsOf(RunOf[k]) |-> IF j = k THEN row ELSE steps[j]]]

\* An event of a step reduces to the row that its transaction writes.
LEMMA StepReduces ==
    ASSUME StorageTypeOK, NEW k \in Key, runs[RunOf[k]].status = "running",
           NEW e,
           e.type \notin {"WorkflowRunCreated", "WorkflowRunCompleted",
                          "WorkflowRunFailed"},
           e.key = k, NEW legal, legal = TRUE, NEW row,
           ReduceStepEvent(Projection(RunOf[k]), e) =
              ReduceStep(Projection(RunOf[k]), e, legal, row)
    PROVE  ReduceEvent(RunOf[k], Projection(RunOf[k]), e) = After(k, row)
  <1> DEFINE p == Projection(RunOf[k])
  <1>1. p.accepted /\ p.run.status = "running"
    BY DEF Projection
  <1>2. ReduceEvent(RunOf[k], p, e) = ReduceStepEvent(p, e)
    BY <1>1 DEF ReduceEvent
  <1>3. ReduceStep(p, e, legal, row) = After(k, row)
    BY DEF ReduceStep, Projection, After, StepsOf
  <1>4. QED
    BY <1>2, <1>3

LEMMA StartReduces ==
    ASSUME StorageAssumption, StorageTypeOK, NEW k \in Key,
           runs[RunOf[k]].status = "running",
           steps[k].status \in Runnable, DependenciesCompleted(k),
           NEW w, NEW token, NEW now
    PROVE  ReduceEvent(RunOf[k], Projection(RunOf[k]),
                [type |-> "StepAttemptStarted", key |-> k,
                 attempt |-> steps[k].attempts + 1,
                 owner |-> w, token |-> token, at |-> now])
             = After(k, IntentRow(steps[k]))
  <1> DEFINE p == Projection(RunOf[k])
             e == [type |-> "StepAttemptStarted", key |-> k,
                   attempt |-> steps[k].attempts + 1,
                   owner |-> w, token |-> token, at |-> now]
  <1>1. p.steps[k] = steps[k] /\ \A d \in DependsOn[k] : p.steps[d] = steps[d]
    BY DEF Projection, StepsOf, StorageAssumption
  <1>2. AttemptIsLegal(p, e) = TRUE
    BY <1>1 DEF AttemptIsLegal, DependenciesCompleted
  <1>3. ReduceStepEvent(p, e) =
            ReduceStep(p, e, AttemptIsLegal(p, e), IntentRow(steps[k]))
    BY <1>1, Zenon DEF ReduceStepEvent, IntentRow
  <1>4. QED
    BY <1>2, <1>3, StepReduces

LEMMA RetryReduces ==
    ASSUME StorageAssumption, StorageTypeOK, NEW k \in Key,
           runs[RunOf[k]].status = "running",
           steps[k].status = "intent_recorded",
           NEW error, NEW until, NEW now
    PROVE  ReduceEvent(RunOf[k], Projection(RunOf[k]),
                [type |-> "StepRetryScheduled", key |-> k,
                 attempt |-> steps[k].attempts,
                 error |-> error, until |-> until, at |-> now])
             = After(k, RetryRow(steps[k], error, until))
  <1> DEFINE p == Projection(RunOf[k])
             e == [type |-> "StepRetryScheduled", key |-> k,
                   attempt |-> steps[k].attempts,
                   error |-> error, until |-> until, at |-> now]
  <1>1. p.steps[k] = steps[k]
    BY DEF Projection, StepsOf
  <1>2. CurrentAttempt(p, e) = TRUE
    BY <1>1 DEF CurrentAttempt
  <1>3. ReduceStepEvent(p, e) =
          ReduceStep(p, e, CurrentAttempt(p, e), RetryRow(steps[k], error, until))
    BY <1>1, Zenon DEF ReduceStepEvent, RetryRow
  <1>4. QED
    BY <1>2, <1>3, StepReduces

LEMMA CompletionReduces ==
    ASSUME StorageAssumption, StorageTypeOK, NEW k \in Key,
           runs[RunOf[k]].status = "running",
           steps[k].status = "intent_recorded",
           NEW output, NEW now
    PROVE  ReduceEvent(RunOf[k], Projection(RunOf[k]),
                [type |-> "StepCompleted", key |-> k,
                 attempt |-> steps[k].attempts,
                 output |-> output, at |-> now])
             = After(k, CompletedRow(steps[k], output))
  <1> DEFINE p == Projection(RunOf[k])
             e == [type |-> "StepCompleted", key |-> k,
                   attempt |-> steps[k].attempts,
                   output |-> output, at |-> now]
  <1>1. p.steps[k] = steps[k]
    BY DEF Projection, StepsOf
  <1>2. CurrentAttempt(p, e) = TRUE
    BY <1>1 DEF CurrentAttempt
  <1>3. ReduceStepEvent(p, e) =
          ReduceStep(p, e, CurrentAttempt(p, e), CompletedRow(steps[k], output))
    BY <1>1, Zenon DEF ReduceStepEvent, CompletedRow
  <1>4. QED
    BY <1>2, <1>3, StepReduces

LEMMA FailureReduces ==
    ASSUME StorageAssumption, StorageTypeOK, NEW k \in Key,
           runs[RunOf[k]].status = "running",
           steps[k].status = "intent_recorded", steps[k].nextAt = 0,
           NEW error, NEW now
    PROVE  ReduceEvent(RunOf[k], Projection(RunOf[k]),
                [type |-> "StepFailed", key |-> k,
                 attempt |-> steps[k].attempts, error |-> error, at |-> now])
             = After(k, FailedRow(steps[k], error))
  <1> DEFINE p == Projection(RunOf[k])
             e == [type |-> "StepFailed", key |-> k,
                   attempt |-> steps[k].attempts, error |-> error, at |-> now]
  <1>1. p.steps[k] = steps[k]
    BY DEF Projection, StepsOf
  <1>2. CurrentAttempt(p, e) = TRUE
    BY <1>1 DEF CurrentAttempt
  <1>3. ReduceStepEvent(p, e) =
          ReduceStep(p, e, CurrentAttempt(p, e), FailedRow(steps[k], error))
    BY <1>1, Zenon DEF ReduceStepEvent, FailedRow
  <1>4. QED
    BY <1>2, <1>3, StepReduces

\* The history a run's new events are appended to, and what is made of it.
LEMMA ReplayedAfter ==
    ASSUME StorageAssumption, StorageTypeOK, ReplayInv, NEW k \in Key,
           runs[RunOf[k]].status = "running"
    PROVE  /\ RunOf[k] \in Run
           /\ Settled(Projection(RunOf[k]))
           /\ \A e \in Event : AppendEvents(RunOf[k], <<e>>) =>
                Replayed(RunOf[k], events'[RunOf[k]]) =
                   ReduceEvent(RunOf[k], Projection(RunOf[k]), e)
           /\ \A e, f \in Event : AppendEvents(RunOf[k], <<e, f>>) =>
                Replayed(RunOf[k], events'[RunOf[k]]) =
                   ReduceEvent(RunOf[k],
                      ReduceEvent(RunOf[k], Projection(RunOf[k]), e), f)
  <1> DEFINE r == RunOf[k]
  <1>1. r \in Run /\ events[r] \in Seq(Event)
    BY DEF StorageAssumption, StorageTypeOK
  <1>2. Replayed(r, events[r]) = Projection(r) /\ Settled(Projection(r))
    BY <1>1 DEF ReplayInv, Replays, RowsFollow
  <1>3. ASSUME NEW es, AppendEvents(r, es)
        PROVE  events'[r] = events[r] \o es
    BY <1>1, <1>3 DEF AppendEvents, StorageTypeOK
  <1> HIDE DEF r, Event
  <1>4. ASSUME NEW e \in Event, AppendEvents(r, <<e>>)
        PROVE  Replayed(r, events'[r]) = ReduceEvent(r, Projection(r), e)
    <2>1. Replayed(r, events[r] \o <<e>>) = ReduceEvent(r, Projection(r), e)
      BY <1>1, <1>2, ReplayedAppend
    <2>2. QED
      BY <1>3, <1>4, <2>1
  <1>5. ASSUME NEW e \in Event, NEW f \in Event, AppendEvents(r, <<e, f>>)
        PROVE  Replayed(r, events'[r]) =
                  ReduceEvent(r, ReduceEvent(r, Projection(r), e), f)
    <2>1. Replayed(r, events[r] \o <<e, f>>) =
              ReduceEvent(r, ReduceEvent(r, Projection(r), e), f)
      BY <1>1, <1>2, ReplayedAppendTwo
    <2>2. QED
      BY <1>3, <1>5, <2>1
  <1>6. QED
    BY <1>1, <1>2, <1>4, <1>5 DEF r

\* The same, once the run has ended as well.
Ended(k, row, status) ==
    [accepted |-> TRUE,
     run |-> [status |-> status, createdAt |-> runs[RunOf[k]].createdAt],
     steps |-> [j \in StepsOf(RunOf[k]) |-> IF j = k THEN row ELSE steps[j]]]

\* A transition that changes one step and appends one event.
LEMMA StepReplays ==
    ASSUME StorageAssumption, StorageTypeOK, ReplayInv, NEW k \in Key,
           runs[RunOf[k]].status = "running",
           NEW e \in Event, AppendEvents(RunOf[k], <<e>>),
           NEW row, steps' = [steps EXCEPT ![k] = row], UNCHANGED runs,
           ReduceEvent(RunOf[k], Projection(RunOf[k]), e) = After(k, row),
           row.status # "failed",
           row.status = "intent_recorded" => row.nextAt = 0,
           \/ row.status # "completed"
           \/ \E j \in StepsOf(RunOf[k]) \ {k} : steps[j].status # "completed"
    PROVE  ReplayInv'
  <1> DEFINE r == RunOf[k]
  <1>1. /\ r \in Run /\ Settled(Projection(r)) /\ Replays(r)
        /\ Replayed(r, events'[r]) = After(k, row)
    BY ReplayedAfter DEF ReplayInv
  <1>2. \A j \in Key : steps'[j] = IF j = k THEN row ELSE steps[j]
    BY DEF StorageTypeOK
  <1>3. Projection(r)' = After(k, row)
    BY <1>2 DEF Projection, After, StepsOf
  <1>4. Settled(After(k, row))
    <2>1. \A j \in StepsOf(r) : steps[j].status # "failed"
      BY <1>1 DEF Settled, Projection
    <2>2. \E j \in StepsOf(r) :
             (IF j = k THEN row ELSE steps[j]).status # "completed"
      BY DEF StepsOf
    <2>3. QED
      BY <2>1, <2>2 DEF Settled, After
  <1>5. RowsFollow(r)'
    <2>1. Replayed(r, events[r])' = Replayed(r, events'[r])
      BY DEF Replayed, Reduced, ReduceEvent, ReduceCreated, ReduceStepEvent
    <2>2. Settled(Projection(r))' <=> Settled(After(k, row))
      BY <1>3 DEF Settled
    <2>3. QED
      BY <1>1, <1>3, <1>4, <2>1, <2>2 DEF RowsFollow
  <1>6. Replays(r)'
    BY <1>1, <1>2, <1>5 DEF Replays, EndIsEarned, StepsOf
  <1>7. QED
    BY <1>1, <1>2, <1>6, ReplayOne

\* A transition that ends the run with its step, and appends two events.
LEMMA EndReplays ==
    ASSUME StorageAssumption, StorageTypeOK, ReplayInv, NEW k \in Key,
           runs[RunOf[k]].status = "running",
           NEW e \in Event, NEW f \in Event, AppendEvents(RunOf[k], <<e, f>>),
           NEW row, steps' = [steps EXCEPT ![k] = row],
           NEW status, runs' = [runs EXCEPT ![RunOf[k]].status = status],
           ReduceEvent(RunOf[k], Projection(RunOf[k]), e) = After(k, row),
           ReduceEvent(RunOf[k], After(k, row), f) = Ended(k, row, status),
           \/ /\ status = "failed" /\ row.status = "failed"
           \/ /\ status = "completed" /\ row.status = "completed"
              /\ \A j \in StepsOf(RunOf[k]) \ {k} : steps[j].status = "completed"
    PROVE  ReplayInv'
  <1> DEFINE r == RunOf[k]
  <1>1. /\ r \in Run /\ Replays(r)
        /\ Replayed(r, events'[r]) = Ended(k, row, status)
    BY ReplayedAfter DEF ReplayInv
  <1>2. \A j \in Key : steps'[j] = IF j = k THEN row ELSE steps[j]
    BY DEF StorageTypeOK
  <1>3. /\ runs'[r] = [runs[r] EXCEPT !.status = status]
        /\ runs'[r].status = status
        /\ \A q \in Run \ {r} : runs'[q] = runs[q]
    BY <1>1 DEF StorageTypeOK, RunRow
  <1>4. Projection(r)' = Ended(k, row, status)
    <2>1. runs'[r] = [status |-> status, createdAt |-> runs[r].createdAt]
      <3>1. runs[r] \in RunRow /\ status \in RunStatus
        BY <1>1 DEF StorageTypeOK, RunStatus
      <3>2. runs'[r] \in RunRow /\ runs'[r].createdAt = runs[r].createdAt
        BY <1>3, <3>1 DEF RunRow
      <3>3. QED
        BY <1>3, <3>2 DEF RunRow
    <2>2. QED
      BY <1>2, <2>1 DEF Projection, Ended, StepsOf
  <1>5. RowsFollow(r)'
    <2>1. Replayed(r, events[r])' = Replayed(r, events'[r])
      BY DEF Replayed, Reduced, ReduceEvent, ReduceCreated, ReduceStepEvent
    <2>2. Settled(Projection(r))'
      BY <1>3 DEF Settled, Projection
    <2>3. QED
      BY <1>1, <1>4, <2>1, <2>2 DEF RowsFollow
  <1>6. EndIsEarned(r)'
    BY <1>2, <1>3 DEF EndIsEarned, StepsOf
  <1>7. Replays(r)'
    BY <1>1, <1>2, <1>3, <1>5, <1>6 DEF Replays, StepsOf
  <1>8. QED
    BY <1>1, <1>2, <1>3, <1>7, ReplayOne

\* The four transitions of a running run.
LEMMA RecordReplays ==
    ASSUME StorageAssumption, StorageTypeOK, ReplayInv, NEW k \in Key,
           runs[RunOf[k]].status = "running",
           NEW w \in Worker, NEW token \in Nat, NEW now \in Nat,
           RecordAttempt(k, w, token, now)
    PROVE  ReplayInv'
  <1> DEFINE e == [type |-> "StepAttemptStarted", key |-> k,
                   attempt |-> steps[k].attempts + 1,
                   owner |-> w, token |-> token, at |-> now]
             row == IntentRow(steps[k])
  <1>1. e \in Event
    BY DEF Event, StorageTypeOK, StepRow
  <1>2. AppendEvents(RunOf[k], <<e>>) /\ UNCHANGED runs
    BY DEF RecordAttempt
  <1>3. steps' = [steps EXCEPT ![k] = row]
    BY DEF RecordAttempt
  <1>4. ReduceEvent(RunOf[k], Projection(RunOf[k]), e) = After(k, row)
    BY StartReduces DEF RecordAttempt
  <1>5. row.status = "intent_recorded" /\ row.nextAt = 0
    BY DEF IntentRow
  <1> HIDE DEF e, row
  <1>6. QED
    BY <1>1, <1>2, <1>3, <1>4, <1>5, StepReplays

LEMMA RetryReplays ==
    ASSUME StorageAssumption, StorageTypeOK, ReplayInv, NEW k \in Key,
           runs[RunOf[k]].status = "running",
           NEW w, NEW token, NEW error \in Error, NEW until \in Nat,
           NEW throttleTool, NEW now \in Nat,
           ScheduleRetry(k, w, token, error, until, throttleTool, now)
    PROVE  ReplayInv'
  <1> DEFINE e == [type |-> "StepRetryScheduled", key |-> k,
                   attempt |-> steps[k].attempts,
                   error |-> error, until |-> until, at |-> now]
             row == RetryRow(steps[k], error, until)
  <1>1. e \in Event
    BY DEF Event, StorageTypeOK, StepRow
  <1>2. AppendEvents(RunOf[k], <<e>>) /\ UNCHANGED runs
    BY DEF ScheduleRetry
  <1>3. steps' = [steps EXCEPT ![k] = row]
    BY DEF ScheduleRetry
  <1>4. ReduceEvent(RunOf[k], Projection(RunOf[k]), e) = After(k, row)
    BY RetryReduces DEF ScheduleRetry, ActiveAttempt
  <1>5. row.status = "retry_wait"
    BY DEF RetryRow
  <1> HIDE DEF e, row
  <1>6. QED
    BY <1>1, <1>2, <1>3, <1>4, <1>5, StepReplays

LEMMA FailReplays ==
    ASSUME StorageAssumption, StorageTypeOK, ReplayInv, NEW k \in Key,
           runs[RunOf[k]].status = "running",
           NEW w, NEW token, NEW error \in Error, NEW now \in Nat,
           FailStep(k, w, token, error, now)
    PROVE  ReplayInv'
  <1> DEFINE e == [type |-> "StepFailed", key |-> k,
                   attempt |-> steps[k].attempts,
                   error |-> error, at |-> now]
             f == [type |-> "WorkflowRunFailed", key |-> k,
                   error |-> error, at |-> now]
             row == FailedRow(steps[k], error)
  <1>1. e \in Event /\ f \in Event
    BY DEF Event, StorageTypeOK, StepRow
  <1>2. /\ AppendEvents(RunOf[k], <<e, f>>)
        /\ runs' = [runs EXCEPT ![RunOf[k]].status = "failed"]
    BY DEF FailStep
  <1>3. steps' = [steps EXCEPT ![k] = row]
    BY DEF FailStep
  <1>4. ReduceEvent(RunOf[k], Projection(RunOf[k]), e) = After(k, row)
    <2>1. steps[k].status = "intent_recorded" /\ steps[k].nextAt = 0
      BY DEF FailStep, ActiveAttempt, ReplayInv, Replays, StepsOf,
             StorageAssumption
    <2>2. QED
      BY <2>1, FailureReduces
  <1>5. row.status = "failed" /\ row.error = error
    BY DEF FailedRow
  <1>6. ReduceEvent(RunOf[k], After(k, row), f) = Ended(k, row, "failed")
    <2> DEFINE p == After(k, row)
    <2>1. p.accepted /\ p.run.status = "running" /\ p.steps[k] = row
      BY DEF After, StepsOf
    <2> HIDE DEF p, row
    <2>2. ReduceEvent(RunOf[k], p, f) = ReduceEnd(p, TRUE, "failed")
      BY <1>5, <2>1 DEF ReduceEvent
    <2>3. QED
      BY <2>2 DEF ReduceEnd, p, After, Ended
  <1> HIDE DEF e, f, row
  <1>7. QED
    BY <1>1, <1>2, <1>3, <1>4, <1>5, <1>6, EndReplays

LEMMA CompleteReplays ==
    ASSUME StorageAssumption, StorageTypeOK, ReplayInv, NEW k \in Key,
           runs[RunOf[k]].status = "running",
           NEW w, NEW token, NEW output \in Nat \ {0}, NEW now \in Nat,
           CompleteStep(k, w, token, output, now)
    PROVE  ReplayInv'
  <1> DEFINE e == [type |-> "StepCompleted", key |-> k,
                   attempt |-> steps[k].attempts,
                   output |-> output, at |-> now]
             f == [type |-> "WorkflowRunCompleted", at |-> now]
             row == CompletedRow(steps[k], output)
  <1>1. e \in Event /\ f \in Event
    BY DEF Event, StorageTypeOK, StepRow
  <1>2. steps' = [steps EXCEPT ![k] = row] /\ steps[k].status = "intent_recorded"
    BY DEF CompleteStep, ActiveAttempt
  <1>3. ReduceEvent(RunOf[k], Projection(RunOf[k]), e) = After(k, row)
    BY <1>2, CompletionReduces
  <1>4. row.status = "completed"
    BY DEF CompletedRow
  <1>5. CASE LastStep(k)
    <2>1. /\ AppendEvents(RunOf[k], <<e, f>>)
          /\ runs' = [runs EXCEPT ![RunOf[k]].status = "completed"]
      BY <1>5 DEF CompleteStep
    <2>2. \A j \in StepsOf(RunOf[k]) \ {k} : steps[j].status = "completed"
      BY <1>5 DEF LastStep
    <2>3. ReduceEvent(RunOf[k], After(k, row), f) = Ended(k, row, "completed")
      <3> DEFINE p == After(k, row)
      <3>1. /\ p.accepted /\ p.run.status = "running"
            /\ \A j \in StepsOf(RunOf[k]) : p.steps[j].status = "completed"
        BY <1>4, <2>2 DEF After
      <3> HIDE DEF p, row
      <3>2. ReduceEvent(RunOf[k], p, f) = ReduceEnd(p, TRUE, "completed")
        BY <3>1 DEF ReduceEvent
      <3>3. QED
        BY <3>2 DEF ReduceEnd, p, After, Ended
    <2> HIDE DEF e, f, row
    <2>4. QED
      BY <1>1, <1>2, <1>3, <1>4, <2>1, <2>2, <2>3, EndReplays
  <1>6. CASE ~ LastStep(k)
    <2>1. AppendEvents(RunOf[k], <<e>>) /\ UNCHANGED runs
      BY <1>6 DEF CompleteStep
    <2>2. \E j \in StepsOf(RunOf[k]) \ {k} : steps[j].status # "completed"
      BY <1>6 DEF LastStep
    <2>3. row.status # "failed" /\ row.status # "intent_recorded"
      BY <1>4
    <2> HIDE DEF e, row
    <2>4. QED
      BY <1>1, <1>2, <1>3, <2>1, <2>2, <2>3, StepReplays
  <1>7. QED
    BY <1>5, <1>6

\* An empty database.
LEMMA InitReplays ==
    ASSUME StorageInit
    PROVE  ReplayInv
  BY DEF StorageInit, ReplayInv, Replays, EndIsEarned, NewRun, NewStep, StepsOf
=============================================================================
