------------------------------- MODULE Timeline -------------------------------
(***************************************************************************)
(* The operational view of a run (crashsafe/observability.py,              *)
(* build_timeline): a fold over its history into times since the creation, *)
(* counts, planned waits and durations.  Its status is the reducer's; the  *)
(* details in words and the terminal rendering are left out, and times are *)
(* not rounded to milliseconds.                                            *)
(*                                                                         *)
(* The view has no state of its own, so that what it says of a run can be  *)
(* compared with what the engine's rows and clock say.                     *)
(***************************************************************************)
EXTENDS Engine

NotYet == 0

\* first_attempt_at.setdefault
StartDuration(t, e) ==
    IF t.first[e.key] = NotYet THEN [t EXCEPT !.first[e.key] = e.at] ELSE t

\* Plausible bug: the deadline itself is taken for the wait.
WholeWait(e) == e.until

\* The wait is planned from the event on; the deadline may be older than it.
Wait(e) == IF e.until > e.at THEN e.until - e.at ELSE 0

\* Plausible bug: a retry is an attempt of its own.
CountRetryTwice(t, e) ==
    [t EXCEPT !.retries = @ + 1, !.attempts = @ + 1,
              !.plannedWait = @ + Wait(e)]

CountRetry(t, e) == [t EXCEPT !.retries = @ + 1, !.plannedWait = @ + Wait(e)]

AddEvent(t, e) ==
    CASE e.type = "StepAttemptStarted" ->
            [StartDuration(t, e) EXCEPT !.attempts = @ + 1]
      [] e.type = "StepRetryScheduled" -> CountRetry(t, e)
      [] e.type = "StepCompleted" ->
            [t EXCEPT !.took[e.key] = e.at - t.first[e.key],
                      !.completed = @ \cup {e.key}]
      [] OTHER -> t

Blank(r) ==
    [attempts |-> 0, retries |-> 0, plannedWait |-> 0,
     first |-> [k \in StepsOf(r) |-> NotYet],
     took |-> [k \in StepsOf(r) |-> 0], completed |-> {}]

\* The loop over the events: what it holds after the n-th one.
Tally(r, history) ==
    LET tally[n \in 0 .. Len(history)] ==
          IF n = 0 THEN Blank(r) ELSE AddEvent(tally[n - 1], history[n])
    IN  tally

\* The summary of a history whose first event is the run's creation.
Summary(r) ==
    LET history == events[r]
        tally == Tally(r, history)[Len(history)]
    IN  [elapsed |-> history[Len(history)].at - history[1].at,
         attempts |-> tally.attempts, retries |-> tally.retries,
         plannedWait |-> tally.plannedWait,
         duration |-> [k \in tally.completed |-> tally.took[k]]]

Accepted == {r \in Run : runs[r].status # "absent"}

-----------------------------------------------------------------------------
(* Properties. *)

Having(r, status) == {k \in StepsOf(r) : steps[k].status = status}

\* The attempts that the rows of the run's steps count.
CountedAttempts(r) == UNION {{k} \X (1 .. steps[k].attempts) : k \in StepsOf(r)}

\* Every attempt is accounted for: it was retried, completed or failed its
\* step, or it is open or lost.  A run without an open attempt has lost
\* exactly the difference, and no retry is counted without its attempt.
SummaryAddsUp ==
    \A r \in Accepted :
        LET s == Summary(r)
            closed == s.retries + Cardinality(Having(r, "completed"))
                                + Cardinality(Having(r, "failed"))
        IN  /\ s.attempts = Cardinality(CountedAttempts(r))
            /\ closed <= s.attempts
            /\ DOMAIN s.duration = Having(r, "completed")

\* A run whose steps come one after the other: a step depends on one that is as
\* late as any step before it, and no two have the same place.
Chained(r) ==
    \A j, k \in StepsOf(r) : (j # k /\ Position[j] <= Position[k]) =>
        \E d \in DependsOn[k] :
            Position[j] <= Position[d] /\ Position[d] < Position[k]

\* The first attempt and the completion lie within the run: the duration of a
\* step is neither negative nor longer than the run's.  In a chain one step
\* waits at a time and every planned wait is observed, whoever takes the step
\* over: a completed run has lasted at least as long as it planned to wait.
TimesFit ==
    \A r \in Accepted :
        LET s == Summary(r)
        IN  /\ \A k \in Having(r, "completed") :
                  s.duration[k] \in 0 .. s.elapsed
            /\ (runs[r].status = "completed" /\ Chained(r))
                  => s.plannedWait <= s.elapsed
=============================================================================
