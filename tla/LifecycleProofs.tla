--------------------------- MODULE LifecycleProofs ---------------------------
(***************************************************************************)
(* Worker processes and their supervisor, for any number of runs, steps,   *)
(* workers, signals and troubles: a process that has been told to stop     *)
(* claims at most once more, and one that ends in a drain leaves behind no *)
(* attempt that it still owns.                                             *)
(***************************************************************************)
EXTENDS Lifecycle, TLAPS

\* While a call goes on, the last claim of the process is the current one.
LastIsClaim == \A w \in Worker : pc[w] # "idle" => last[w] = claim[w]

\* The process has ended in the middle of whatever it did.
CutOff(w) == place[w] = "down" /\ end[w] \in {"raised", "killed"}

\* The step is in an attempt under a live lease of the worker.
Open(w, k) ==
    owner[RunOf(k)] = w /\ live[RunOf(k)] /\ step[k] = "intent_recorded"

\* From the answer on, and until the next claim, the attempt is settled or has
\* gone over to another owner.  A late heartbeat may leave the lease live.
NothingLeftOpen ==
    \A w \in Worker :
        /\ last[w] # NoKey
        /\ pc[w] = "settled" \/ (pc[w] = "idle" /\ ~ CutOff(w))
        => ~ Open(w, last[w])

\* The one claim after the signal is that of a call which had begun, and such
\* a call is followed by the condition of the loop.
AdmittedWasBegun ==
    \A w \in Worker :
        admitted[w] # 0 =>
            /\ admitted[w] = 1 /\ drain[w]
            /\ place[w] = "call" => pc[w] # "idle"
            /\ place[w] # "wait"

LifecycleInv ==
    /\ LifecycleTypeOK
    /\ LastIsClaim
    /\ NothingLeftOpen
    /\ AdmittedWasBegun

-----------------------------------------------------------------------------
(* Types. *)

\* A step belongs to a run, and NoKey is no step.
LEMMA KeyFacts ==
    \A k \in Key : k # NoKey /\ RunOf(k) \in Run
  BY ProgressAssumption DEF ProgressAssumption, NoKey, RunOf

\* A call that has claimed has a step.
LEMMA BusyHasKey ==
    ASSUME ProgressTypeOK, NEW w \in Worker, pc[w] # "idle"
    PROVE  claim[w] \in Key /\ RunOf(claim[w]) \in Run
  BY KeyFacts DEF ProgressTypeOK

\* Every step of run_once keeps the types.
LEMMA RunOnceType ==
    ASSUME ProgressTypeOK, NEW w \in Worker, RunOnce(w)
    PROVE  ProgressTypeOK'
  <1> USE ProgressAssumption DEF ProgressAssumption, ProgressTypeOK, Locations
  <1>1. CASE ClaimStep(w)
    <2>1. PICK k \in Key :
             /\ claim' = [claim EXCEPT ![w] = k]
             /\ owner' = [owner EXCEPT ![RunOf(k)] = w]
             /\ live' = [live EXCEPT ![RunOf(k)] = TRUE]
      BY <1>1 DEF ClaimStep
    <2>2. k # NoKey /\ RunOf(k) \in Run
      BY KeyFacts
    <2>3. /\ pc' = [pc EXCEPT ![w] = "claimed"]
          /\ UNCHANGED <<run, step, attempts, due, cooldown, troubles>>
      BY <1>1 DEF ClaimStep
    <2>4. claim' \in [Worker -> Key \cup {NoKey}]
      BY <2>1
    <2>5. \A v \in Worker : pc'[v] = "idle" <=> claim'[v] = NoKey
      BY <2>1, <2>2, <2>3
    <2>6. /\ owner' \in [Run -> Worker \cup {Nobody}]
          /\ live' \in [Run -> BOOLEAN]
          /\ pc' \in [Worker -> Locations]
      BY <2>1, <2>2, <2>3
    <2>7. /\ run' \in [Run -> {"absent", "running", "completed", "failed"}]
          /\ step' \in [Key -> {"pending", "intent_recorded", "retry_wait",
                                "completed", "failed"}]
          /\ attempts' \in [Key -> 0 .. MaxAttempts]
          /\ due' \in [Key -> BOOLEAN]
          /\ cooldown' \in BOOLEAN
          /\ troubles' \in 0 .. MaxTroubles
      BY <2>3
    <2>8. QED
      BY <2>4, <2>5, <2>6, <2>7, Zenon
  <1>2. CASE Record(w)
    <2>1. claim[w] \in Key
      BY <1>2, BusyHasKey DEF Record
    <2>2. CASE Holds(w)
      <3>1. /\ pc[w] = "claimed" /\ pc' = [pc EXCEPT ![w] = "intent"]
            /\ attempts' = [attempts EXCEPT ![claim[w]] =
                               IF @ < MaxAttempts THEN @ + 1 ELSE @]
            /\ step' = [step EXCEPT ![claim[w]] = "intent_recorded"]
            /\ due' = [due EXCEPT ![claim[w]] = TRUE]
            /\ UNCHANGED <<run, owner, live, cooldown, claim, troubles>>
        BY <1>2, <2>2 DEF Record, Goto
      <3>2. attempts' \in [Key -> 0 .. MaxAttempts]
        BY <2>1, <3>1
      <3>3. QED
        BY <2>1, <3>1, <3>2
    <2>3. CASE ~ Holds(w)
      BY <1>2, <2>1, <2>3 DEF Record, Goto
    <2>4. QED
      BY <2>2, <2>3
  <1>3. CASE Send(w)
    BY <1>3 DEF Send, Goto, queueVars
  <1>4. CASE Complete(w)
    <2>1. claim[w] \in Key /\ RunOf(claim[w]) \in Run
      BY <1>4, BusyHasKey DEF Complete
    <2>2. QED
      BY <1>4, <2>1 DEF Complete, Goto
  <1>5. CASE Retry(w)
    <2>1. claim[w] \in Key
      BY <1>5, BusyHasKey DEF Retry
    <2>2. QED
      BY <1>5, <2>1 DEF Retry, Goto
  <1>6. ASSUME NEW permanent \in BOOLEAN, Fail(w, permanent)
        PROVE  ProgressTypeOK'
    <2>1. claim[w] \in Key /\ RunOf(claim[w]) \in Run
      BY <1>6, BusyHasKey DEF Fail
    <2>2. QED
      BY <1>6, <2>1 DEF Fail, Goto
  <1>7. CASE Discard(w)
    BY <1>7 DEF Discard, Goto, queueVars
  <1>8. CASE Raise(w)
    BY <1>8 DEF Raise, Goto, queueVars, Trouble
  <1>9. CASE RaiseOnDelay(w)
    BY <1>9 DEF RaiseOnDelay, Goto, queueVars
  <1>10. CASE Release(w)
    <2>1. RunOf(claim[w]) \in Run
      BY <1>10, BusyHasKey DEF Release
    <2>2. live' \in [Run -> BOOLEAN]
      <3>1. [live EXCEPT ![RunOf(claim[w])] =
                IF owner[RunOf(claim[w])] = w THEN FALSE ELSE @]
            \in [Run -> BOOLEAN]
        BY <2>1
      <3>2. QED
        BY <1>10, <3>1 DEF Release
    <2>3. /\ pc' = [pc EXCEPT ![w] = "idle"]
          /\ claim' = [claim EXCEPT ![w] = NoKey]
          /\ UNCHANGED <<run, step, attempts, due, owner, cooldown, troubles>>
      BY <1>10 DEF Release
    <2>4. QED
      BY <2>2, <2>3
  <1>11. QED
    BY <1>1, <1>2, <1>3, <1>4, <1>5, <1>6, <1>7, <1>8, <1>9, <1>10 DEF RunOnce

\* So does what the world does to the queue.
LEMMA OutsideType ==
    ASSUME ProgressTypeOK, Outside
    PROVE  ProgressTypeOK'
  <1> USE ProgressAssumption DEF ProgressAssumption, ProgressTypeOK, workerVars
  <1>1. ASSUME NEW r \in Run, Submit(r)
        PROVE  ProgressTypeOK'
    BY <1>1 DEF Submit
  <1>2. ASSUME NEW r \in Run, Lapse(r)
        PROVE  ProgressTypeOK'
    BY <1>2 DEF Lapse
  <1>3. ASSUME NEW r \in Run, Lose(r)
        PROVE  ProgressTypeOK'
    BY <1>3 DEF Lose, Trouble
  <1>4. ASSUME NEW k \in Key, BecomeDue(k)
        PROVE  ProgressTypeOK'
    BY <1>4 DEF BecomeDue
  <1>5. CASE EndCooldown
    BY <1>5 DEF EndCooldown
  <1>6. QED
    BY <1>1, <1>2, <1>3, <1>4, <1>5 DEF Outside

\* A death leaves the worker idle and without a claim.
LEMMA DieType ==
    ASSUME ProgressTypeOK, NEW w \in Worker, Die(w),
           UNCHANGED troubles \/ Trouble
    PROVE  ProgressTypeOK'
  BY ProgressAssumption
     DEF ProgressAssumption, ProgressTypeOK, Locations, Die, queueVars, Trouble

\* What is left as it is keeps its type.
LEMMA StillType ==
    ASSUME ProgressTypeOK, UNCHANGED progressVars
    PROVE  ProgressTypeOK'
  BY DEF ProgressTypeOK, progressVars, queueVars, workerVars

-----------------------------------------------------------------------------
(* What a step of run_once, of the world and of a death does. *)

\* The variables of another worker's call stay.
LEMMA RunOnceIsLocal ==
    ASSUME ProgressTypeOK, NEW w \in Worker, RunOnce(w),
           NEW v \in Worker, v # w
    PROVE  pc'[v] = pc[v] /\ claim'[v] = claim[v]
  BY DEF ProgressTypeOK, RunOnce, ClaimStep, Record, Send, Complete, Retry,
         Fail, Discard, Raise, RaiseOnDelay, Release, Goto

\* No step of run_once opens an attempt for another worker.
LEMMA RunOnceOpensOwn ==
    ASSUME ProgressTypeOK, NEW w \in Worker, RunOnce(w),
           NEW v \in Worker, v # w, NEW k \in Key, Open(v, k)'
    PROVE  Open(v, k)
  <1> USE KeyFacts DEF ProgressTypeOK, Open
  <1>1. CASE ClaimStep(w)
    BY <1>1 DEF ClaimStep
  <1>2. CASE Record(w)
    <2>1. claim[w] \in Key
      BY <1>2, BusyHasKey DEF Record
    <2>2. QED
      BY <1>2, <2>1 DEF Record, Holds, Goto
  <1>3. CASE Send(w) \/ Discard(w) \/ Raise(w) \/ RaiseOnDelay(w)
    BY <1>3 DEF Send, Discard, Raise, RaiseOnDelay, Goto, queueVars
  <1>4. CASE Complete(w) \/ Retry(w) \/ Fail(w, TRUE) \/ Fail(w, FALSE)
    BY <1>4 DEF Complete, Retry, Fail
  <1>5. CASE Release(w)
    <2>1. live'[RunOf(k)] => live[RunOf(k)]
      BY <1>5 DEF Release
    <2>2. QED
      BY <1>5, <2>1 DEF Release
  <1>6. QED
    BY <1>1, <1>2, <1>3, <1>4, <1>5 DEF RunOnce

\* Nor does the world.
LEMMA OutsideOpensNothing ==
    ASSUME ProgressTypeOK, Outside,
           NEW v \in Worker, NEW k \in Key, Open(v, k)'
    PROVE  Open(v, k)
  BY KeyFacts DEF ProgressTypeOK, Open, Outside, Submit, Lapse, Lose, BecomeDue,
                  EndCooldown

\* The call that goes on keeps its claim.
LEMMA CallKeepsClaim ==
    ASSUME ProgressTypeOK, NEW w \in Worker, RunOnce(w),
           pc[w] # "idle", pc'[w] # "idle"
    PROVE  claim'[w] = claim[w]
  BY DEF ProgressTypeOK, RunOnce, ClaimStep, Record, Send, Complete, Retry,
         Fail, Discard, Raise, RaiseOnDelay, Release, Goto

\* When the call settles, the attempt is committed or the lease is gone; also
\* when it was gone before the attempt was recorded.
LEMMA CallSettles ==
    ASSUME ProgressTypeOK, NEW w \in Worker, RunOnce(w),
           pc[w] # "settled", pc'[w] = "settled"
    PROVE  ~ Open(w, claim[w])'
  <1> USE DEF ProgressTypeOK, Open
  <1>1. CASE \/ ClaimStep(w) \/ Send(w) \/ Raise(w) \/ RaiseOnDelay(w)
             \/ Release(w)
    BY <1>1 DEF ClaimStep, Send, Raise, RaiseOnDelay, Release, Goto
  <1>2. CASE Record(w)
    BY <1>2 DEF Record, Holds, Goto
  <1>3. CASE Complete(w) \/ Retry(w) \/ Fail(w, TRUE) \/ Fail(w, FALSE)
    <2>1. claim[w] \in Key
      BY <1>3, BusyHasKey DEF Complete, Retry, Fail
    <2>2. QED
      BY <1>3, <2>1 DEF Complete, Retry, Fail, Goto
  <1>4. CASE Discard(w)
    BY <1>4 DEF Discard, Holds, Goto, queueVars
  <1>5. QED
    BY <1>1, <1>2, <1>3, <1>4 DEF RunOnce

\* A call ends with its release, which opens nothing.
LEMMA CallEnds ==
    ASSUME ProgressTypeOK, NEW w \in Worker, RunOnce(w),
           pc[w] # "idle", pc'[w] = "idle"
    PROVE  /\ pc[w] \in {"settled", "raised"}
           /\ \A k \in Key : Open(w, k)' => Open(w, k)
  <1>1. Release(w)
    BY DEF ProgressTypeOK, RunOnce, ClaimStep, Record, Send, Complete, Retry,
           Fail, Discard, Raise, RaiseOnDelay, Goto
  <1>2. ASSUME NEW k \in Key
        PROVE  live'[RunOf(k)] => live[RunOf(k)]
    BY <1>1, KeyFacts DEF Release, ProgressTypeOK
  <1>3. QED
    BY <1>1, <1>2 DEF Release, Open

-----------------------------------------------------------------------------
(* Each part of the invariant is kept. *)

\* The types, by the action.
LEMMA WorkerType ==
    ASSUME LifecycleTypeOK, NEW w \in Worker, Live(w)
    PROVE  LifecycleTypeOK'
  <1> USE LifecycleAssumption, StillType
      DEF LifecycleAssumption, LifecycleTypeOK, Be, End, Ends, ownVars,
          supervisorVars
  <1>1. CASE Install(w)
    BY <1>1 DEF Install, progressVars, workerVars
  <1>2. CASE LoopForever(w)
    BY <1>2 DEF LoopForever, progressVars, workerVars
  <1>3. CASE LoopUntilTerminal(w)
    <2>1. run[Watched] \in {"absent", "running", "completed", "failed"}
      BY DEF ProgressTypeOK
    <2>2. \/ Be(w, "call") /\ UNCHANGED end
          \/ \E code \in {"0", "2", "3", "4"} : End(w, code)
      BY <1>3, <2>1, Zenon DEF LoopUntilTerminal, Be, End
    <2>3. UNCHANGED <<progressVars, ownVars, supervisorVars>>
      BY <1>3 DEF LoopUntilTerminal
    <2>4. \A v \in Worker : place[v] # "call" => pc'[v] = "idle"
      BY <2>3 DEF progressVars, workerVars
    <2>5. place[w] # "call"
      BY <1>3 DEF LoopUntilTerminal
    <2>6. QED
      BY <2>2, <2>3, <2>4, <2>5
  <1>4. CASE Work(w)
    <2>1. RunOnce(w) /\ UNCHANGED <<drain, expired, supervisorVars>>
      BY <1>4 DEF Work
    <2>2. ProgressTypeOK'
      BY <2>1, RunOnceType
    <2>3. /\ place' \in [Worker -> {"starting", "head", "call", "wait", "down"}]
          /\ end' \in [Worker -> Ends]
          /\ \A v \in Worker \ {w} : place'[v] = place[v]
          /\ pc'[w] # "idle" => place'[w] = place[w]
      BY <1>4 DEF Work
    <2>4. last' \in [Worker -> Key \cup {NoKey}]
      BY <1>4, <2>2 DEF Work, ProgressTypeOK
    <2>5. admitted' \in [Worker -> 0 .. 2]
      <3>1. [admitted EXCEPT ![w] = IF drain[w] /\ @ < 2 THEN @ + 1 ELSE @]
                \in [Worker -> 0 .. 2]
        OBVIOUS
      <3>2. QED
        BY <1>4, <3>1 DEF Work
    <2>6. \A v \in Worker : place'[v] # "call" => pc'[v] = "idle"
      <3>1. \A v \in Worker \ {w} : pc'[v] = pc[v]
        BY <2>1, RunOnceIsLocal
      <3>2. place[w] = "call"
        BY <1>4 DEF Work
      <3>3. QED
        BY <2>3, <3>1, <3>2
    <2>7. QED
      BY <2>1, <2>2, <2>3, <2>4, <2>5, <2>6
  <1>5. CASE FindNothing(w)
    BY <1>5 DEF FindNothing, progressVars, workerVars
  <1>6. CASE Wake(w)
    BY <1>6 DEF Wake, progressVars, workerVars
  <1>7. QED
    BY <1>1, <1>2, <1>3, <1>4, <1>5, <1>6 DEF Live

\* What a signal does to a process.
LEMMA ReceiveType ==
    ASSUME LifecycleTypeOK, NEW w \in Worker, Receive(w),
           UNCHANGED progressVars
    PROVE  /\ place' \in [Worker -> {"starting", "head", "call", "wait", "down"}]
           /\ drain' \in [Worker -> BOOLEAN]
           /\ end' \in [Worker -> Ends]
           /\ UNCHANGED <<last, admitted, expired>>
           /\ \A v \in Worker : place'[v] # "call" => pc'[v] = "idle"
  <1> USE DEF LifecycleTypeOK, Receive, End, Be, Ends, processVars, ownVars,
              progressVars, workerVars
  <1>1. CASE place[w] = "down"
    BY <1>1
  <1>2. CASE place[w] = "starting"
    BY <1>2
  <1>3. CASE place[w] \notin {"down", "starting"}
    BY <1>3
  <1>4. QED
    BY <1>1, <1>2, <1>3

LEMMA LifecycleTypeStep ==
    ASSUME LifecycleTypeOK, [LifecycleNext]_lifecycleVars
    PROVE  LifecycleTypeOK'
  <1> USE LifecycleAssumption DEF LifecycleAssumption, LifecycleTypeOK
  <1>1. ASSUME NEW w \in Worker, Live(w)
        PROVE  LifecycleTypeOK'
    BY <1>1, WorkerType
  <1>2. ASSUME NEW w \in Worker, Signal(w)
        PROVE  LifecycleTypeOK'
    <2>1. ProgressTypeOK'
      BY <1>2, StillType DEF Signal
    <2>2. Receive(w) /\ UNCHANGED progressVars
      BY <1>2 DEF Signal
    <2>3. UNCHANGED <<supervisor, services>> /\ signals' \in 0 .. MaxSignals
      BY <1>2 DEF Signal
    <2>4. QED
      BY <2>1, <2>2, <2>3, ReceiveType
  <1>3. ASSUME NEW w \in Worker, Die(w), UNCHANGED troubles \/ Trouble,
               UNCHANGED supervisorVars
        PROVE  LifecycleTypeOK'
    <2>1. ProgressTypeOK'
      BY <1>3, DieType
    <2>2. /\ pc' = [pc EXCEPT ![w] = "idle"]
          /\ place' = [place EXCEPT ![w] = "down"]
          /\ end' = [end EXCEPT ![w] = "killed"]
          /\ UNCHANGED <<drain, last, admitted, expired,
                         supervisor, services, signals>>
      BY <1>3 DEF Die, End, Be, ownVars, supervisorVars
    <2>3. end' \in [Worker -> Ends]
      BY <2>2 DEF Ends
    <2>4. \A v \in Worker : place'[v] # "call" => pc'[v] = "idle"
      BY <2>2 DEF ProgressTypeOK
    <2>5. QED
      BY <2>1, <2>2, <2>3, <2>4
  <1>4. CASE Outside
    <2>1. ProgressTypeOK'
      BY <1>4, OutsideType
    <2>2. UNCHANGED pc
      BY <1>4 DEF Outside, Submit, Lapse, Lose, BecomeDue, EndCooldown,
                  workerVars
    <2>3. QED
      BY <1>4, <2>1, <2>2 DEF Outside, besides, processVars, ownVars,
                              supervisorVars
  <1>5. ASSUME NEW w \in Pool, Restart(w)
        PROVE  LifecycleTypeOK'
    <2>1. ProgressTypeOK'
      BY <1>5, StillType DEF Restart
    <2>2. QED
      BY <1>5, <2>1 DEF Restart, Ends, Be, supervisorVars, progressVars, workerVars
  <1>6. CASE Terminate
    <2>1. ProgressTypeOK'
      BY <1>6, StillType DEF Terminate
    <2>2. QED
      BY <1>6, <2>1 DEF Terminate, Ends, progressVars, workerVars
  <1>7. CASE Expire \/ RequestStop \/ Deadline \/ Leave
    <2>1. ProgressTypeOK'
      BY <1>7, StillType DEF Expire, RequestStop, Deadline, Leave
    <2>2. CASE Expire
      BY <2>1, <2>2 DEF Expire, supervisorVars, progressVars, workerVars
    <2>3. CASE RequestStop \/ Deadline \/ Leave
      <3>1. /\ supervisor' \in {"stopping", "killing", "gone"}
            /\ signals' \in 0 .. MaxSignals /\ UNCHANGED services
            /\ UNCHANGED <<processVars, progressVars>>
        BY <2>3 DEF RequestStop, Deadline, Leave
      <3>2. QED
        BY <2>1, <3>1 DEF processVars, ownVars, progressVars, workerVars
    <2>4. QED
      BY <1>7, <2>2, <2>3
  <1>8. ASSUME NEW s \in Service, ServiceEnds(s)
        PROVE  LifecycleTypeOK'
    <2>1. ProgressTypeOK'
      <3>1. troubles' \in 0 .. MaxTroubles
        BY <1>8, ProgressAssumption
           DEF ServiceEnds, Trouble, ProgressAssumption, ProgressTypeOK
      <3>2. QED
        BY <1>8, <3>1 DEF ServiceEnds, ProgressTypeOK, queueVars, workerVars
    <2>2. QED
      BY <1>8, <2>1 DEF ServiceEnds, processVars, ownVars, workerVars
  <1>9. CASE UNCHANGED lifecycleVars
    BY <1>9, StillType DEF lifecycleVars, progressVars, workerVars,
                           processVars, ownVars, supervisorVars
  <1>10. QED
    BY <1>1, <1>2, <1>3, <1>4, <1>5, <1>6, <1>7, <1>8, <1>9
       DEF LifecycleNext, Kill, KillRest, supervisorVars

\* A process's own step begins, goes on with or ends a call with its claim.
LEMMA WorkIsLocal ==
    ASSUME LifecycleTypeOK, NEW w \in Worker, Work(w),
           NEW v \in Worker, v # w
    PROVE  /\ pc'[v] = pc[v] /\ claim'[v] = claim[v]
           /\ last'[v] = last[v] /\ admitted'[v] = admitted[v]
           /\ place'[v] = place[v] /\ end'[v] = end[v]
  BY RunOnceIsLocal DEF Work, LifecycleTypeOK, Be, End

LEMMA LastIsClaimStep ==
    ASSUME LifecycleTypeOK, LastIsClaim, [LifecycleNext]_lifecycleVars
    PROVE  LastIsClaim'
  <1> USE DEF LifecycleTypeOK, LastIsClaim
  <1>1. ASSUME NEW w \in Worker, Work(w)
        PROVE  LastIsClaim'
    <2>1. \A v \in Worker \ {w} : pc'[v] # "idle" => last'[v] = claim'[v]
      BY <1>1, WorkIsLocal
    <2>2. pc'[w] # "idle" => last'[w] = claim'[w]
      <3>1. CASE pc[w] = "idle"
        BY <1>1, <3>1 DEF Work
      <3>2. CASE pc[w] # "idle"
        BY <1>1, <3>2, CallKeepsClaim DEF Work
      <3>3. QED
        BY <3>1, <3>2
    <2>3. QED
      BY <2>1, <2>2
  <1>2. ASSUME NEW w \in Worker, Live(w), ~ Work(w)
        PROVE  LastIsClaim'
    BY <1>2 DEF Live, Install, LoopForever, LoopUntilTerminal, FindNothing, Wake,
                ownVars, progressVars, workerVars
  <1>3. ASSUME NEW w \in Worker, Signal(w)
        PROVE  LastIsClaim'
    BY <1>3, ReceiveType DEF Signal, progressVars, workerVars
  <1>4. ASSUME NEW w \in Worker, Die(w)
        PROVE  LastIsClaim'
    BY <1>4 DEF Die, ownVars, ProgressTypeOK
  <1>5. CASE Outside
    BY <1>5 DEF Outside, Submit, Lapse, Lose, BecomeDue, EndCooldown, workerVars,
                besides, processVars, ownVars
  <1>6. ASSUME NEW w \in Pool, Restart(w)
        PROVE  LastIsClaim'
    BY <1>6, LifecycleAssumption
       DEF Restart, LifecycleAssumption, progressVars, workerVars
  <1>7. CASE Terminate \/ Expire \/ RequestStop \/ Deadline \/ Leave
    BY <1>7 DEF Terminate, Expire, RequestStop, Deadline, Leave, processVars,
                ownVars, progressVars, workerVars
  <1>8. ASSUME NEW s \in Service, ServiceEnds(s)
        PROVE  LastIsClaim'
    BY <1>8 DEF ServiceEnds, processVars, ownVars, workerVars
  <1>9. CASE UNCHANGED lifecycleVars
    BY <1>9 DEF lifecycleVars, progressVars, workerVars, processVars, ownVars
  <1>10. QED
    BY <1>1, <1>2, <1>3, <1>4, <1>5, <1>6, <1>7, <1>8, <1>9, LifecycleAssumption
       DEF LifecycleNext, Kill, KillRest, LifecycleAssumption

\* Nothing becomes open while the attempts and claims stay as they are and only
\* a new process forgets how the last one was cut off.
LEMMA StillSettled ==
    ASSUME NothingLeftOpen,
           UNCHANGED <<queueVars, pc>>,
           \A w \in Worker :
              \/ last'[w] = NoKey
              \/ last'[w] = last[w] /\ (CutOff(w) => CutOff(w)')
    PROVE  NothingLeftOpen'
  BY DEF NothingLeftOpen, Open, queueVars

LEMMA NothingLeftOpenStep ==
    ASSUME LifecycleTypeOK, LastIsClaim, NothingLeftOpen,
           [LifecycleNext]_lifecycleVars
    PROVE  NothingLeftOpen'
  <1> USE DEF LifecycleTypeOK
  <1>1. ASSUME NEW w \in Worker, Work(w)
        PROVE  NothingLeftOpen'
    <2>1. SUFFICES ASSUME NEW v \in Worker, last'[v] # NoKey, Open(v, last[v])',
                          \/ pc'[v] = "settled"
                          \/ pc'[v] = "idle" /\ ~ CutOff(v)'
                   PROVE  FALSE
      BY DEF NothingLeftOpen, Open
    <2>2. RunOnce(w) /\ place[w] = "call"
      BY <1>1 DEF Work
    <2>3. CASE v # w
      <3>1. /\ last'[v] = last[v] /\ pc'[v] = pc[v] /\ CutOff(v)' = CutOff(v)
        BY <1>1, <2>3, WorkIsLocal DEF CutOff
      <3>2. last[v] \in Key
        BY <2>1, <3>1
      <3>3. Open(v, last[v])
        BY <2>1, <2>2, <2>3, <3>1, <3>2, RunOnceOpensOwn DEF Open
      <3>4. QED
        BY <2>1, <3>1, <3>3 DEF NothingLeftOpen
    <2>4. CASE v = w /\ pc[w] = "idle"
      BY <2>1, <2>2, <2>4
         DEF RunOnce, ClaimStep, Record, Send, Complete, Retry, Fail, Discard,
             Raise, RaiseOnDelay, Release, ProgressTypeOK
    <2>5. CASE v = w /\ pc[w] # "idle"
      <3>1. last'[w] = last[w] /\ last[w] = claim[w] /\ claim[w] \in Key
        BY <1>1, <2>5, BusyHasKey DEF Work, LastIsClaim
      <3>2. CASE pc'[w] = "settled"
        <4>1. pc[w] # "settled"
          BY <2>2, <3>2
             DEF RunOnce, ClaimStep, Record, Send, Complete, Retry, Fail,
                 Discard, Raise, RaiseOnDelay, Release, Goto, ProgressTypeOK
        <4>2. claim'[w] = claim[w]
          BY <2>2, <2>5, <3>2, CallKeepsClaim
        <4>3. QED
          BY <2>1, <2>2, <2>5, <3>1, <3>2, <4>1, <4>2, CallSettles DEF Open
      <3>3. CASE pc'[w] = "idle" /\ ~ CutOff(w)'
        <4>1. /\ pc[w] \in {"settled", "raised"}
              /\ \A k \in Key : Open(w, k)' => Open(w, k)
          BY <2>2, <2>5, <3>3, CallEnds
        <4>2. pc[w] # "raised"
          BY <1>1, <3>3 DEF Work, End, Be, CutOff
        <4>3. Open(w, last[w])
          BY <2>1, <2>5, <3>1, <4>1 DEF Open
        <4>4. QED
          BY <3>1, <4>1, <4>2, <4>3, KeyFacts DEF NothingLeftOpen
      <3>4. QED
        BY <2>1, <2>5, <3>2, <3>3
    <2>6. QED
      BY <2>3, <2>4, <2>5
  <1>2. ASSUME NEW w \in Worker, Live(w), ~ Work(w)
        PROVE  NothingLeftOpen'
    <2>1. UNCHANGED <<queueVars, pc, last>>
      BY <1>2 DEF Live, Install, LoopForever, LoopUntilTerminal, FindNothing,
                  Wake, ownVars, progressVars, workerVars
    <2>2. /\ place[w] # "down"
          /\ \A v \in Worker \ {w} : place'[v] = place[v] /\ end'[v] = end[v]
      <3>1. CASE Install(w) \/ LoopForever(w) \/ FindNothing(w) \/ Wake(w)
        BY <3>1 DEF Install, LoopForever, FindNothing, Wake, Be, End
      <3>2. CASE LoopUntilTerminal(w)
        <4>1. run[Watched] \in {"absent", "running", "completed", "failed"}
          BY LifecycleAssumption DEF LifecycleAssumption, ProgressTypeOK
        <4>2. QED
          BY <3>2, <4>1 DEF LoopUntilTerminal, Be, End
      <3>3. QED
        BY <1>2, <3>1, <3>2 DEF Live
    <2>3. QED
      BY <2>1, <2>2, StillSettled DEF CutOff
  <1>3. ASSUME NEW w \in Worker, Signal(w)
        PROVE  NothingLeftOpen'
    <2>1. UNCHANGED <<queueVars, pc, last>>
      BY <1>3, ReceiveType DEF Signal, progressVars, workerVars
    <2>2. \A v \in Worker : CutOff(v) => CutOff(v)'
      BY <1>3 DEF Signal, Receive, End, Be, processVars, CutOff
    <2>3. QED
      BY <2>1, <2>2, StillSettled
  <1>4. ASSUME NEW w \in Worker, Die(w)
        PROVE  NothingLeftOpen'
    <2>1. UNCHANGED <<queueVars, last>> /\ CutOff(w)' /\ pc'[w] = "idle"
      BY <1>4 DEF Die, End, Be, CutOff, ownVars, ProgressTypeOK
    <2>2. \A v \in Worker \ {w} : pc'[v] = pc[v] /\ CutOff(v)' = CutOff(v)
      BY <1>4 DEF Die, End, Be, CutOff, ProgressTypeOK
    <2>3. QED
      BY <2>1, <2>2 DEF NothingLeftOpen, Open, queueVars
  <1>5. CASE Outside
    <2>1. UNCHANGED <<pc, last>> /\ \A v \in Worker : CutOff(v)' = CutOff(v)
      BY <1>5 DEF Outside, Submit, Lapse, Lose, BecomeDue, EndCooldown,
                  workerVars, besides, processVars, ownVars, CutOff
    <2>2. \A v \in Worker :
             last[v] # NoKey /\ Open(v, last[v])' => Open(v, last[v])
      BY <1>5, <2>1, OutsideOpensNothing DEF Open
    <2>3. QED
      BY <2>1, <2>2 DEF NothingLeftOpen
  <1>6. ASSUME NEW w \in Pool, Restart(w)
        PROVE  NothingLeftOpen'
    <2>1. UNCHANGED <<queueVars, pc>> /\ last'[w] = NoKey
      BY <1>6, LifecycleAssumption
         DEF Restart, LifecycleAssumption, progressVars, workerVars
    <2>2. \A v \in Worker \ {w} : last'[v] = last[v] /\ CutOff(v)' = CutOff(v)
      BY <1>6 DEF Restart, Be, CutOff
    <2>3. QED
      BY <2>1, <2>2, StillSettled
  <1>7. CASE Terminate
    <2>1. UNCHANGED <<queueVars, pc, last>>
      BY <1>7 DEF Terminate, progressVars, workerVars
    <2>2. \A v \in Worker : CutOff(v) => CutOff(v)'
      BY <1>7 DEF Terminate, CutOff
    <2>3. QED
      BY <2>1, <2>2, StillSettled
  <1>8. CASE Expire \/ RequestStop \/ Deadline \/ Leave \/ UNCHANGED lifecycleVars
    <2>1. UNCHANGED <<queueVars, pc, last, place, end>>
      BY <1>8 DEF Expire, RequestStop, Deadline, Leave, lifecycleVars,
                  processVars, ownVars, progressVars, workerVars
    <2>2. QED
      BY <2>1, StillSettled DEF CutOff
  <1>9. ASSUME NEW s \in Service, ServiceEnds(s)
        PROVE  NothingLeftOpen'
    <2>1. UNCHANGED <<queueVars, pc, last, place, end>>
      BY <1>9 DEF ServiceEnds, processVars, ownVars, workerVars
    <2>2. QED
      BY <2>1, StillSettled DEF CutOff
  <1>10. QED
    BY <1>1, <1>2, <1>3, <1>4, <1>5, <1>6, <1>7, <1>8, <1>9, LifecycleAssumption
       DEF LifecycleNext, Kill, KillRest, LifecycleAssumption

LEMMA AdmittedWasBegunStep ==
    ASSUME LifecycleTypeOK, AdmittedWasBegun, [LifecycleNext]_lifecycleVars
    PROVE  AdmittedWasBegun'
  <1> USE DEF LifecycleTypeOK, AdmittedWasBegun
  <1>1. ASSUME NEW w \in Worker, Work(w)
        PROVE  AdmittedWasBegun'
    <2>1. \A v \in Worker \ {w} : /\ admitted'[v] = admitted[v]
                                  /\ place'[v] = place[v] /\ pc'[v] = pc[v]
      BY <1>1, WorkIsLocal
    <2>2. /\ RunOnce(w) /\ place[w] = "call" /\ UNCHANGED drain
          /\ place'[w] \in {"call", "head", "down"}
          /\ place'[w] = "call" => pc'[w] # "idle"
      BY <1>1 DEF Work, Be, End
    <2>3. admitted'[w] # 0 => admitted'[w] = 1 /\ drain[w]
      BY <1>1, <2>2 DEF Work
    <2>4. QED
      BY <2>1, <2>2, <2>3
  <1>2. ASSUME NEW w \in Worker, Live(w), ~ Work(w)
        PROVE  AdmittedWasBegun'
    <2>1. UNCHANGED <<drain, admitted, pc>>
      BY <1>2 DEF Live, Install, LoopForever, LoopUntilTerminal, FindNothing,
                  Wake, ownVars, progressVars, workerVars
    <2>2. \A v \in Worker \ {w} : place'[v] = place[v]
      <3>1. CASE Install(w) \/ LoopForever(w) \/ FindNothing(w) \/ Wake(w)
        BY <3>1 DEF Install, LoopForever, FindNothing, Wake, Be, End
      <3>2. CASE LoopUntilTerminal(w)
        <4>1. run[Watched] \in {"absent", "running", "completed", "failed"}
          BY LifecycleAssumption DEF LifecycleAssumption, ProgressTypeOK
        <4>2. QED
          BY <3>2, <4>1 DEF LoopUntilTerminal, Be, End
      <3>3. QED
        BY <1>2, <3>1, <3>2 DEF Live
    <2>3. admitted[w] # 0 => place'[w] \in {"head", "down"}
      <3>1. CASE Install(w) \/ LoopForever(w) \/ FindNothing(w) \/ Wake(w)
        BY <3>1 DEF Install, LoopForever, FindNothing, Wake, Be, End
      <3>2. CASE LoopUntilTerminal(w)
        BY <3>2 DEF LoopUntilTerminal, Be, End
      <3>3. QED
        BY <1>2, <3>1, <3>2 DEF Live
    <2>4. QED
      BY <2>1, <2>2, <2>3
  <1>3. ASSUME NEW w \in Worker, Signal(w)
        PROVE  AdmittedWasBegun'
    <2>1. UNCHANGED <<admitted, pc>>
      BY <1>3, ReceiveType DEF Signal, progressVars, workerVars
    <2>2. \A v \in Worker :
             (drain[v] => drain'[v]) /\ place'[v] \in {place[v], "down"}
      BY <1>3 DEF Signal, Receive, End, Be, processVars, ownVars
    <2>3. QED
      BY <2>1, <2>2
  <1>4. ASSUME NEW w \in Worker, Die(w)
        PROVE  AdmittedWasBegun'
    <2>1. UNCHANGED <<drain, admitted>> /\ place'[w] = "down"
      BY <1>4 DEF Die, End, Be, ownVars
    <2>2. \A v \in Worker \ {w} : place'[v] = place[v] /\ pc'[v] = pc[v]
      BY <1>4 DEF Die, End, Be, ProgressTypeOK
    <2>3. QED
      BY <2>1, <2>2
  <1>5. CASE Outside
    BY <1>5 DEF Outside, Submit, Lapse, Lose, BecomeDue, EndCooldown,
                workerVars, besides, processVars, ownVars
  <1>6. ASSUME NEW w \in Pool, Restart(w)
        PROVE  AdmittedWasBegun'
    BY <1>6, LifecycleAssumption
       DEF Restart, Be, LifecycleAssumption, progressVars, workerVars
  <1>7. CASE Terminate
    BY <1>7 DEF Terminate, progressVars, workerVars
  <1>8. CASE Expire \/ RequestStop \/ Deadline \/ Leave \/ UNCHANGED lifecycleVars
    BY <1>8 DEF Expire, RequestStop, Deadline, Leave, lifecycleVars,
                processVars, ownVars, progressVars, workerVars
  <1>9. ASSUME NEW s \in Service, ServiceEnds(s)
        PROVE  AdmittedWasBegun'
    BY <1>9 DEF ServiceEnds, processVars, ownVars, workerVars
  <1>10. QED
    BY <1>1, <1>2, <1>3, <1>4, <1>5, <1>6, <1>7, <1>8, <1>9, LifecycleAssumption
       DEF LifecycleNext, Kill, KillRest, LifecycleAssumption

-----------------------------------------------------------------------------
(* The invariant holds, and what follows from it. *)

LEMMA LifecycleInitInv == LifecycleInit => LifecycleInv
  <1> SUFFICES ASSUME LifecycleInit
               PROVE  LifecycleInv
    OBVIOUS
  <1> USE DEF LifecycleInit, Init
  <1>1. ProgressTypeOK
    <2>1. MaxAttempts \in Nat /\ MaxTroubles \in Nat
      BY ProgressAssumption DEF ProgressAssumption
    <2>2. /\ pc \in [Worker -> Locations]
          /\ claim \in [Worker -> Key \cup {NoKey}]
          /\ \A w \in Worker : pc[w] = "idle" <=> claim[w] = NoKey
      BY DEF Locations
    <2>3. /\ run \in [Run -> {"absent", "running", "completed", "failed"}]
          /\ step \in [Key -> {"pending", "intent_recorded", "retry_wait",
                               "completed", "failed"}]
          /\ attempts \in [Key -> 0 .. MaxAttempts]
          /\ due \in [Key -> BOOLEAN]
          /\ owner \in [Run -> Worker \cup {Nobody}]
          /\ live \in [Run -> BOOLEAN]
          /\ troubles \in 0 .. MaxTroubles
      BY <2>1
    <2>4. cooldown \in BOOLEAN
      BY Zenon
    <2>5. QED
      BY <2>2, <2>3, <2>4, Zenon DEF ProgressTypeOK
  <1>2. LifecycleTypeOK
    <2>1. /\ place \in [Worker -> {"starting", "head", "call", "wait", "down"}]
          /\ end \in [Worker -> Ends]
          /\ last \in [Worker -> Key \cup {NoKey}]
          /\ admitted \in [Worker -> 0 .. 2]
          /\ drain \in [Worker -> BOOLEAN]
      BY DEF Ends
    <2>2. expired \in BOOLEAN
      BY Zenon
    <2>3. /\ services \subseteq Service
          /\ supervisor \in {"monitoring", "stopping", "waiting", "killing", "gone"}
          /\ signals \in 0 .. MaxSignals
          /\ \A w \in Worker : pc[w] = "idle"
      BY LifecycleAssumption DEF LifecycleAssumption
    <2>4. QED
      BY <1>1, <2>1, <2>2, <2>3, Zenon DEF LifecycleTypeOK
  <1>3. LastIsClaim /\ NothingLeftOpen /\ AdmittedWasBegun
    BY DEF LastIsClaim, NothingLeftOpen, AdmittedWasBegun
  <1>4. QED
    BY <1>2, <1>3 DEF LifecycleInv

\* The strengthened invariant holds in every state of the processes.
THEOREM LifecycleSafety == LifecycleSpec => []LifecycleInv
  <1>1. LifecycleInit => LifecycleInv
    BY LifecycleInitInv
  <1>2. LifecycleInv /\ [LifecycleNext]_lifecycleVars => LifecycleInv'
    BY LifecycleTypeStep, LastIsClaimStep, NothingLeftOpenStep,
       AdmittedWasBegunStep
       DEF LifecycleInv
  <1>3. QED
    BY <1>1, <1>2, PTL DEF LifecycleSpec

\* The processes, the queue and the supervisor stay well formed.
THEOREM LifecycleTypeCorrect == LifecycleSpec => []LifecycleTypeOK
  <1>1. LifecycleInv => LifecycleTypeOK
    BY DEF LifecycleInv
  <1>2. QED
    BY <1>1, LifecycleSafety, PTL

\* The documents promise no claim after the signal; what the code keeps of it:
\* a process claims at most once more, the step of a run_once already begun.
THEOREM AlwaysAdmitsAtMostOne == LifecycleSpec => []AdmitsAtMostOne
  <1>1. LifecycleInv => AdmitsAtMostOne
    BY DEF LifecycleInv, LifecycleTypeOK, AdmittedWasBegun, AdmitsAtMostOne
  <1>2. QED
    BY <1>1, LifecycleSafety, PTL

\* "... commit it, then exit": a worker that ends in a drain, or because the
\* run it waits for has ended or its time is over, leaves no attempt behind
\* that it still owns; whatever the other workers, the supervisor and the
\* leases do meanwhile.
THEOREM DrainAlwaysSettles == LifecycleSpec => []DrainSettles
  <1>1. LifecycleInv => DrainSettles
    <2>1. ASSUME LifecycleInv, NEW w \in Worker, Unsettled(w),
                 end[w] \in {"drained", "0", "2", "3"}
          PROVE  FALSE
      <3>1. pc[w] = "idle" /\ ~ CutOff(w) /\ last[w] # NoKey
        BY <2>1 DEF LifecycleInv, LifecycleTypeOK, CutOff, Unsettled
      <3>2. Open(w, last[w])
        BY <2>1 DEF Unsettled, Open
      <3>3. QED
        BY <2>1, <3>1, <3>2 DEF LifecycleInv, NothingLeftOpen
    <2>2. QED
      BY <2>1 DEF DrainSettles
  <1>2. QED
    BY <1>1, LifecycleSafety, PTL
=============================================================================
