------------------------------ MODULE Lifecycle ------------------------------
(***************************************************************************)
(* Worker processes from their start to their end (crashsafe/worker.py)    *)
(* and the supervisor that keeps a pool of them alive and stops it         *)
(* (crashsafe/supervisor.py), around the run_once of Progress.             *)
(*                                                                         *)
(*   starting --signal handlers--> head --run_once--> call --> head ...    *)
(*   head --drain requested--> down           call --exception--> down     *)
(*                                                                         *)
(*   monitoring --signal or dead service--> stopping --SIGTERM to all-->   *)
(*   waiting --all have ended, or five seconds and SIGKILL--> gone         *)
(*                                                                         *)
(* The pool runs run_forever.  The other workers are started by hand, with *)
(* --until-terminal.                                                       *)
(***************************************************************************)
EXTENDS Progress

CONSTANTS
    Pool,           \* the supervisor's worker slots
    Watched,        \* the run that the workers outside the pool wait for
    MaxSignals      \* bound: SIGTERM and SIGINT from outside

LifecycleAssumption ==
    /\ Pool \subseteq Worker
    /\ Watched \in Run
    /\ MaxSignals \in Nat

ASSUME LifecycleAssumption

Service == {"tool", "api"}

VARIABLES
    place,      \* where the process of each worker is
    drain,      \* _drain_requested
    end,        \* how the process has ended
    last,       \* the last step that the process has claimed
    admitted,   \* claims of the process since its signal, up to 2
    expired,    \* the deadline of --until-terminal has passed
    supervisor, \* where the supervisor is
    services,   \* which of the tool and the API run
    signals     \* signals from outside so far

ownVars == <<drain, last, admitted, expired>>
processVars == <<place, end, ownVars>>
supervisorVars == <<supervisor, services, signals>>
besides == <<processVars, supervisorVars>>
lifecycleVars == <<progressVars, processVars, supervisorVars>>

LifecycleInit ==
    /\ Init
    /\ place = [w \in Worker |-> "starting"]
    /\ drain = [w \in Worker |-> FALSE]
    /\ end = [w \in Worker |-> "none"]
    /\ last = [w \in Worker |-> NoKey]
    /\ admitted = [w \in Worker |-> 0]
    /\ expired = FALSE
    /\ supervisor = "monitoring"
    /\ services = Service
    /\ signals = 0

Ends == {"none", "drained", "raised", "killed", "0", "2", "3", "4"}

LifecycleTypeOK ==
    /\ ProgressTypeOK
    /\ place \in [Worker -> {"starting", "head", "call", "wait", "down"}]
    /\ drain \in [Worker -> BOOLEAN]
    /\ end \in [Worker -> Ends]
    /\ last \in [Worker -> Key \cup {NoKey}]
    /\ admitted \in [Worker -> 0 .. 2]
    /\ expired \in BOOLEAN
    /\ supervisor \in {"monitoring", "stopping", "waiting", "killing", "gone"}
    /\ services \subseteq Service
    /\ signals \in 0 .. MaxSignals
    /\ \A w \in Worker : place[w] # "call" => pc[w] = "idle"

-----------------------------------------------------------------------------
(* A worker process. *)

Be(w, where) == place' = [place EXCEPT ![w] = where]

\* The process ends with an exit code or by a signal.
End(w, how) == Be(w, "down") /\ end' = [end EXCEPT ![w] = how]

\* main: the signal handlers are in place.
Install(w) ==
    /\ place[w] = "starting"
    /\ Be(w, "head")
    /\ UNCHANGED <<progressVars, end, ownVars, supervisorVars>>

\* Plausible bug: the flag ends the waiting, but not the loop.
LoopOn(w) ==
    /\ w \in Pool /\ place[w] = "head"
    /\ Be(w, "call")
    /\ UNCHANGED <<progressVars, end, ownVars, supervisorVars>>

\* run_forever: the condition of its loop.
LoopForever(w) ==
    /\ w \in Pool /\ place[w] = "head"
    /\ IF drain[w] THEN End(w, "drained") ELSE Be(w, "call") /\ UNCHANGED end
    /\ UNCHANGED <<progressVars, ownVars, supervisorVars>>

\* run_until_terminal: the condition of its loop, then get_workflow_run.
LoopUntilTerminal(w) ==
    /\ w \notin Pool /\ place[w] = "head"
    /\ IF drain[w] \/ expired THEN End(w, "3")
       ELSE CASE run[Watched] = "absent" -> End(w, "4")
              [] run[Watched] = "completed" -> End(w, "0")
              [] run[Watched] = "failed" -> End(w, "2")
              [] run[Watched] = "running" -> Be(w, "call") /\ UNCHANGED end
    /\ UNCHANGED <<progressVars, ownVars, supervisorVars>>

\* One step of run_once; an exception ends the process.
Work(w) ==
    /\ place[w] = "call"
    /\ RunOnce(w)
    /\ IF pc'[w] = "idle"
       THEN IF pc[w] = "raised" THEN End(w, "raised")
                                ELSE Be(w, "head") /\ UNCHANGED end
       ELSE UNCHANGED <<place, end>>
    /\ IF pc[w] = "idle"
       THEN /\ last' = [last EXCEPT ![w] = claim'[w]]
            /\ admitted' = [admitted EXCEPT ![w] =
                               IF drain[w] /\ @ < 2 THEN @ + 1 ELSE @]
       ELSE UNCHANGED <<last, admitted>>
    /\ UNCHANGED <<drain, expired, supervisorVars>>

\* run_once finds nothing to do: _drain_requested.wait(poll_interval).
FindNothing(w) ==
    /\ place[w] = "call" /\ pc[w] = "idle"
    /\ \A k \in Key : ~ Eligible(k)
    /\ Be(w, "wait")
    /\ UNCHANGED <<progressVars, end, ownVars, supervisorVars>>

\* The interval is over, or the flag is set.
Wake(w) ==
    /\ place[w] = "wait"
    /\ Be(w, "head")
    /\ UNCHANGED <<progressVars, end, ownVars, supervisorVars>>

\* Plausible bug: the handler leaves the process itself, in mid-attempt.
ReceiveAndExit(w) ==
    CASE place[w] = "down" -> UNCHANGED processVars
      [] OTHER -> End(w, "drained") /\ UNCHANGED ownVars

\* SIGTERM or SIGINT: sets the flag, wherever the process is, and kills it
\* before its handlers are in place.
Receive(w) ==
    CASE place[w] = "down" -> UNCHANGED processVars
      [] place[w] = "starting" ->
            End(w, "killed") /\ UNCHANGED ownVars
      [] OTHER ->
            /\ drain' = [drain EXCEPT ![w] = TRUE]
            /\ UNCHANGED <<place, end, last, admitted, expired>>

\* An orchestrator or a user signals one worker.
Signal(w) ==
    /\ place[w] # "down" /\ signals < MaxSignals
    /\ signals' = signals + 1
    /\ Receive(w)
    /\ UNCHANGED <<progressVars, supervisor, services>>

\* Plausible bug: the slot's work is taken for the next process's.
DieAlone(w) ==
    /\ End(w, "killed")
    /\ UNCHANGED <<queueVars, workerVars, ownVars>>

\* The process is killed in whatever it does; SQLite keeps what is committed.
Die(w) ==
    /\ pc' = [pc EXCEPT ![w] = "idle"]
    /\ claim' = [claim EXCEPT ![w] = NoKey]
    /\ End(w, "killed")
    /\ UNCHANGED <<queueVars, ownVars>>

Kill(w) ==
    /\ place[w] # "down"
    /\ Trouble
    /\ Die(w)
    /\ UNCHANGED supervisorVars

\* The time given with --timeout is over.
Expire ==
    /\ ~ expired /\ Pool # Worker
    /\ expired' = TRUE
    /\ UNCHANGED <<progressVars, place, drain, end, last, admitted, supervisorVars>>

-----------------------------------------------------------------------------
(* The supervisor. *)

\* Plausible bug: the slots are also refilled while stop() ends the workers.
RestartWhileStopping(w) ==
    /\ supervisor # "gone"
    /\ w \in Pool /\ place[w] = "down"
    /\ Be(w, "starting")
    /\ end' = [end EXCEPT ![w] = "none"]
    /\ drain' = [drain EXCEPT ![w] = FALSE]
    /\ last' = [last EXCEPT ![w] = NoKey]
    /\ admitted' = [admitted EXCEPT ![w] = 0]
    /\ UNCHANGED <<progressVars, expired, supervisorVars>>

\* monitor: a worker that has ended, for whatever reason, is replaced; also by
\* a pass over the slots that has begun before the supervisor is to stop.
Restart(w) ==
    /\ supervisor \in {"monitoring", "stopping"}
    /\ w \in Pool /\ place[w] = "down"
    /\ Be(w, "starting")
    /\ end' = [end EXCEPT ![w] = "none"]
    /\ drain' = [drain EXCEPT ![w] = FALSE]
    /\ last' = [last EXCEPT ![w] = NoKey]
    /\ admitted' = [admitted EXCEPT ![w] = 0]
    /\ UNCHANGED <<progressVars, expired, supervisorVars>>

\* The tool or the API ends by itself.
ServiceEnds(s) ==
    /\ s \in services /\ Trouble
    /\ services' = services \ {s}
    /\ UNCHANGED <<queueVars, workerVars, processVars, supervisor, signals>>

\* A signal, or a service that has ended: the supervisor is to stop.
RequestStop ==
    /\ supervisor = "monitoring"
    /\ \/ signals < MaxSignals /\ signals' = signals + 1
       \/ services # Service /\ UNCHANGED signals
    /\ supervisor' = "stopping"
    /\ UNCHANGED <<progressVars, processVars, services>>

\* stop: SIGTERM to every process that runs; the services end.  Nobody looks
\* at who has been told so far, so that one step stands for the loop.
Terminate ==
    /\ supervisor = "stopping"
    /\ supervisor' = "waiting"
    /\ services' = {}
    /\ place' = [w \in Worker |->
                  IF w \in Pool /\ place[w] = "starting" THEN "down"
                                                      ELSE place[w]]
    /\ end' = [w \in Worker |->
                  IF w \in Pool /\ place[w] = "starting" THEN "killed"
                                                      ELSE end[w]]
    /\ drain' = [w \in Worker |->
                    IF w \in Pool /\ place[w] \notin {"starting", "down"}
                    THEN TRUE ELSE drain[w]]
    /\ UNCHANGED <<progressVars, last, admitted, expired, signals>>

\* stop: the five seconds for all of them together are over, and a child still
\* runs; in a call of up to ten seconds, or waiting for the write lock.
Deadline ==
    /\ supervisor = "waiting"
    /\ \E w \in Pool : place[w] # "down"
    /\ supervisor' = "killing"
    /\ UNCHANGED <<progressVars, processVars, services, signals>>

\* process.kill, for each that still runs.
KillRest(w) ==
    /\ supervisor = "killing"
    /\ w \in Pool /\ place[w] # "down"
    /\ Die(w)
    /\ UNCHANGED <<troubles, supervisorVars>>

\* "Crashsafe stopped."
Leave ==
    /\ supervisor \in {"waiting", "killing"}
    /\ \A w \in Pool : place[w] = "down"
    /\ supervisor' = "gone"
    /\ UNCHANGED <<progressVars, processVars, services, signals>>

-----------------------------------------------------------------------------
Live(w) ==
    \/ Install(w) \/ LoopForever(w) \/ LoopUntilTerminal(w) \/ Work(w)
    \/ FindNothing(w) \/ Wake(w)

\* What the world does to the queue.
Outside ==
    /\ \/ \E r \in Run : Submit(r) \/ Lapse(r) \/ Lose(r)
       \/ \E k \in Key : BecomeDue(k)
       \/ EndCooldown
    /\ UNCHANGED besides

LifecycleNext ==
    \/ \E w \in Worker : Live(w) \/ Signal(w) \/ Kill(w)
    \/ Outside
    \/ Expire
    \/ \E w \in Pool : Restart(w) \/ KillRest(w)
    \/ \E s \in Service : ServiceEnds(s)
    \/ RequestStop \/ Terminate \/ Deadline \/ Leave

\* Processes go on, time passes, and the supervisor polls every 0.2 seconds.
\* SIGKILL needs nothing of the process.
LifecycleFairness ==
    /\ \A w \in Worker : WF_lifecycleVars(Live(w))
    /\ \A w \in Pool : /\ WF_lifecycleVars(Restart(w))
                       /\ WF_lifecycleVars(KillRest(w))
    /\ \A r \in Run : WF_lifecycleVars(Lapse(r) /\ UNCHANGED besides)
    /\ \A k \in Key : WF_lifecycleVars(BecomeDue(k) /\ UNCHANGED besides)
    /\ WF_lifecycleVars(EndCooldown /\ UNCHANGED besides)
    /\ WF_lifecycleVars(Terminate)
    /\ WF_lifecycleVars(Deadline)
    /\ WF_lifecycleVars(Leave)

LifecycleSpec ==
    LifecycleInit /\ [][LifecycleNext]_lifecycleVars /\ LifecycleFairness

-----------------------------------------------------------------------------
(* Properties. *)

\* "After a termination request, admit no new step" (graceful-drain.md): a
\* process that has been told to stop claims nothing.  Does not hold: a signal
\* between the loop's test of the flag and the claim does not stop the claim.
AdmitsNone == \A w \in Worker : admitted[w] = 0

\* What the loop does keep of that: a process that has been told to stop claims
\* at most once more, the step of the run_once that had already begun.
AdmitsAtMostOne == \A w \in Worker : admitted[w] <= 1

Unsettled(w) ==
    LET k == last[w]
    IN  /\ place[w] = "down" /\ k # NoKey
        /\ owner[RunOf(k)] = w /\ live[RunOf(k)]
        /\ step[k] = "intent_recorded"

\* "... commit it, then exit": no worker that ends in a drain leaves behind an
\* attempt that it still owned.
DrainSettles ==
    \A w \in Worker : end[w] \in {"drained", "0", "2", "3"} => ~ Unsettled(w)

\* Stopping the supervisor is a graceful drain of its workers, too: once it is
\* gone, none of them has been cut off in its attempt by the supervisor.
StopSettles ==
    supervisor = "gone" /\ troubles = 0 => \A w \in Pool : ~ Unsettled(w)

\* A supervisor that is to stop leaves in the end, and all its workers before.
StopEnds == supervisor = "stopping" ~> supervisor = "gone"

\* Every accepted run ends as long as the supervisor is not to stop, whatever
\* ends its workers: the next process of the slot takes over what the last one
\* has left, also when a worker beside the pool holds the run and dies.
PoolFinishesRuns ==
    \A r \in Run : run[r] = "running" ~> Ended(r) \/ supervisor # "monitoring"
=============================================================================
