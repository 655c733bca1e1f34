# Crashsafe: a TLA+ model of the workflow engine

Crashsafe runs small workflows (graphs of steps) so that a process may be killed
at any instruction and the outcome is still right: each step's side effect
happens at most once in the tool, in dependency order, and the engine's record
agrees with it. This directory holds a TLA+ model of that machinery, the TLC
configurations that check it on small instances, and proofs, checked by TLAPS,
of its main safety properties for every instance.

Paths below are relative to `src/crashsafe/` unless they say otherwise.

## The system

Four kinds of process on one host share two SQLite databases.

| Part | State | Operations | Talks to |
|---|---|---|---|
| HTTP API (`api.py`) | none | create a run; reads | engine.db |
| Worker (`engine.py`, `worker.py`) | the claim in hand, a heartbeat thread | `run_once`, poll, drain | engine.db, tool over HTTP |
| engine.db (`storage.py`, `history.py`) | runs, steps, dependencies, events, leases, cooldowns | one transaction per method | |
| Mock tool (`mock_tool.py`) | ledger.db: side effects and saved results | `POST /tools/{operation}` | ledger.db |
| Supervisor (`supervisor.py`) | child processes | start, replace a dead worker, stop | all processes |

A worker claims the oldest eligible step and with it a lease on the run, whose
fence token counts the claims. It records the attempt as an event (the
write-ahead intent), starts a heartbeat that renews the lease, sends one HTTP
request with the step's operation key, and settles the attempt by a completion,
a retry deadline or a failure. Every write after the claim is checked against
the lease in its own transaction. The rows of a run are an index of its event
history: both change in the same commit, and a strict reducer can rebuild the
rows from the events.

What is hard here:

* *Interleaving.* Any number of workers, heartbeat threads and tool requests run
  between any two transactions. A worker whose lease has run out does not know
  it, and a replaced slot has the owner id of its predecessor.
* *Failure.* A process may die between any two database steps. engine.db and
  ledger.db share no transaction. A request may be lost, answered late, or go on
  inside the tool after its worker is gone.
* *Time.* An operation reads the wall clock and then waits, for up to ten
  seconds, for the write lock. Deadlines are compared with readings that may be
  older than the commits they follow.
* *Order.* Retry-After deadlines are recorded in another order than they were
  given; the last step to complete also completes the run.
* *Statements outside a transaction.* Schema start-up, the audit, reading a run
  and the first half of a rebuild look at the database with one connection and
  several statements; others commit in between.
* *Start and stop.* All processes start at once on a database of any age, and a
  signal may reach a worker at any point of its loop.

What makes each part correct:

* engine.db: a lease changes hands only with a higher token; only a live owner
  with the current token writes; an ended run never changes; rows equal the
  reduction of the history; a cooldown is never shortened.
* tool: at most one effect per key, with a result that can be retrieved; every
  answer of a key names the same effect; a reused key with another request is
  refused. A restart forgets nothing, unless a kill falls into the renaming of the
  ledger (see The violations).
* engine: the intent precedes the request; effects follow the graph; a completed
  step's output is its effect; no retry before its deadline; a live owner's view
  of its step is the truth; every accepted run ends.
* definitions: exactly the graphs that can finish are accepted, when they are
  submitted and whenever their history is replayed.
* start-up: no accepted run is lost, and nobody works on an old schema, whichever
  database the first start finds, with one exception (an empty pre-DAG schema; see
  The violations).
* worker and supervisor: a drain admits at most the one claim that was already
  being made and settles the attempt in hand; a dead worker is replaced; a stop
  ends.
* readers: an ended run is seen whole.

`PROJECT.json` lists the components, modelled and not, and under `hazards` each
place in the code where one of these can go wrong.

## Modules

| Module | Models | EXTENDS |
|---|---|---|
| `Operations` | operation keys and requests, shared by engine and tool | |
| `Tool` | the mock tool: requests, `find`, `apply`, loss | `Operations` |
| `Storage` | the tables and one action per storage transaction | `Operations` |
| `History` | the strict reducer and what it is compared with | `Storage` |
| `StorageClients` | engine.db under clients that keep no protocol | `Storage` |
| `RetryPolicy` | the backoff formula | |
| `Engine` | `run_once`, heartbeat, crashes, composed with storage and tool | `Storage`, `Tool` |
| `DurableWorkflow` | the promise, without leases, attempts, workers or time | |
| `Rebuild` | `rebuild_projection` beside live workers | `Engine`, `History` |
| `Readers` | reads and audits of a run, SELECT by SELECT | `Engine`, `History` |
| `Operator` | the engine with a client that reads, audits and rebuilds | `Rebuild`, `Readers` |
| `Timeline` | the fold `build_timeline` | `Engine` |
| `Definitions` | `validate_graph` and the reducer's check of the graph | |
| `Startup` | `_initialize`, dropping, migration and repair by several processes, and the supervisor that starts them | |
| `Ledger` | the tool with its ledger's files, their renaming, deaths at any point and restarts | `Tool` |
| `Progress` | queue and `run_once` without a clock, for liveness | |
| `Lifecycle` | worker processes and the supervisor around `Progress` | `Progress` |
| `ToolProofs` | safety of the tool | `Tool` |
| `StorageProofs` | types kept by each transaction, and that replaying its events yields its rows | `History` |
| `EngineProofs` | the inductive invariant of the engine, its refinement, histories, readers and rebuilds, timelines | `Operator`, `Timeline`, both above |
| `StorageClientsProofs` | safety of engine.db from its transactions' guards alone | `StorageClients`, `StorageProofs` |
| `LedgerProofs` | the tool's promises through restarts and the renaming | `Ledger`, `ToolProofs` |
| `DefinitionsProofs` | both validations are right and agree, for every definition | `Definitions` |
| `StartupProofs` | accepted runs are kept and a ready process finds current tables | `Startup` |
| `LifecycleProofs` | drains of worker processes | `Lifecycle` |
| `MC*` | workloads for TLC | |

### How state corresponds

| Model | Code |
|---|---|
| `runs[r]`, `steps[k]`, `leases[r]`, `throttles[t]` | rows of `workflow_runs`, `steps`, `workflow_run_leases`, `tool_throttles` |
| `events[r]` | `workflow_run_events` of `r`, in sequence order |
| `DependsOn`, `Position`, `RunOf`, `ToolOf` | the materialized definition; constants, because no code changes them |
| `clock` | `utc_now()` in whole ticks |
| `results`, `effects` | `idempotency_results`, `side_effects` |
| `calls`, `open`, `replies` | requests in server threads; connections a client still waits on; answers that reached it |
| `pc[w]`, `claim[w]` | where a worker is in `run_once`, and its `ClaimedStep` |
| `since[w]` | the earliest reading the worker's next operation may hold |
| `late[w]` | a heartbeat renewal that `stop()` did not wait for |

A run that has not been created has the row `NewRun`; 0 stands for SQL `NULL`.
Columns nobody decides on (names, `updated_at`, reasons) are left out, and so are
the texts of errors, of which the kind remains. ISO timestamps in UTC compare as
text in the order of time, so numbers stand for them; SQL's `MAX` on them is
`Later`.

### How actions correspond

Each storage method is one `BEGIN IMMEDIATE` transaction, hence one action; its
`now` is any reading in `Recent`, at most `MaxLag` ticks old, except that
`_require_lease` reads the clock inside. An operation that raises or returns
early changes no table: `RecordTooLate`, `Discard` and `Raise` are the steps of
the worker that meets it. `LeaseLostError` leads to the `finally` clause, as in
the code. "Not runnable", "no active attempt" and the silent return of
`complete_step` have no action: `OwnerIsCurrent`, checked and proved, says that a
live owner never meets them. `sqlite3` errors (a lock that cannot be had for ten
seconds) end the process, like `Crash`.

The tool's `find` and `apply` are two actions. `Apply` includes the answer: the
window between commit and answer is the client hanging up while the answer waits
in `replies`, or `open` no longer holding the request. `Answer` stands for what
the gateway also classifies: 5xx, other 4xx, bodies that do not validate, and a
429 whose Retry-After is no duration (`endless`), on which `timedelta` raises
unless the retry budget, which is tested first, is used up.

A claim that is lost to a crash leaves the lease to run out; the replacement
slot has the same owner id, and its attempts are numbered on from the row.

### Around the engine

`Rebuild` adds the state of one call: `ReadHistory` is `list_events` and the
reducer on the first connection, `ReplaceRows` the later transaction, which
deletes the lease row and does not write it again. With `Quiet` nobody commits to
the run in between. `Readers` adds the state of one read, whose SELECTs
(`SelectRun`, `SelectSteps`, `SelectEvents`) are separate actions because the
connection is outside a transaction. `Operator` makes one call after the other,
each interleaved with the engine. `Timeline` has no state: `AddEvent` is one
round of the loop of `build_timeline`.

`Definitions` has one action per round of each loop of `validate_graph`
(`Collect`, `Visit`, `Scan`), on lists and a dictionary as in the code, then the
reducer's loop (`Replay`). `Startup` gives each table a form (which schema it
belongs to) and the runs with rows in it; each statement of `_initialize` that
reads, and each transaction, is an action, and `executescript` commits statement
by statement except where the script says `BEGIN`. All processes start together,
as `supervisor.py:31-35` starts them. A worker slot whose process has ended is
filled again (`Restart`); when the API has ended, the supervisor leaves its loop,
at the end of a pass in which it may fill a slot once more (`MissApi`,
`LeaveMonitor`), and stops everyone (`Stop`); whoever runs the system may start it
again (`StartAgain`). A ready worker that finds a table gone raises (`Stumble`),
the API answers an error. `found` remembers the database of the first start.

`Ledger` adds to the tool the files on disk and what each holds: a WAL belongs to
the database file of the same name, and `results` is what a connection to the open
ledger sees. A process may be killed anywhere (`Die`), between two renames too,
and a restart loses the requests in the server's threads and keeps files and
effects. `Stranded(k)` says that the database has its new name and the WAL that
holds `k` still the old one.

`Progress` is the queue and `run_once` again without clock, history and tokens: a
deadline has passed or not, a lease is live or not. That makes behaviours
infinite over a finite state space, so that liveness can be checked. What it
leaves out is what `Engine` is about: it relies on `OwnerIsCurrent` (a worker
without its lease writes nothing). `Lifecycle` wraps it: `place` is where a
process is in `worker.py` (`Work` is a step of `run_once`, an exception ends the
process), `supervisor` where the other one is in `supervisor.py`. Signal handlers
only set a flag, so a signal is one action at any point of the loop, and kills a
process that has not installed them. SIGTERM to all is one action: nobody looks
at who has been told so far. The five seconds of `stop` may run out over any child
that still runs, in a call or waiting for the write lock (`Deadline`). Two kinds of
answer raise out of `run_once`: a body that does not validate, at whatever attempt
(`Raise`), and a delay that is no duration, only below the budget (`RaiseOnDelay`).

## What the runs check

| Run | Question | Bounds | States |
|---|---|---|---|
| `tool` | one effect per key, known and kept, under overlapping requests, losses, kills anywhere, restarts, checkpoints and the renaming of the ledger? | 2 keys, any split of file and WAL, 2 payloads, 2 requests a key | 3,275,323 |
| `storage` | do the guards in the transactions suffice without any protocol of the callers? | 1 run, 2 steps, 2 owners, 3 claims, 2 attempts, 3 ticks | 1,050,149 |
| `takeover` | crash, expiry, takeover and permanent failure with siblings in flight; is the promise kept? | 1 run, 3 steps that fork, 2 workers (symmetric), 2 attempts (budget 2), lease of 1 tick, 3 ticks | 1,554,149 |
| `stale_clock` | readings two ticks old, heartbeats after release, 5xx, malformed and endless answers, attempts beyond the budget | 1 step, 2 workers (symmetric), 3 attempts (budget 2), 4 ticks | 1,917,052 |
| `operator` | reads, audits and rebuilds beside two workers with stale readings; timelines | 1 run, 2 steps in a chain, 2 workers (symmetric), 1 rebuild, quiet, readings one tick old, 2 attempts, 2 ticks | 2,097,938 |
| `startup` | are runs kept and the schema current, starting together with a death? does every start succeed? | 3 processes, 2 runs, all 7 kinds of database, 1 death | 1,422,525 |
| `definitions` | do both algorithms accept exactly what can finish, and end? | all graphs of 3 and 4 steps, malformed lists of 2 | 69,910 |
| `lifecycle` | do drains settle, stops end and runs end? | 1 run, 2 steps, a pool worker and one by hand, 1 signal, 1 trouble, calls of any length | 649,019 |
| `cooldown_gate` | no call while the tool's cooldown lasts? | 2 runs of one step, one tool, 3 ticks | violated |
| `rebuild_live` | does a completed step stay closed if a commit falls into a rebuild? | as `operator`, not quiet | violated |
| `startup_empty` | is a run that was answered 201 kept on an empty pre-DAG database? | the API and a worker, no deaths | violated |
| `ledger_rename` | does the renaming discard nothing? | 2 keys, 1 request each | violated |

### Properties

* `AtMostOneEffect`: a key has one effect however requests, crashes and takeovers
  make its requests overlap. `EffectsAreKnown`, `AnswersMatchLedger`: the effects,
  the saved results and what the tool says of them agree.
  `AnswersOwnRequest`: a saved result answers only the request it was saved for.
* `TakeoverRaisesToken`, `TokensFollowHistory`, `FenceTokensIncrease`: fencing,
  on the lease row and in the history it leaves. With a protocol-less client two
  attempts may share a token; the engine, which records one attempt per claim,
  gives each its own.
* `OwnerIsCurrent`: a live owner finds its step in the state it left, with its
  attempt as the run's last event.
* `ProjectionMatchesHistory`: in every state the strict reducer accepts every
  history and yields exactly the rows.
* `TerminalIsFinal`: nothing changes an ended run.
* `IntentPrecedesEffect`, `EffectsFollowDependencies`, `CompletedHasEffect`: what
  relates the two databases, which share no transaction.
  Beside a rebuild that others commit into, the last two still hold, which is
  proved and not run: a rebuild may forget what was completed, but what it writes
  was true once, and the ledger keeps it.
* `CooldownRemembered`, `NoEarlyRetry`, `HistoryTimesMonotone`: deadlines and
  times across owners whose readings of the clock are stale.
* `ImplementsDurableWorkflow`: the engine is one way of doing what
  `DurableWorkflow` promises.
* `EndedRunIsWhole`: a reader that sees a run ended sees all that ended it, and
  an audit of it finds no difference. It holds because the run's row is read first
  and ended runs are final; with the SELECTs in the other order it does not.
* `SummaryAddsUp`, `TimesFit`: the view of a history against the rows it came with
  and the time that has passed. That a completed run has lasted as long as it
  planned to wait is said of chains (`Chained`): steps that do not depend on each
  other may wait at the same time, and then their waits add up to more.
* `VerdictIsRight`, `VisitedInOrder`, `ReplayAgrees`, `ValidationEnds`: two
  algorithms against the definition of a graph in which no steps wait for each
  other.
* `AcceptedRunsAreKept`, `ReadyMeansCurrent`: start-up by several processes, of
  which any may be killed; both say in so many words that they leave out a system
  first started on an empty pre-DAG database.
* `EveryStartSucceeds`: if the system is started again whenever it has stopped,
  every process comes to work in the end: starts do not keep each other from
  finishing. Without that condition an API that loses a race to migrate is enough
  for the supervisor to stop everyone.
* `ResultsAreKept`: no result the tool has committed is lost or replaced, under
  either name of the ledger and with kills at any point. It and `EffectsAreKnown`
  except by name the keys that a kill between two renames strands (`Stranded`).
* `StopEnds`, `PoolFinishesRuns`: a stop ends, and until then every accepted run
  does.
* `AdmitsAtMostOne`, `DrainSettles`: a signal may come between the loop's test and
  the claim, so one claim is admitted after it, more than the documents allow
  (see Known limits) but never two; no process that drains leaves an attempt it
  still owned unsettled.

### The violations

Each is a disagreement between the code and what the repository says of it.

* `NoCallDuringCooldown` states the acceptance criterion of
  `src/.memory/projections/plans/crashsafe-engine.md:802-803`, "A 429 for workflow
  A prevents workflow B from calling the same tool before the shared deadline"
  (also `src/README.md:140-141`). The code looks at the cooldown when it claims a
  step (`storage.py:579-604`) and not again. Both workers claim and record, A's
  request is throttled and its retry commits the cooldown, then B sends. No state
  is corrupted; the gate is weaker than described by one request per worker in
  flight.
* `NoAttemptAfterCompletion`: a completion that commits between the rebuild's
  read and its transaction (`storage.py:490-492`) vanishes from the rows, and the
  step is attempted again. "Completed steps never reopen" (`src/README.md:151`).
* `AnsweredRunsAreKept`: the script of `_drop_empty_legacy_schema`
  (`storage.py:227-241`) names the current tables, too, and its statements commit
  one by one. On an *empty pre-DAG* database a worker that has counted no rows
  drops the tables that the API has created meanwhile, with the run in them that
  was answered 201: "the definition snapshot, creation event, and scheduling
  projection committed together" (`api.py:40-41`).
* `ContentsAreKept`: a tool killed between the renaming of the database and that of
  its WAL (`mock_tool.py:67-70`) finds a `ledger.db` at its next start and never
  looks for the WAL again; what had not been checkpointed is gone, and its keys may
  have a second effect. "Renamed to `ledger.db` without discarding its contents"
  (`src/README.md:355-357`).

### Known limits

Five more disagreements are not runs of their own. Each is seen by changing a
constant or adding an invariant of a passing run.

* `lifecycle` with `AdmitsNone` as an invariant: "after a termination request, admit
  no new step" (`src/.memory/projections/plans/graceful-drain.md:10`; "claims no new
  workflow", plan:774; "stop claiming", `src/README.md:21`). A worker looks at its
  flag at the head of the loop (`worker.py:45`); a signal between that and the claim
  in `run_once` does not keep it from claiming (Install, LoopForever, Signal,
  ClaimStep). The attempt is then settled like any other, and it is the only one:
  that much is what `AdmitsAtMostOne` and `DrainSettles` say.
* `lifecycle` with `StopSettles` as an invariant: the supervisor waits five seconds
  (`supervisor.py:85`), a call may last ten (`config.py:13`), and a draining worker
  is killed in its attempt. `graceful-drain.md:30-32` asks for a grace of at least
  the request timeout; "finish one in-flight attempt", says `src/README.md:21-22`.
* `lifecycle` with `Endless = TRUE`: a body that does not validate raises out of
  `run_once` (`engine.py:110`) whatever the number of the attempt, and leaves the
  step eligible. If such answers never end, no run does, and `PoolFinishesRuns`
  fails. "A permanent failure or exhausted retry budget remains fail-fast"
  (plan:348-349). A Retry-After that `timedelta` cannot hold (`engine.py:301`)
  raises, too, but only until the budget is used up, which is tested first
  (`engine.py:280`); such answers are not bounded in the run.
* `operator` with `FenceTokensIncrease` as an invariant: a rebuild deletes the
  lease row (`storage.py:493`), so the run's next claim has token 1 again.
  "Monotonically increasing on every successful acquisition", says
  `src/.memory/projections/plans/crashsafe-engine.md:286`. Fencing itself holds
  (`OwnerIsCurrent`): owner id, token and expiry together keep old owners out.
* An audit of a run that is still moving compares rows and events of different
  moments (`storage.py:480-485`) and may report a difference; `EndedRunIsWhole`
  speaks of ended runs only.

### Bounds, and why they are enough

* Two workers: each property relates one owner with the rest, and the rest may
  use the same slot again and again. A third would add only more of the same.
* A lease of one or two ticks within three or four: enough for a lease to run
  out during a call, be taken over, and run out again.
* `AttemptCap` above `MaxAttempts`: attempts lost to crashes may exceed the
  budget, and a later retryable answer then exhausts it.
* `MaxLag` 2 with a lease of 1: a reading may be older than the lease it is
  compared with. In `operator` it is 1, as old as the lease. The other runs use 0,
  where time is not the question.
* `MaxLate` 1: one renewal per worker that outlives its step.
* `MaxRequests` bounds the tool's own runs only; the engine numbers requests by
  attempt.
* The clock stops at `MaxTime`, and finished runs stop, so the engine's and
  storage's runs set `CHECK_DEADLOCK FALSE`. The tool's runs check deadlock.
* `operator`: one rebuild is enough for each question, as it relates one call with
  the commits around it. Two workers on a lease of one tick can lose and retake a
  run while a call lasts. In its chain one step waits at a time, which is what
  `TimesFit` needs.
* `startup`: three processes, as each question relates the one that is late with
  the one that is early, and the API with both. One death: lost races end processes
  as well, and those, the refilled slots and the starts of the whole system are not
  bounded.
* `tool`: two keys, so that one may be in the old database and the other in its
  WAL; two requests of a key with different payloads may overlap. Kills and
  restarts are not bounded. More requests of one key overlap in `takeover`.
* `Definitions`: four steps have cycles of every length up to four, and steps
  that wait for a cycle without being in it. Lists of two with repetitions and
  unknown ids exercise every early return. The theorems cover every definition.
* `Progress`: `attempts` is counted up to `MaxAttempts`, above which the code never
  looks. `MaxTroubles` bounds what no retry budget counts (crashes, leases lost by
  a working owner, raises, dead services): without it a run need not end
  (`Endless`, under "Known limits").
* `lifecycle`: a pool worker and one by hand, so that a drain of either meets
  takeover by the other. The signal reaches a worker or the supervisor; a stop for
  a dead service may come on top of it.

`AttemptCap` in `ClaimStep`, `ClaimCap` in `ClaimOne`, `MaxTime` in the ticks,
`MaxRebuilds`, `MaxTroubles`, `MaxDeaths` and `MaxSignals` are the only guards
that are not in the code. Starts, definitions, lifecycles and finished runs come
to rest, so their runs set `CHECK_DEADLOCK FALSE` as well.

### Fairness

`Engine`, `Storage`, `Tool` and what extends them assume none: what they state is
safety. Liveness is stated where it can be justified, always weak fairness:

* `Lifecycle`: each process's next step (`Live`), the supervisor's restarts, its
  SIGKILLs, `Terminate` and `Leave` (it polls every 0.2 seconds), the end of the
  five seconds (`Deadline`), and the passing of time (`Lapse`, `BecomeDue`,
  `EndCooldown`). A process's loop polls for ever, and a call ends with an answer or
  the request timeout. A step of `run_once` is fair as a whole, not answer by
  answer: nothing obliges the tool ever to succeed, and runs end because the retry
  budget does. Nothing is assumed of submissions and lost leases; signals, kills and
  dead services may or may not come.
* `Startup`: each process executes its next statement, the supervisor fills worker
  slots again, notices that the API has ended and stops the others. Nothing is
  assumed of deaths, and nobody has to start a stopped system again:
  `EveryStartSucceeds` has that as its condition.
* `Definitions`: the loops go on.

## What is proved

The theorems hold for every set of runs, steps, workers and payloads, every
dependency graph within runs, any lease, lag, budget, backoff and number of
ticks, under the assumptions stated where the constants are declared
(`StorageAssumption`, `ToolAssumption`, `EngineAssumption`): operation keys
determine their run, dependencies stay within a run, the lease is positive (as
`config.py` requires), and the null values are not members of the sets they
complete. A run has at least one step, as `models.py:97` requires. Nothing is
assumed of the graph being acyclic, nor of these sets being finite.

`ToolProofs`. `ToolInv` joins the types, `EffectHasResult`, `AnswersMatchLedger`
and the finiteness of the ledger. `AtMostOneEffect` follows from
`EffectHasResult`: two effects of a key would both be the one its row names. It
is inductive because `apply` looks the key up again in its own transaction,
whatever `find` saw.

`EngineProofs`. None of the engine's properties is inductive alone.
`EngineInv` adds to the types and `ToolInv`:

* `ClaimsAreReady`, `CallsAreReady`, `ResultsAreReady`: the step of a busy
  worker, of a request inside the tool and of a saved result has completed
  dependencies. A call outlives its worker and its run, so the fact must be
  carried from the claim into the tool; it lasts because completed steps stay
  completed (`CompletedStays`).
* `AbsentIsNew`: creating a run resets only steps that never moved.
* `OwnerKnows`: a busy worker whose owner id and token are those of the lease
  row, *live or not*, has its run running, its step where it left it and its own
  attempt as the last event. Without expiry in it, time cannot break it; only a
  claim, which writes another owner, or the worker itself can.
* `CompletedHasEffect`, one of the checked properties.

Every step is reduced to one of four footprints on engine.db (`NextFootprint`):
creating a run, a claim, a transition by the owner of a run on its own step, or
a step that changes at most lease expiries. Each part of the invariant is then
kept by an argument about footprints. `EngineSafety` is `Spec => []EngineInv`;
`TypeCorrect`, `EngineAtMostOneEffect`, `CompletedHasEffectAlways`,
`EffectsFollowDependenciesAlways` and `OwnerIsCurrentAlways` follow.

*Refinement.* A transition's run is running, by `OwnerKnows`; hence
`TerminalIsFinalAlways`, and the refinement: `Submit` is `SubmitRun`, the tool's
`Apply` that finds no row is `Perform`, `Complete` is `Finish`, `GiveUp` is
`FailRun`, and everything else shows nothing. `EngineImplementsDurableWorkflow`
is the theorem.

*Histories.* `HistoryInv` is inductive together with `EngineInv`. Its parts
about owners (`FreshIsHigher`, `OwnerIsLater`, `OwnerIsDue`) speak of a worker
whose owner id and token are those of the lease row, live or not, like
`OwnerKnows`: one lemma (`OwnerAlone`) says that a step of anybody else leaves such
an owner's run and step alone. `OwnerIsLater` and `OwnerIsDue` are why stale
readings do no harm: an operation's reading is never older than the step the worker
took before it, which came after everything the history tells. Hence
`HistoryTimesMonotone` and `NoEarlyRetry` hold for any lag. `TokensAreBounded` and
`FreshIsHigher` give `FenceTokensIncrease`; `SendersAreAttempted` gives
`IntentPrecedesEffect`, also for requests whose worker is gone.

*Rows and the reducer.* `ReplayInv` says of each run that the reducer, given its
whole history, arrives at exactly its rows (`RowsFollow`), and that an ended run
has the steps to show for it (`EndIsEarned`), without which the reducer would
reject its last event. The reducer is a recursive function over the length of the
history; that it is one, and that a history one event longer is one more
application of it, is shown once in `StorageProofs` by the least length at which
it would fail. From there each transaction needs only the events it appends
(`CreateReplays` and the lemmas after it): the reducer takes the old rows and these
events to the new rows. `EngineHistoryMatches` and, for clients without a protocol,
`HistoryAlwaysMatches` follow.

*Readers and rebuilds.* These theorems are about `OperatorSpec`, in which any
number of rebuilds happen. `OperatorInv` adds what a call has read so far:
`SnapshotIsCurrent` (if the history still has the length that was read, its
reduction is what the rows say, so that `ReplaceRows` writes what it finds and
takes only the lease) and `ReadIsPresent` (whoever has seen a run ended has seen
nothing but the present). Taking a lease away makes nobody an owner, so
`EngineInv` survives, while `HistoryInv` does not: tokens start again.
`OwnerIsCurrentBesideRebuild` and `EndedRunIsAlwaysWhole` follow. These two
suppose `Quiet`, that nobody commits to the run between the rebuild's read and
its transaction: without it `rebuild_live` shows that they would say too much.

What holds without `Quiet` has an invariant of its own, `RaceInv` (`RaceSafety`).
It gives up everything about owners. A step that the rows, the reducer given any
run's history, or what a rebuild has read call completed has its result in the
ledger (`CompletedHasEffect`, `HistoryIsTruthful`, `SnapshotIsTruthful`), and so
have the dependencies of a step that a worker holds or the tool is asked for
(`ClaimsAreSupplied`, `CallsAreSupplied`): the ledger never forgets what the rows
may.
`CompletedHasEffectBesideRebuild` and `EffectsFollowDependenciesBesideRebuild`
follow, for any number of rebuilds and of commits that fall into them.

*Timelines.* The loop of `build_timeline` is a recursive function like the reducer
and is treated the same way (`TallyIs`, `TotalAppend`). `CountsInv` strengthens
`SummaryAddsUp` by the attempts under way: a step in `intent_recorded` has an
attempt that nothing has closed yet, which is what its retry, completion or failure
then closes. `TimesInv` strengthens `TimesFit`: what the loop holds lies within the
span of the history (`SpanFits`); the planned waits of a chain are over, or all but
that of the one step that waits (`WaitsFit`); started steps have their dependencies
completed (`StartedAreReady`); and an owner about to record an attempt comes after
the deadline in the step's row (`OwnerRowIsDue`). That no two steps of a chain wait
at once is `ChainOrder`: of the steps that would be ready out of turn, the one with
the least position depends on one that is ready out of turn, too. Of `HistoryInv`
only `PastInv` is used, the part about times that does not mention tokens, so
`SummaryAlwaysAddsUp` and `TimesAlwaysFit` have counterparts beside rebuilds
(`SummaryAddsUpBesideRebuild`, `TimesFitBesideRebuild`).

`StorageClientsProofs`. Clients keep no protocol: any claim that was ever handed
out may be used by any call at any time. `ClientInv` adds to the checked
properties what the lease row knows of the claims: none has a higher token
(`GrantsAreFenced`), no two share one (`GrantsAreUnique`), and whoever holds the
lease of an ended run holds it for a settled step (`EndedIsSettled`). The last
two prove `TerminalIsFinal` from the transactions' guards alone: after the end
every call fails either `_require_lease` or the check of the step's status.

`LedgerProofs`. The process may be killed anywhere. `FilesInv` says that the
results the tool answers from are those that its files hold (`ResultsAreSaved`),
that outside of the renaming one name holds all of them (`OneName`), and what a
renaming in progress has moved (`HalfRenamed`); after a kill between two renames
this is said of the keys that are not `Stranded`. `EffectHasResult` does not survive
such a kill; `KeysMatch`, which is what it says of each key that is not stranded,
does. That a stranded key has a second effect disturbs no other, and what clients
have been answered stays in the open ledger, so that `ResultsAlwaysKept` and
`LedgerKeepsEffects` hold with the one exception the properties name, and
`AnswersAlwaysOwnRequest` and the type invariant without any. The theorems suppose
finitely many keys, since the old ledger is any subset of them.

`DefinitionsProofs`. The theorems hold for every finite list of steps over any
ids. Nothing of finite sets or counting is assumed: the walk compares lengths of
lists, and the proof needs that a list without repetitions that is as long as the
definition names every step of it. `DefinitionsInv` says what the
half-finished loops keep: what a step still waits for is what it depends on less
what has been visited, except for candidates the running scan has not reached
(`WaitsForRest`, `LoopsInStep`); the steps that wait for nothing are those listed
(`ListedAreFree`, `FreeAreListed`), once (`ListedOnce`); and no member of a set of
steps that wait for each other is ever listed (`StuckAreUnlisted`). Acceptance
then contradicts `Stuck`, and rejection exhibits it: the steps that were not
visited. `ReplayInv` does the same for the reducer's set; the verdicts agree
because both decide `Stuck`. `VerdictIsAlwaysRight`, `VisitedIsAlwaysInOrder` and
`ReducerAlwaysAgrees` follow.

`StartupProofs`. The theorems hold for any number of processes, runs, deaths and
starts of the whole system; nothing is supposed of who starts when.
`StartupInv` says where the accepted runs are: in the old tables as long as there
is a table `workflows` (`OldRunsKept`), in the current ones afterwards
(`NewRunsKept`). `PlaceIsEarned` relates the place a process has come to with what
any other process may have done to the tables since: what it has found broken, or
already repaired, is not broken again, and nobody comes to drop anything on a
database with rows in `workflows`. All this is conditional on what the first start
has found, as are the two properties; `StartupTypeCorrect` is not.

`LifecycleProofs`. `LifecycleInv` adds to the types that the last claim of a process
is the one in hand while a call goes on (`LastIsClaim`); that from the answer to its
next claim no attempt of its own is open under its live lease, unless the process
was cut off (`NothingLeftOpen`); and that the one claim after a signal is that of a
call which had begun, and after which the loop ends (`AdmittedWasBegun`).
`AdmitsAtMostOne` and `DrainSettles` are what this says of a process that has ended.

### Model-checked only

Every invariant and action property of the passing runs is proved. What remains is
liveness (`EveryStartSucceeds`, `ValidationEnds`, `StopEnds`, `PoolFinishesRuns`):
TLAPS does not reason about ENABLED. The backoff is any function in the theorems
and the code's formula in the runs; the provers know nothing of powers.

## Not modelled

| Part | Why |
|---|---|
| list route, ledger summary, `get_lease` | single reads that decide nothing |
| `--once`, pid files | a single `RunOnce`; a file nobody in the code reads back |
| parsing of `Retry-After`, field formats, raw JSON of events | choices among their outcomes |
| death of the supervisor itself | the code does nothing about it; children go on as workers started by hand |
| rendering of the timeline, logging | layout |
| configuration, demo and drain scripts, pause hooks | no behaviour of their own beyond delays, kills and polls, which every interleaving covers |
| sharing one tool between several engines, clocks of several hosts | the code supports one host |

## Plan

What is left, in order:

1. The parts of liveness that need no ENABLED: that each step of a start, of a
   drain and of a validation is taken at most once between two troubles, by a
   measure that every step decreases.
2. `CooldownRemembered` beside rebuilds, and `HistoryTimesMonotone` and
   `NoEarlyRetry` beside them, which need `HistoryInv` without its tokens.
3. A refinement of `Engine`'s queue by `Progress`, to tie the two together by more
   than `OwnerIsCurrent`.
