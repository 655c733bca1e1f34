------------------------------- MODULE Startup -------------------------------
(***************************************************************************)
(* SQLiteStorage._initialize (crashsafe/storage.py): the API and every     *)
(* worker bring engine.db to schema version 4 when they start, and the     *)
(* supervisor (crashsafe/supervisor.py) starts them all at once.  A        *)
(* process looks at the schema statement by statement, without a           *)
(* transaction, and then drops, migrates or repairs what it has seen;      *)
(* other processes run between any two statements, and a process may end   *)
(* there.  Statements that are one transaction are one action.             *)
(*                                                                         *)
(* A worker that ends is replaced; when the API ends, the supervisor stops *)
(* everyone, and the system is down until it is started again.             *)
(*                                                                         *)
(* A table is its form and the runs that have rows in it:                  *)
(*   "absent"; "preDag", with no definition; "v3", before the renaming;    *)
(*   "misaimed", version 4 but with foreign keys to `workflows`; "v4".     *)
(* The triggers that make events append-only count as one more table.      *)
(***************************************************************************)
EXTENDS Naturals, Sequences

CONSTANTS
    Process,        \* whoever opens engine.db: the API and the workers
    Api,            \* the one that creates runs
    Run,            \* run ids
    OldRun,         \* the runs a database of an earlier version holds
    Found,          \* the databases the first start may find
    MaxDeaths       \* bound: processes that are killed

Databases ==
    {"none", "preDagEmpty", "preDag", "v3", "misaimed", "leaseMisaimed", "v4"}

StartupAssumption ==
    /\ Api \in Process
    /\ OldRun \subseteq Run /\ OldRun # {}
    /\ Found \subseteq Databases
    /\ MaxDeaths \in Nat

ASSUME StartupAssumption

VARIABLES
    form,       \* form of each table
    rows,       \* runs with rows in each table
    at,         \* where each process is in _initialize
    next,       \* the statement of a script it executes next
    broken,     \* tables it has found with misaimed foreign keys
    accepted,   \* runs whose creation has been committed and answered
    deaths,     \* processes that have been killed so far
    supervisor, \* what the supervisor does
    found       \* history: the database the first start has found

startupVars ==
    <<form, rows, at, next, broken, accepted, deaths, supervisor, found>>
dataVars == <<form, rows, accepted>>
systemVars == <<deaths, supervisor, found>>

\* The script of _drop_empty_legacy_schema; dropping what is absent is a no-op.
DropScript == <<"event_triggers", "step_dependencies", "workflow_leases",
                "workflow_run_leases", "tool_throttles", "steps", "workflows",
                "workflow_runs", "workflow_events", "workflow_run_events">>

\* The script of CREATE ... IF NOT EXISTS.
CreateScript == <<"workflow_runs", "steps", "step_dependencies",
                  "workflow_run_events", "workflow_run_leases",
                  "tool_throttles", "event_triggers">>

Table == {DropScript[i] : i \in DOMAIN DropScript}
Current == {CreateScript[i] : i \in DOMAIN CreateScript}

\* The tables of a version 3 database and what the migration makes of them.
Renamed == [workflow_runs |-> "workflows", workflow_run_events |-> "workflow_events",
            workflow_run_leases |-> "workflow_leases", steps |-> "steps",
            step_dependencies |-> "step_dependencies",
            tool_throttles |-> "tool_throttles"]
OldTable == {Renamed[t] : t \in DOMAIN Renamed}

\* Child rows refer to rows of these tables (PRAGMA foreign_keys = ON).
Children(t) ==
    CASE t = "steps" -> {"step_dependencies"}
      [] t = "workflow_runs" -> {"steps", "workflow_run_leases"}
      [] OTHER -> {}

\* Tables of version 4 whose foreign keys an earlier repair left misaimed.
Misaimed(d) ==
    IF d = "misaimed" THEN {"steps", "workflow_run_leases"}
    ELSE IF d = "leaseMisaimed" THEN {"workflow_run_leases"} ELSE {}

FoundForm(d) ==
    [t \in Table |->
        CASE d \in {"preDag", "preDagEmpty"} /\ t \in OldTable -> "preDag"
          [] d = "v3" /\ t \in OldTable \ {"tool_throttles"} -> "v3"
          [] t \in Misaimed(d) -> "misaimed"
          [] \/ d = "v3" /\ t = "tool_throttles"
             \/ /\ d \in {"v4", "misaimed", "leaseMisaimed"}
                /\ t \in Current \ Misaimed(d) -> "v4"
          [] OTHER -> "absent"]

\* Each old run has a row, steps and events, and was claimed once.
FoundRows(d) ==
    [t \in Table |->
        IF /\ d \notin {"none", "preDagEmpty"}
           /\ FoundForm(d)[t] # "absent"
           /\ t \notin {"tool_throttles", "event_triggers", "step_dependencies"}
        THEN OldRun ELSE {}]

\* The supervisor has started everyone.
StartupInit ==
    /\ found \in Found
    /\ form = FoundForm(found)
    /\ rows = FoundRows(found)
    /\ accepted = IF found \in {"none", "preDagEmpty"} THEN {} ELSE OldRun
    /\ at = [p \in Process |-> "start"]
    /\ next = [p \in Process |-> 1]
    /\ broken = [p \in Process |-> {}]
    /\ deaths = 0
    /\ supervisor = "monitoring"

Place == {"start", "columns", "count", "drop", "migrate", "stepKeys",
          "leaseKeys", "repair", "create", "ready", "ended"}

StartupTypeOK ==
    /\ form \in [Table -> {"absent", "preDag", "v3", "misaimed", "v4"}]
    /\ rows \in [Table -> SUBSET Run]
    /\ at \in [Process -> Place]
    /\ next \in [Process -> 1 .. Len(DropScript) + 1]
    /\ broken \in [Process -> SUBSET {"steps", "workflow_run_leases"}]
    /\ accepted \subseteq Run
    /\ deaths \in 0 .. MaxDeaths
    /\ supervisor \in {"monitoring", "leaving", "stopping"}
    /\ found \in Found
    /\ \A t \in Table : form[t] = "absent" => rows[t] = {}

-----------------------------------------------------------------------------
(* Looking. *)

Move(p, place) ==
    /\ at' = [at EXCEPT ![p] = place]
    /\ next' = [next EXCEPT ![p] = 1]

\* A statement that only reads, or that raises and ends the process.
Decide(p, place) ==
    /\ Move(p, place)
    /\ UNCHANGED <<dataVars, systemVars, broken>>

\* SELECT name FROM sqlite_master: is there a table `workflows`?
Look(p) ==
    /\ at[p] = "start"
    /\ Decide(p, IF form["workflows"] # "absent" THEN "columns" ELSE "stepKeys")

\* PRAGMA table_info: a table that has gone meanwhile has no columns at all.
ReadColumns(p) ==
    /\ at[p] = "columns"
    /\ Decide(p, IF form["workflows"] = "v3" THEN "migrate" ELSE "count")

\* Plausible bug: waits for the table another process has dropped.
CountWaiting(p) ==
    /\ at[p] = "count"
    /\ form["workflows"] # "absent"
    /\ Decide(p, IF rows["workflows"] # {} THEN "ended" ELSE "drop")

\* SELECT COUNT(*): raises if the table has gone, or if it has rows.
CountWorkflows(p) ==
    /\ at[p] = "count"
    /\ Decide(p, IF form["workflows"] = "absent" \/ rows["workflows"] # {}
                 THEN "ended" ELSE "drop")

\* PRAGMA foreign_key_list of the two tables that refer to the run table.
ReadKeys(p, t, here, there) ==
    /\ at[p] = here
    /\ LET seen == broken[p] \cup (IF form[t] = "misaimed" THEN {t} ELSE {})
       IN  /\ broken' = [broken EXCEPT ![p] = seen]
           /\ Move(p, there)
    /\ UNCHANGED <<dataVars, systemVars>>

ReadStepKeys(p) == ReadKeys(p, "steps", "stepKeys", "leaseKeys")

\* Plausible bug: only the steps are looked at.
SkipLeaseKeys(p) == at[p] = "leaseKeys" /\ Decide(p, "repair")

ReadLeaseKeys(p) ==
    ReadKeys(p, "workflow_run_leases", "leaseKeys", "repair")

-----------------------------------------------------------------------------
(* Changing. *)

\* One DROP ... IF EXISTS of the script, committed by itself; it raises when
\* rows of another table still refer to the table's rows.
Drop(p) ==
    /\ at[p] = "drop"
    /\ LET t == DropScript[next[p]]
           last == next[p] = Len(DropScript)
       IN  IF rows[t] # {} /\ \E c \in Children(t) : rows[c] \cap rows[t] # {}
           THEN Decide(p, "ended")
           ELSE /\ form' = [form EXCEPT ![t] = "absent"]
                /\ rows' = [rows EXCEPT ![t] = {}]
                /\ at' = [at EXCEPT ![p] = IF last THEN "create" ELSE "drop"]
                /\ next' = [next EXCEPT ![p] = IF last THEN 1 ELSE @ + 1]
                /\ UNCHANGED <<broken, accepted, systemVars>>

\* Plausible bug: new tables are created and the rows stay where they were.
MigrateFormsOnly(p) ==
    /\ at[p] = "migrate"
    /\ form' = [t \in Table |-> IF t \in DOMAIN Renamed THEN "v4" ELSE "absent"]
    /\ Move(p, "create")
    /\ UNCHANGED <<rows, broken, accepted, systemVars>>

\* _migrate_v3_to_v4, one transaction.  Whoever comes second finds no table
\* to rename: its script raises and is rolled back.
MigrateV3(p) ==
    /\ at[p] = "migrate"
    /\ IF form["workflows"] # "v3"
       THEN Decide(p, "ended")
       ELSE /\ form' = [t \in Table |-> IF t \in DOMAIN Renamed THEN "v4"
                                                                ELSE "absent"]
            /\ rows' = [t \in Table |-> IF t \in DOMAIN Renamed
                                        THEN rows[Renamed[t]] ELSE {}]
            /\ Move(p, "create")
            /\ UNCHANGED <<broken, accepted, systemVars>>

\* Plausible bug: an empty table takes the place of one that has been repaired.
RepairOnce(p) ==
    /\ at[p] = "repair"
    /\ form' = [t \in Table |-> IF t \in broken[p] THEN "v4" ELSE form[t]]
    /\ rows' = [t \in Table |-> IF t \in broken[p] /\ form[t] # "misaimed"
                                THEN {} ELSE rows[t]]
    /\ broken' = [broken EXCEPT ![p] = {}]
    /\ Move(p, "create")
    /\ UNCHANGED <<accepted, systemVars>>

\* _repair_v4_foreign_keys, one transaction: copies the tables that were seen
\* broken, even if another process has repaired them since.
RepairKeys(p) ==
    /\ at[p] = "repair"
    /\ IF \E t \in broken[p] : form[t] = "absent"
       THEN /\ Move(p, "ended")
            /\ UNCHANGED <<form, rows>>
       ELSE /\ form' = [t \in Table |-> IF t \in broken[p] THEN "v4" ELSE form[t]]
            /\ Move(p, "create")
            /\ UNCHANGED rows
    /\ broken' = [broken EXCEPT ![p] = {}]
    /\ UNCHANGED <<accepted, systemVars>>

\* One CREATE ... IF NOT EXISTS of the script, committed by itself.
Create(p) ==
    /\ at[p] = "create"
    /\ LET t == CreateScript[next[p]]
           last == next[p] = Len(CreateScript)
       IN  /\ form' = [form EXCEPT ![t] = IF @ = "absent" THEN "v4" ELSE @]
           /\ at' = [at EXCEPT ![p] = IF last THEN "ready" ELSE "create"]
           /\ next' = [next EXCEPT ![p] = IF last THEN 1 ELSE @ + 1]
    /\ UNCHANGED <<rows, broken, accepted, systemVars>>

-----------------------------------------------------------------------------
(* The processes after their start. *)

\* create_workflow_run, one transaction, answered with 201; on any other form
\* of a table its INSERTs raise and nothing is committed.
Accept(r) ==
    /\ at[Api] = "ready"
    /\ r \notin accepted \cup OldRun
    /\ \A t \in Current \ {"event_triggers"} : form[t] = "v4"
    /\ \E linked \in BOOLEAN :
          rows' = [t \in Table |->
              IF \/ t \in {"workflow_runs", "steps", "workflow_run_events"}
                 \/ linked /\ t = "step_dependencies"
              THEN rows[t] \cup {r} ELSE rows[t]]
    /\ accepted' = accepted \cup {r}
    /\ UNCHANGED <<form, at, next, broken, systemVars>>

\* A worker's statement on a table that is not there raises out of its loop;
\* the API answers an error and goes on.
Stumble(p) ==
    /\ at[p] = "ready" /\ p # Api
    /\ \E t \in Current \ {"event_triggers"} : form[t] = "absent"
    /\ Decide(p, "ended")

-----------------------------------------------------------------------------
(* Ends, replacements and further starts. *)

End(p) ==
    /\ at[p] # "ended"
    /\ broken' = [broken EXCEPT ![p] = {}]
    /\ Move(p, "ended")

\* It is killed at any point; what it has committed stays.
Die(p) ==
    /\ deaths < MaxDeaths
    /\ deaths' = deaths + 1
    /\ End(p)
    /\ UNCHANGED <<dataVars, supervisor, found>>

\* Supervisor.monitor: a worker slot is filled again, also later in the pass
\* that has found the API gone.
Restart(p) ==
    /\ p # Api /\ at[p] = "ended"
    /\ supervisor \in {"monitoring", "leaving"}
    /\ Decide(p, "start")

Supervise(place) ==
    /\ supervisor' = place
    /\ UNCHANGED <<dataVars, at, next, broken, deaths, found>>

\* Supervisor.monitor: the API is not replaced.
MissApi ==
    /\ supervisor = "monitoring" /\ at[Api] = "ended"
    /\ Supervise("leaving")

LeaveMonitor == supervisor = "leaving" /\ Supervise("stopping")

\* Supervisor.stop: everyone is asked to end, and killed after five seconds.
Stop(p) ==
    /\ supervisor = "stopping"
    /\ End(p)
    /\ UNCHANGED <<dataVars, systemVars>>

\* Whoever runs the system starts it again.
StartAgain ==
    /\ supervisor = "stopping"
    /\ \A p \in Process : at[p] = "ended"
    /\ supervisor' = "monitoring"
    /\ at' = [p \in Process |-> "start"]
    /\ next' = [p \in Process |-> 1]
    /\ UNCHANGED <<dataVars, broken, deaths, found>>

Initialize(p) ==
    \/ Look(p) \/ ReadColumns(p) \/ CountWorkflows(p)
    \/ ReadStepKeys(p) \/ ReadLeaseKeys(p)
    \/ Drop(p) \/ MigrateV3(p) \/ RepairKeys(p) \/ Create(p)

StartupNext ==
    \/ \E p \in Process :
          Initialize(p) \/ Stumble(p) \/ Die(p) \/ Restart(p) \/ Stop(p)
    \/ \E r \in Run : Accept(r)
    \/ MissApi \/ LeaveMonitor \/ StartAgain

\* A process executes its next statement, and the supervisor polls and stops
\* its children.  Nobody has to start a stopped system again.
StartupFairness ==
    /\ \A p \in Process : /\ WF_startupVars(Initialize(p))
                          /\ WF_startupVars(Restart(p))
                          /\ WF_startupVars(Stop(p))
    /\ WF_startupVars(MissApi) /\ WF_startupVars(LeaveMonitor)

StartupSpec == StartupInit /\ [][StartupNext]_startupVars /\ StartupFairness

-----------------------------------------------------------------------------
(* Properties. *)

RunKept(r) ==
    /\ r \in rows["workflow_runs"] \cup rows["workflows"]
    /\ r \in rows["steps"]
    /\ r \in rows["workflow_run_events"] \cup rows["workflow_events"]

\* A run that was ever accepted, by this version or an earlier one, keeps its
\* row, its steps and its history, whoever starts, migrates or is killed when,
\* unless the system was first started on an empty pre-DAG database: that one
\* is dropped, and a slow process drops what a quick one has made since
\* (AnsweredRunsAreKept).
AcceptedRunsAreKept ==
    found # "preDagEmpty" => \A r \in accepted : RunKept(r)

\* A process that has finished its start finds every table in the form the
\* code works on, until it ends: a table left over from an earlier schema is
\* never mistaken for a current one, and nobody takes one away again, with the
\* same exception of a system first started on an empty pre-DAG database.
ReadyMeansCurrent ==
    found # "preDagEmpty" /\ (\E p \in Process : at[p] = "ready") =>
        \A t \in Current : form[t] = "v4"

\* create_workflow in api.py: "A 201 means the definition snapshot, creation
\* event, and scheduling projection committed together".  Not so on an empty
\* pre-DAG database, where a worker may still be dropping tables.
AnsweredRunsAreKept == \A r \in accepted : RunKept(r)

\* "workflows" of a pre-DAG schema: the code refuses to go on.
Refused == form["workflows"] = "preDag" /\ rows["workflows"] # {}

\* A start that loses a race with another one raises; if it is the API's, the
\* whole system stops.  But if the system is started again whenever it has
\* stopped, every process comes to work with the database in the end, unless
\* that holds pre-DAG workflows: starts do not keep each other from finishing
\* for ever.
EveryStartSucceeds ==
    ([]<>(supervisor = "monitoring")) =>
        \A p \in Process : <>[](at[p] = "ready" \/ Refused)
=============================================================================
