---------------------------- MODULE StartupProofs ----------------------------
(***************************************************************************)
(* However many processes start at once, wherever they end, and however    *)
(* often the system is started again: the tables keep to the known forms,  *)
(* and on every database but an empty pre-DAG one an accepted run stays    *)
(* and a ready process finds current tables.                               *)
(***************************************************************************)
EXTENDS Startup, TLAPS

Forms == {"absent", "preDag", "v3", "misaimed", "v4"}
Keyed == {"steps", "workflow_run_leases"}

\* Who executes a script has a statement of it to execute.
InScript(p) ==
    /\ at[p] = "drop" => next[p] \in 1 .. Len(DropScript)
    /\ at[p] = "create" => next[p] \in 1 .. Len(CreateScript)

StartupTypes == StartupTypeOK /\ \A p \in Process : InScript(p)

\* While there is a table `workflows`, the runs are where an earlier version
\* put them, and it is not empty.
OldRunsKept ==
    form["workflows"] # "absent" =>
        /\ \A r \in accepted : /\ r \in rows["workflows"]
                               /\ r \in rows["steps"]
                               /\ r \in rows["workflow_events"]
        /\ rows["workflows"] # {}

\* Once there is none, they are in the current tables, of which two may still
\* have misaimed foreign keys.
NewRunsKept ==
    form["workflows"] = "absent" =>
        /\ \A r \in accepted : /\ r \in rows["workflow_runs"]
                               /\ r \in rows["steps"]
                               /\ r \in rows["workflow_run_events"]
        /\ \A t \in Current :
              \/ form[t] \in {"absent", "v4"}
              \/ form[t] = "misaimed" /\ t \in Keyed

Aimed == form["steps"] # "misaimed" /\ form["workflow_run_leases"] # "misaimed"

\* What a process has seen and done, by the place it has come to.
PlaceIsEarned(p) ==
    /\ at[p] # "drop"
    /\ at[p] \in {"stepKeys", "leaseKeys", "repair", "create", "ready"} =>
          form["workflows"] = "absent"
    /\ at[p] \in {"leaseKeys", "repair"} /\ form["steps"] = "misaimed" =>
          "steps" \in broken[p]
    /\ at[p] = "repair" /\ form["workflow_run_leases"] = "misaimed" =>
          "workflow_run_leases" \in broken[p]
    /\ at[p] \in {"create", "ready"} => Aimed
    /\ at[p] = "create" =>
          \A i \in DOMAIN CreateScript :
             i < next[p] => form[CreateScript[i]] = "v4"
    /\ at[p] = "ready" => \A t \in Current : form[t] = "v4"

RunsKept ==
    /\ OldRunsKept
    /\ NewRunsKept
    /\ \A p \in Process : PlaceIsEarned(p)

\* The inductive invariant.
StartupInv == StartupTypes /\ (found # "preDagEmpty" => RunsKept)

-----------------------------------------------------------------------------
(* The tables, by name. *)

LEMMA Tables ==
    /\ Table = {"event_triggers", "step_dependencies", "workflow_leases",
                "workflow_run_leases", "tool_throttles", "steps", "workflows",
                "workflow_runs", "workflow_events", "workflow_run_events"}
    /\ Current = {"workflow_runs", "steps", "step_dependencies",
                  "workflow_run_events", "workflow_run_leases",
                  "tool_throttles", "event_triggers"}
    /\ OldTable = {"workflows", "workflow_events", "workflow_leases", "steps",
                   "step_dependencies", "tool_throttles"}
  BY DEF Table, Current, DropScript, CreateScript, OldTable, Renamed

LEMMA Scripts ==
    /\ Len(DropScript) = 10 /\ DOMAIN DropScript = 1 .. 10
    /\ \A i \in 1 .. 10 : DropScript[i] \in Table
    /\ Len(CreateScript) = 7 /\ DOMAIN CreateScript = 1 .. 7
    /\ \A i \in 1 .. 7 : CreateScript[i] \in Current
    /\ Current \subseteq Table
  BY DEF Table, Current, DropScript, CreateScript

\* The type invariant with the lengths of the scripts written out.
LEMMA TypesUnfold ==
    StartupTypes <=>
        /\ form \in [Table -> Forms]
        /\ rows \in [Table -> SUBSET Run]
        /\ at \in [Process -> Place]
        /\ next \in [Process -> 1 .. 11]
        /\ broken \in [Process -> SUBSET Keyed]
        /\ accepted \subseteq Run
        /\ deaths \in 0 .. MaxDeaths
        /\ supervisor \in {"monitoring", "leaving", "stopping"}
        /\ found \in Found
        /\ \A t \in Table : form[t] = "absent" => rows[t] = {}
        /\ \A p \in Process : /\ at[p] = "drop" => next[p] \in 1 .. 10
                              /\ at[p] = "create" => next[p] \in 1 .. 7
  BY Scripts DEF StartupTypes, StartupTypeOK, InScript, Forms, Keyed

LEMMA NextTypesUnfold ==
    StartupTypes' <=>
        /\ form' \in [Table -> Forms]
        /\ rows' \in [Table -> SUBSET Run]
        /\ at' \in [Process -> Place]
        /\ next' \in [Process -> 1 .. 11]
        /\ broken' \in [Process -> SUBSET Keyed]
        /\ accepted' \subseteq Run
        /\ deaths' \in 0 .. MaxDeaths
        /\ supervisor' \in {"monitoring", "leaving", "stopping"}
        /\ found' \in Found
        /\ \A t \in Table : form'[t] = "absent" => rows'[t] = {}
        /\ \A p \in Process : /\ at'[p] = "drop" => next'[p] \in 1 .. 10
                              /\ at'[p] = "create" => next'[p] \in 1 .. 7
  BY Scripts DEF StartupTypes, StartupTypeOK, InScript, Forms, Keyed

-----------------------------------------------------------------------------
(* Steps that leave the database alone. *)

\* p moves to a place and may learn of misaimed tables.
Moves(p, place) ==
    /\ p \in Process /\ place \in Place /\ Move(p, place)
    /\ UNCHANGED <<dataVars, supervisor, found>>
    /\ deaths' \in 0 .. MaxDeaths
    /\ broken' \in [Process -> SUBSET Keyed]
    /\ \A q \in Process \ {p} : broken'[q] = broken[q]

LEMMA MovesTypes ==
    ASSUME StartupTypes, NEW p, NEW place, Moves(p, place)
    PROVE  /\ StartupTypes'
           /\ at'[p] = place /\ next'[p] = 1
           /\ \A q \in Process \ {p} :
                 at'[q] = at[q] /\ next'[q] = next[q] /\ broken'[q] = broken[q]
  <1>1. /\ at \in [Process -> Place] /\ next \in [Process -> 1 .. 11]
        /\ \A q \in Process : /\ at[q] = "drop" => next[q] \in 1 .. 10
                              /\ at[q] = "create" => next[q] \in 1 .. 7
    BY TypesUnfold
  <1>2. /\ at' = [at EXCEPT ![p] = place] /\ next' = [next EXCEPT ![p] = 1]
        /\ p \in Process /\ place \in Place
    BY DEF Moves, Move
  <1>3. /\ at' \in [Process -> Place] /\ next' \in [Process -> 1 .. 11]
        /\ at'[p] = place /\ next'[p] = 1
        /\ \A q \in Process \ {p} : at'[q] = at[q] /\ next'[q] = next[q]
    BY <1>1, <1>2
  <1>4. \A q \in Process : /\ at'[q] = "drop" => next'[q] \in 1 .. 10
                           /\ at'[q] = "create" => next'[q] \in 1 .. 7
    BY <1>1, <1>3
  <1>5. StartupTypes'
    BY <1>3, <1>4, TypesUnfold, NextTypesUnfold DEF Moves, dataVars
  <1>6. QED
    BY <1>3, <1>5 DEF Moves

\* The runs stay, if what its new place means is true.
LEMMA MovesKept ==
    ASSUME StartupTypes, RunsKept, NEW p, NEW place, Moves(p, place),
           PlaceIsEarned(p)'
    PROVE  RunsKept'
  <1>1. OldRunsKept' /\ NewRunsKept'
    BY DEF Moves, dataVars, RunsKept, OldRunsKept, NewRunsKept
  <1>2. ASSUME NEW q \in Process \ {p}
        PROVE  PlaceIsEarned(q)'
    <2>1. at'[q] = at[q] /\ next'[q] = next[q] /\ broken'[q] = broken[q]
      BY MovesTypes
    <2>2. form' = form
      BY DEF Moves, dataVars
    <2>3. PlaceIsEarned(q)
      BY DEF RunsKept
    <2>4. QED
      BY <2>1, <2>2, <2>3 DEF PlaceIsEarned, Aimed
  <1>3. QED
    BY <1>1, <1>2 DEF RunsKept

\* A look at the schema, an error, or the start of a replacement.
LEMMA DecideStep ==
    ASSUME StartupInv, NEW p \in Process, NEW place \in Place,
           Decide(p, place),
           found = "preDagEmpty"
               \/ place \in {"start", "columns", "count", "migrate", "ended"}
               \/ (place = "stepKeys" /\ form["workflows"] = "absent")
    PROVE  StartupInv'
  <1>1. Moves(p, place)
    BY TypesUnfold DEF StartupInv, Decide, systemVars, dataVars, Moves
  <1>2. StartupTypes' /\ at'[p] = place
    BY <1>1, MovesTypes DEF StartupInv
  <1>3. found' = found /\ form' = form
    BY <1>1 DEF Moves, dataVars
  <1>4. ASSUME found # "preDagEmpty"
        PROVE  RunsKept'
    <2>1. PlaceIsEarned(p)'
      BY <1>2, <1>3, <1>4 DEF PlaceIsEarned
    <2>2. QED
      BY <1>1, <1>4, <2>1, MovesKept DEF StartupInv
  <1>5. QED
    BY <1>2, <1>3, <1>4 DEF StartupInv

LEMMA LookStep ==
    ASSUME StartupInv, NEW p \in Process,
           Look(p) \/ ReadColumns(p) \/ CountWorkflows(p)
    PROVE  StartupInv'
  <1>1. CASE Look(p)
    BY <1>1, DecideStep DEF Look, Place
  <1>2. CASE ReadColumns(p)
    BY <1>2, DecideStep DEF ReadColumns, Place
  <1>3. CASE CountWorkflows(p)
    <2>1. CASE form["workflows"] = "absent" \/ rows["workflows"] # {}
      BY <1>3, <2>1, DecideStep DEF CountWorkflows, Place
    <2>2. CASE form["workflows"] # "absent" /\ rows["workflows"] = {}
      <3>1. found = "preDagEmpty"
        BY <2>2 DEF StartupInv, RunsKept, OldRunsKept
      <3>2. QED
        BY <1>3, <2>2, <3>1, DecideStep DEF CountWorkflows, Place
    <2>3. QED
      BY <2>1, <2>2
  <1>4. QED
    BY <1>1, <1>2, <1>3

\* Foreign keys are read table by table, while others repair them.
LEMMA ReadKeysStep ==
    ASSUME StartupInv, NEW p \in Process, ReadStepKeys(p) \/ ReadLeaseKeys(p)
    PROVE  StartupInv'
  <1>1. PICK t \in Keyed, here \in {"stepKeys", "leaseKeys"},
             there \in {"leaseKeys", "repair"} :
            /\ ReadKeys(p, t, here, there)
            /\ here = "stepKeys" => t = "steps" /\ there = "leaseKeys"
            /\ here = "leaseKeys" =>
                  t = "workflow_run_leases" /\ there = "repair"
    BY DEF ReadStepKeys, ReadLeaseKeys, Keyed
  <1>2. /\ at[p] = here /\ UNCHANGED <<dataVars, systemVars>>
        /\ Move(p, there)
        /\ broken' = [broken EXCEPT ![p] =
             broken[p] \cup (IF form[t] = "misaimed" THEN {t} ELSE {})]
    BY <1>1 DEF ReadKeys
  <1>3. broken \in [Process -> SUBSET Keyed] /\ deaths \in 0 .. MaxDeaths
    BY TypesUnfold DEF StartupInv
  <1>4. /\ broken[p] \subseteq broken'[p]
        /\ form[t] = "misaimed" => t \in broken'[p]
        /\ broken' \in [Process -> SUBSET Keyed]
        /\ \A q \in Process \ {p} : broken'[q] = broken[q]
    BY <1>2, <1>3
  <1>5. Moves(p, there)
    BY <1>2, <1>3, <1>4 DEF Moves, Place, systemVars
  <1>6. StartupTypes' /\ at'[p] = there
    BY <1>5, MovesTypes DEF StartupInv
  <1>7. form' = form /\ found' = found
    BY <1>2 DEF dataVars, systemVars
  <1>8. ASSUME found # "preDagEmpty"
        PROVE  RunsKept'
    <2>1. PlaceIsEarned(p)
      BY <1>8 DEF StartupInv, RunsKept
    <2>2. PlaceIsEarned(p)'
      BY <1>1, <1>2, <1>4, <1>6, <1>7, <2>1 DEF PlaceIsEarned
    <2>3. QED
      BY <1>5, <1>8, <2>2, MovesKept DEF StartupInv
  <1>9. QED
    BY <1>6, <1>7, <1>8 DEF StartupInv

\* A process is killed or stopped.
LEMMA EndStep ==
    ASSUME StartupInv, NEW p \in Process, End(p), deaths' \in 0 .. MaxDeaths,
           UNCHANGED <<dataVars, supervisor, found>>
    PROVE  StartupInv'
  <1>1. broken \in [Process -> SUBSET Keyed]
    BY TypesUnfold DEF StartupInv
  <1>2. Moves(p, "ended")
    BY <1>1 DEF End, Moves, Place
  <1>3. StartupTypes' /\ at'[p] = "ended"
    BY <1>2, MovesTypes DEF StartupInv
  <1>4. PlaceIsEarned(p)'
    BY <1>3 DEF PlaceIsEarned
  <1>5. QED
    BY <1>2, <1>3, <1>4, MovesKept DEF StartupInv

LEMMA EndSteps ==
    ASSUME StartupAssumption, StartupInv, NEW p \in Process,
           Die(p) \/ Stop(p)
    PROVE  StartupInv'
  <1>1. deaths \in 0 .. MaxDeaths /\ MaxDeaths \in Nat
    BY TypesUnfold DEF StartupInv, StartupAssumption
  <1>2. /\ End(p) /\ deaths' \in 0 .. MaxDeaths
        /\ UNCHANGED <<dataVars, supervisor, found>>
    BY <1>1 DEF Die, Stop, systemVars
  <1>3. QED
    BY <1>2, EndStep

\* The supervisor changes its mind, or the system is started again.
LEMMA SuperviseStep ==
    ASSUME StartupInv, MissApi \/ LeaveMonitor \/ StartAgain
    PROVE  StartupInv'
  <1>1. /\ UNCHANGED <<dataVars, broken, deaths, found>>
        /\ supervisor' \in {"monitoring", "leaving", "stopping"}
    BY DEF MissApi, LeaveMonitor, StartAgain, Supervise
  <1>2. CASE UNCHANGED <<at, next>>
    <2>1. StartupTypes'
      BY <1>1, <1>2, TypesUnfold, NextTypesUnfold DEF StartupInv, dataVars
    <2>2. RunsKept => RunsKept'
      BY <1>1, <1>2 DEF RunsKept, OldRunsKept, NewRunsKept, PlaceIsEarned,
                        Aimed, dataVars
    <2>3. QED
      BY <1>1, <2>1, <2>2 DEF StartupInv
  <1>3. CASE StartAgain
    <2>1. /\ at' = [p \in Process |-> "start"]
          /\ next' = [p \in Process |-> 1]
      BY <1>3 DEF StartAgain
    <2>2. StartupTypes'
      <3>1. at' \in [Process -> Place] /\ next' \in [Process -> 1 .. 11]
        BY <2>1 DEF Place
      <3>2. \A p \in Process : at'[p] = "start"
        BY <2>1
      <3>3. QED
        BY <1>1, <3>1, <3>2, TypesUnfold, NextTypesUnfold
           DEF StartupInv, dataVars
    <2>3. RunsKept => RunsKept'
      BY <1>1, <2>1 DEF RunsKept, OldRunsKept, NewRunsKept, PlaceIsEarned,
                        dataVars
    <2>4. QED
      BY <1>1, <2>2, <2>3 DEF StartupInv
  <1>4. QED
    BY <1>2, <1>3 DEF MissApi, LeaveMonitor, Supervise

-----------------------------------------------------------------------------
(* Steps that change the database. *)

\* Tables are dropped on an empty pre-DAG database only.
LEMMA DropStep ==
    ASSUME StartupInv, NEW p \in Process, Drop(p)
    PROVE  StartupInv'
  <1> DEFINE t == DropScript[next[p]]
             last == next[p] = Len(DropScript)
  <1>1. found = "preDagEmpty"
    BY DEF Drop, StartupInv, RunsKept, PlaceIsEarned
  <1>2. /\ at[p] = "drop" /\ next[p] \in 1 .. 10 /\ t \in Table
        /\ form \in [Table -> Forms] /\ rows \in [Table -> SUBSET Run]
        /\ at \in [Process -> Place] /\ next \in [Process -> 1 .. 11]
    BY TypesUnfold, Scripts DEF Drop, StartupInv
  <1>3. CASE Decide(p, "ended")
    BY <1>1, <1>3, DecideStep DEF Place
  <1>4. CASE ~ Decide(p, "ended")
    <2>1. /\ form' = [form EXCEPT ![t] = "absent"]
          /\ rows' = [rows EXCEPT ![t] = {}]
          /\ at' = [at EXCEPT ![p] = IF last THEN "create" ELSE "drop"]
          /\ next' = [next EXCEPT ![p] = IF last THEN 1 ELSE next[p] + 1]
          /\ UNCHANGED <<broken, accepted, systemVars>>
      BY <1>2, <1>4 DEF Drop
    <2>2. next' \in [Process -> 1 .. 11]
      BY <1>2, <2>1, Scripts
    <2>3. at' \in [Process -> Place]
      BY <1>2, <2>1 DEF Place
    <2>4. /\ form' \in [Table -> Forms] /\ rows' \in [Table -> SUBSET Run]
          /\ \A u \in Table : form'[u] = "absent" => rows'[u] = {}
      BY <1>2, <2>1, TypesUnfold DEF StartupInv, Forms
    <2>5. \A q \in Process : /\ at'[q] = "drop" => next'[q] \in 1 .. 10
                             /\ at'[q] = "create" => next'[q] \in 1 .. 7
      <3>1. ASSUME NEW q \in Process \ {p}
            PROVE  at'[q] = at[q] /\ next'[q] = next[q]
        BY <1>2, <2>1
      <3>2. CASE last
        <4>1. at'[p] = "create" /\ next'[p] = 1
          BY <1>2, <2>1, <3>2
        <4>2. QED
          BY <3>1, <4>1, TypesUnfold DEF StartupInv
      <3>3. CASE ~ last
        <4>1. at'[p] = "drop" /\ next'[p] = next[p] + 1
          BY <1>2, <2>1, <3>3
        <4>2. next'[p] \in 1 .. 10
          BY <1>2, <3>3, <4>1, Scripts
        <4>3. QED
          BY <3>1, <4>1, <4>2, TypesUnfold DEF StartupInv
      <3>4. QED
        BY <3>2, <3>3
    <2>6. StartupTypes'
      BY <2>1, <2>2, <2>3, <2>4, <2>5, TypesUnfold, NextTypesUnfold
         DEF StartupInv, systemVars
    <2>7. found' = found
      BY <2>1 DEF systemVars
    <2>8. QED
      BY <1>1, <2>6, <2>7 DEF StartupInv
  <1>5. QED
    BY <1>3, <1>4

\* What the repair and the creation of tables leave of what others know: no
\* current table loses its form.
Improves(p) ==
    /\ form["workflows"] = "absent" /\ PlaceIsEarned(p)'
    /\ \A t \in Table :
          \/ form'[t] = form[t]
          \/ form'[t] = "v4" /\ t \in Current
    /\ UNCHANGED <<rows, accepted>>
    /\ \A q \in Process \ {p} :
         /\ at'[q] = at[q]
         /\ next'[q] = next[q]
         /\ broken'[q] = broken[q]

LEMMA FormsImprove ==
    ASSUME RunsKept, NEW p \in Process, Improves(p)
    PROVE  RunsKept'
  <1> USE DEF Improves
  <1>1. "workflows" \in Table \ Current /\ "steps" \in Table
        /\ "workflow_run_leases" \in Table
    BY Tables
  <1>2. form'["workflows"] = "absent"
    BY <1>1
  <1>3. OldRunsKept'
    BY <1>2 DEF OldRunsKept
  <1>4. NewRunsKept'
    BY <1>2, Scripts DEF RunsKept, NewRunsKept
  <1>5. ASSUME NEW q \in Process \ {p}
        PROVE  PlaceIsEarned(q)'
    <2>1. PlaceIsEarned(q)
      BY DEF RunsKept
    <2>2. Aimed => Aimed'
      BY <1>1 DEF Aimed
    <2>3. QED
      BY <1>1, <1>2, <2>1, <2>2, Scripts DEF PlaceIsEarned
  <1>6. QED
    BY <1>3, <1>4, <1>5 DEF RunsKept

\* The repair rebuilds every table that has misaimed keys.
LEMMA RepairStep ==
    ASSUME StartupInv, NEW p \in Process, RepairKeys(p)
    PROVE  StartupInv'
  <1>1. /\ at[p] = "repair" /\ UNCHANGED <<accepted, systemVars>>
        /\ broken' = [broken EXCEPT ![p] = {}]
    BY DEF RepairKeys
  <1>2. /\ form \in [Table -> Forms] /\ rows \in [Table -> SUBSET Run]
        /\ at \in [Process -> Place] /\ next \in [Process -> 1 .. 11]
        /\ broken \in [Process -> SUBSET Keyed]
    BY TypesUnfold DEF StartupInv
  <1>3. CASE \E t \in broken[p] : form[t] = "absent"
    <2>1. /\ End(p) /\ deaths' \in 0 .. MaxDeaths
          /\ UNCHANGED <<dataVars, supervisor, found>>
      BY <1>1, <1>3, TypesUnfold
         DEF RepairKeys, End, StartupInv, dataVars, systemVars
    <2>2. QED
      BY <2>1, EndStep
  <1>4. CASE ~ \E t \in broken[p] : form[t] = "absent"
    <2>1. /\ form' = [t \in Table |-> IF t \in broken[p] THEN "v4" ELSE form[t]]
          /\ at' = [at EXCEPT ![p] = "create"]
          /\ next' = [next EXCEPT ![p] = 1] /\ UNCHANGED rows
      BY <1>4 DEF RepairKeys, Move
    <2>2. broken[p] \subseteq Keyed /\ Keyed \subseteq Current
      BY <1>2, Tables DEF Keyed
    <2>3. /\ at'[p] = "create" /\ next'[p] = 1
          /\ \A q \in Process \ {p} : /\ at'[q] = at[q]
                                      /\ next'[q] = next[q]
                                      /\ broken'[q] = broken[q]
      BY <1>1, <1>2, <2>1
    <2>4. StartupTypes'
      <3>1. at' \in [Process -> Place] /\ next' \in [Process -> 1 .. 11]
        BY <1>2, <2>1 DEF Place
      <3>2. form' \in [Table -> Forms] /\ broken' \in [Process -> SUBSET Keyed]
        BY <1>1, <1>2, <2>1 DEF Forms
      <3>3. \A t \in Table : form'[t] = "absent" => rows'[t] = {}
        BY <2>1, TypesUnfold DEF StartupInv
      <3>4. \A q \in Process : /\ at'[q] = "drop" => next'[q] \in 1 .. 10
                               /\ at'[q] = "create" => next'[q] \in 1 .. 7
        BY <2>3, TypesUnfold DEF StartupInv
      <3>5. QED
        BY <1>1, <2>1, <3>1, <3>2, <3>3, <3>4, TypesUnfold, NextTypesUnfold
           DEF StartupInv, systemVars
    <2>5. ASSUME found # "preDagEmpty"
          PROVE  RunsKept'
      <3>1. PlaceIsEarned(p)
        BY <2>5 DEF StartupInv, RunsKept
      <3>2. form["workflows"] = "absent"
        BY <1>1, <3>1 DEF PlaceIsEarned
      <3>3. Aimed'
        BY <1>1, <2>1, <3>1, Tables DEF PlaceIsEarned, Aimed
      <3>4. \A t \in Table : \/ form'[t] = form[t]
                             \/ form'[t] = "v4" /\ t \in Current
        BY <2>1, <2>2
      <3>5. form'["workflows"] = "absent"
        BY <3>2, <3>4, Tables
      <3>6. PlaceIsEarned(p)'
        BY <2>3, <3>3, <3>5, Scripts DEF PlaceIsEarned
      <3>7. Improves(p)
        BY <1>1, <2>1, <2>3, <3>2, <3>4, <3>6 DEF Improves
      <3>8. QED
        BY <2>5, <3>7, FormsImprove DEF StartupInv
    <2>6. QED
      BY <1>1, <2>4, <2>5 DEF StartupInv, systemVars
  <1>5. QED
    BY <1>3, <1>4

\* One table more is there; after the last one all are current.
LEMMA CreateStep ==
    ASSUME StartupInv, NEW p \in Process, Create(p)
    PROVE  StartupInv'
  <1> DEFINE t == CreateScript[next[p]]
             last == next[p] = Len(CreateScript)
  <1>1. /\ at[p] = "create" /\ UNCHANGED <<rows, broken, accepted, systemVars>>
        /\ next[p] \in 1 .. 7
        /\ form \in [Table -> Forms]
        /\ at \in [Process -> Place] /\ next \in [Process -> 1 .. 11]
    BY TypesUnfold DEF Create, StartupInv
  <1>2. t \in Current /\ t \in Table
    BY <1>1, Scripts
  <1>3. /\ form' = [form EXCEPT ![t] = IF form[t] = "absent" THEN "v4"
                                                            ELSE form[t]]
        /\ at' = [at EXCEPT ![p] = IF last THEN "ready" ELSE "create"]
        /\ next' = [next EXCEPT ![p] = IF last THEN 1 ELSE next[p] + 1]
    BY <1>1, <1>2 DEF Create
  <1>4. /\ \A u \in Table \ {t} : form'[u] = form[u]
        /\ form'[t] = IF form[t] = "absent" THEN "v4" ELSE form[t]
        /\ \A q \in Process \ {p} : /\ at'[q] = at[q]
                                    /\ next'[q] = next[q]
                                    /\ broken'[q] = broken[q]
    BY <1>1, <1>2, <1>3
  <1>5. \/ last /\ at'[p] = "ready" /\ next'[p] = 1
        \/ /\ ~ last /\ at'[p] = "create" /\ next'[p] = next[p] + 1
           /\ next'[p] \in 1 .. 7
    BY <1>1, <1>3, Scripts
  <1>6. StartupTypes'
    <2>1. at' \in [Process -> Place] /\ next' \in [Process -> 1 .. 11]
      BY <1>1, <1>3 DEF Place
    <2>2. form' \in [Table -> Forms]
      BY <1>1, <1>3 DEF Forms
    <2>3. \A u \in Table : form'[u] = "absent" => rows'[u] = {}
      BY <1>1, <1>4, TypesUnfold DEF StartupInv
    <2>4. \A q \in Process : /\ at'[q] = "drop" => next'[q] \in 1 .. 10
                             /\ at'[q] = "create" => next'[q] \in 1 .. 7
      BY <1>4, <1>5, TypesUnfold DEF StartupInv
    <2>5. QED
      BY <1>1, <2>1, <2>2, <2>3, <2>4, TypesUnfold, NextTypesUnfold
         DEF StartupInv, systemVars
  <1>7. ASSUME found # "preDagEmpty"
        PROVE  RunsKept'
    <2>1. RunsKept /\ PlaceIsEarned(p)
      BY <1>7 DEF StartupInv, RunsKept
    <2>2. /\ form["workflows"] = "absent" /\ Aimed
          /\ \A i \in 1 .. 7 : i < next[p] => form[CreateScript[i]] = "v4"
      BY <1>1, <2>1, Scripts DEF PlaceIsEarned
    <2>3. form[t] \in {"absent", "v4"}
      BY <1>2, <2>1, <2>2 DEF RunsKept, NewRunsKept, Aimed, Keyed
    <2>4. form'[t] = "v4" /\ \A u \in Table \ {t} : form'[u] = form[u]
      BY <1>4, <2>3
    <2>5. form'["workflows"] = "absent" /\ Aimed'
      BY <1>2, <2>2, <2>4, Tables DEF Aimed
    <2>6. \A i \in 1 .. 7 : i <= next[p] => form'[CreateScript[i]] = "v4"
      BY <1>1, <1>2, <2>2, <2>4, Scripts
    <2>7. PlaceIsEarned(p)'
      <3>1. CASE ~ last
        <4>1. \A i \in 1 .. 7 : i < next'[p] => form'[CreateScript[i]] = "v4"
          BY <1>1, <1>5, <2>6, <3>1
        <4>2. QED
          BY <1>5, <2>5, <3>1, <4>1, Scripts DEF PlaceIsEarned
      <3>2. CASE last
        <4>1. \A i \in 1 .. 7 : form'[CreateScript[i]] = "v4"
          BY <2>6, <3>2, Scripts
        <4>2. \A u \in Current : form'[u] = "v4"
          BY <4>1 DEF Current, CreateScript
        <4>3. QED
          BY <1>5, <2>5, <3>2, <4>2 DEF PlaceIsEarned
      <3>3. QED
        BY <3>1, <3>2
    <2>8. \A u \in Table : \/ form'[u] = form[u]
                           \/ form'[u] = "v4" /\ u \in Current
      BY <1>2, <2>4
    <2>9. Improves(p)
      BY <1>1, <1>4, <2>2, <2>7, <2>8 DEF Improves
    <2>10. QED
      BY <2>1, <2>9, FormsImprove
  <1>8. QED
    BY <1>1, <1>6, <1>7 DEF StartupInv, systemVars

\* The migration carries the rows over in one transaction, and nobody has got
\* further than it: no one works on the new tables yet.
LEMMA MigrateStep ==
    ASSUME StartupInv, NEW p \in Process, MigrateV3(p)
    PROVE  StartupInv'
  <1>1. CASE form["workflows"] # "v3"
    <2>1. Decide(p, "ended") /\ "ended" \in Place
      BY <1>1 DEF MigrateV3, Place
    <2>2. QED
      BY <2>1, DecideStep
  <1>2. CASE form["workflows"] = "v3"
    <2>1. /\ form' = [t \in Table |-> IF t \in DOMAIN Renamed THEN "v4"
                                                              ELSE "absent"]
          /\ rows' = [t \in Table |-> IF t \in DOMAIN Renamed
                                      THEN rows[Renamed[t]] ELSE {}]
          /\ at' = [at EXCEPT ![p] = "create"] /\ next' = [next EXCEPT ![p] = 1]
          /\ UNCHANGED <<broken, accepted, systemVars>>
      BY <1>2 DEF MigrateV3, Move
    <2>2. /\ rows \in [Table -> SUBSET Run]
          /\ at \in [Process -> Place] /\ next \in [Process -> 1 .. 11]
      BY TypesUnfold DEF StartupInv
    <2>3. DOMAIN Renamed \subseteq Table
          /\ \A t \in DOMAIN Renamed : Renamed[t] \in Table
      BY Tables DEF Renamed
    <2>4. /\ at'[p] = "create" /\ next'[p] = 1
          /\ \A q \in Process \ {p} : at'[q] = at[q] /\ next'[q] = next[q]
      BY <2>1, <2>2
    <2>5. StartupTypes'
      <3>1. at' \in [Process -> Place] /\ next' \in [Process -> 1 .. 11]
        BY <2>1, <2>2 DEF Place
      <3>2. rows' \in [Table -> SUBSET Run]
        BY <2>1, <2>2, <2>3
      <3>3. /\ form' \in [Table -> Forms]
            /\ \A t \in Table : form'[t] = "absent" => rows'[t] = {}
        BY <2>1 DEF Forms
      <3>4. \A q \in Process : /\ at'[q] = "drop" => next'[q] \in 1 .. 10
                               /\ at'[q] = "create" => next'[q] \in 1 .. 7
        BY <2>4, TypesUnfold DEF StartupInv
      <3>5. QED
        BY <2>1, <3>1, <3>2, <3>3, <3>4, TypesUnfold, NextTypesUnfold
           DEF StartupInv, systemVars
    <2>6. ASSUME found # "preDagEmpty"
          PROVE  RunsKept'
      <3>1. /\ form'["workflows"] = "absent"
            /\ \A t \in Table : form'[t] \in {"absent", "v4"}
            /\ rows'["workflow_runs"] = rows["workflows"]
            /\ rows'["steps"] = rows["steps"]
            /\ rows'["workflow_run_events"] = rows["workflow_events"]
        BY <2>1, Tables DEF Renamed
      <3>2. OldRunsKept' /\ NewRunsKept'
        BY <1>2, <2>1, <2>6, <3>1, Scripts
           DEF StartupInv, RunsKept, OldRunsKept, NewRunsKept
      <3>3. Aimed'
        BY <3>1, Tables DEF Aimed
      <3>4. ASSUME NEW q \in Process \ {p}
            PROVE  PlaceIsEarned(q)'
        <4>1. PlaceIsEarned(q)
          BY <2>6 DEF StartupInv, RunsKept
        <4>2. at[q] \notin {"drop", "stepKeys", "leaseKeys", "repair", "create",
                            "ready"}
          BY <1>2, <4>1 DEF PlaceIsEarned
        <4>3. QED
          BY <2>4, <4>2 DEF PlaceIsEarned
      <3>5. PlaceIsEarned(p)'
        BY <2>4, <3>1, <3>3, Scripts DEF PlaceIsEarned
      <3>6. QED
        BY <3>2, <3>4, <3>5 DEF RunsKept
    <2>7. QED
      BY <2>1, <2>5, <2>6 DEF StartupInv, systemVars
  <1>3. QED
    BY <1>1, <1>2

\* A run is accepted on current tables, when nobody drops any.
LEMMA AcceptStep ==
    ASSUME StartupAssumption, StartupInv, NEW r \in Run, Accept(r)
    PROVE  StartupInv'
  <1>1. PICK linked \in BOOLEAN :
            rows' = [t \in Table |->
              IF \/ t \in {"workflow_runs", "steps", "workflow_run_events"}
                 \/ linked /\ t = "step_dependencies"
              THEN rows[t] \cup {r} ELSE rows[t]]
    BY DEF Accept
  <1>2. /\ at[Api] = "ready" /\ accepted' = accepted \cup {r}
        /\ UNCHANGED <<form, at, next, broken, systemVars>>
        /\ \A t \in Current \ {"event_triggers"} : form[t] = "v4"
    BY DEF Accept
  <1>3. rows \in [Table -> SUBSET Run] /\ Api \in Process
    BY TypesUnfold DEF StartupInv, StartupAssumption
  <1>4. StartupTypes'
    <2>1. rows' \in [Table -> SUBSET Run]
      BY <1>1, <1>3
    <2>2. \A t \in Table : form'[t] = "absent" => rows'[t] = {}
      BY <1>1, <1>2, Tables, TypesUnfold DEF StartupInv
    <2>3. QED
      BY <1>2, <2>1, <2>2, TypesUnfold, NextTypesUnfold
         DEF StartupInv, systemVars
  <1>5. ASSUME found # "preDagEmpty"
        PROVE  RunsKept'
    <2>1. form["workflows"] = "absent"
      BY <1>2, <1>3, <1>5 DEF StartupInv, RunsKept, PlaceIsEarned
    <2>2. OldRunsKept' /\ NewRunsKept'
      BY <1>1, <1>2, <1>3, <1>5, <2>1, Tables
         DEF StartupInv, RunsKept, OldRunsKept, NewRunsKept
    <2>3. \A q \in Process : PlaceIsEarned(q)'
      BY <1>2, <1>5 DEF StartupInv, RunsKept, PlaceIsEarned, Aimed
    <2>4. QED
      BY <2>2, <2>3 DEF RunsKept
  <1>6. QED
    BY <1>2, <1>4, <1>5 DEF StartupInv, systemVars

-----------------------------------------------------------------------------
(* The invariant holds. *)

\* Any database an earlier version may have left, or none.
LEMMA StartupInitInv ==
    ASSUME StartupAssumption, StartupInit
    PROVE  StartupInv
  <1>1. /\ found \in Found
        /\ form = FoundForm(found) /\ rows = FoundRows(found)
        /\ accepted = IF found \in {"none", "preDagEmpty"} THEN {} ELSE OldRun
        /\ at = [p \in Process |-> "start"]
        /\ next = [p \in Process |-> 1]
        /\ broken = [p \in Process |-> {}]
        /\ deaths = 0 /\ supervisor = "monitoring"
    BY DEF StartupInit
  <1>2. found \in Databases /\ OldRun \subseteq Run /\ OldRun # {}
    BY <1>1 DEF StartupAssumption
  <1>3. form \in [Table -> Forms]
    BY <1>1 DEF FoundForm, Forms
  <1>4. rows \in [Table -> SUBSET Run]
        /\ \A t \in Table : form[t] = "absent" => rows[t] = {}
    BY <1>1, <1>2 DEF FoundRows
  <1>5. StartupTypes
    <2>1. at \in [Process -> Place] /\ next \in [Process -> 1 .. 11]
          /\ broken \in [Process -> SUBSET Keyed]
          /\ \A p \in Process : at[p] = "start"
      BY <1>1 DEF Place
    <2>2. accepted \subseteq Run /\ deaths \in 0 .. MaxDeaths
      BY <1>1, <1>2 DEF StartupAssumption
    <2>3. QED
      BY <1>1, <1>3, <1>4, <2>1, <2>2, TypesUnfold
  <1>6. ASSUME found # "preDagEmpty"
        PROVE  OldRunsKept /\ NewRunsKept
    <2>1. CASE found \in {"preDag", "v3"}
      <3>1. /\ form["workflows"] # "absent" /\ form["steps"] # "absent"
            /\ form["workflow_events"] # "absent"
        BY <1>1, <2>1, Tables DEF FoundForm, Misaimed
      <3>2. /\ rows["workflows"] = OldRun /\ rows["steps"] = OldRun
            /\ rows["workflow_events"] = OldRun
        BY <1>1, <2>1, <3>1, Tables DEF FoundRows
      <3>3. QED
        BY <1>1, <1>2, <2>1, <3>1, <3>2 DEF OldRunsKept, NewRunsKept
    <2>2. CASE found \in {"misaimed", "leaseMisaimed", "v4"}
      <3>1. /\ form["workflows"] = "absent"
            /\ \A t \in Current :
                  \/ form[t] = "v4"
                  \/ form[t] = "misaimed" /\ t \in Keyed
        BY <1>1, <2>2, Tables DEF FoundForm, Misaimed, Keyed
      <3>2. /\ rows["workflow_runs"] = OldRun /\ rows["steps"] = OldRun
            /\ rows["workflow_run_events"] = OldRun
        BY <1>1, <2>2, <3>1, Tables DEF FoundRows, Keyed
      <3>3. QED
        BY <1>1, <2>2, <3>1, <3>2 DEF OldRunsKept, NewRunsKept
    <2>3. CASE found = "none"
      <3>1. \A t \in Table : form[t] = "absent"
        BY <1>1, <2>3 DEF FoundForm, Misaimed
      <3>2. accepted = {}
        BY <1>1, <2>3
      <3>3. QED
        BY <3>1, <3>2, Tables DEF OldRunsKept, NewRunsKept
    <2>4. QED
      BY <1>2, <1>6, <2>1, <2>2, <2>3 DEF Databases
  <1>7. \A p \in Process : PlaceIsEarned(p)
    BY <1>1 DEF PlaceIsEarned
  <1>8. QED
    BY <1>5, <1>6, <1>7 DEF StartupInv, RunsKept

LEMMA StartupStutter ==
    ASSUME StartupInv, UNCHANGED startupVars
    PROVE  StartupInv'
  <1>1. StartupTypes'
    BY TypesUnfold, NextTypesUnfold DEF StartupInv, startupVars
  <1>2. RunsKept => RunsKept'
    BY DEF RunsKept, OldRunsKept, NewRunsKept, PlaceIsEarned, Aimed,
           startupVars
  <1>3. QED
    BY <1>1, <1>2 DEF StartupInv, startupVars

LEMMA StartupNextInv ==
    ASSUME StartupAssumption, StartupInv, [StartupNext]_startupVars
    PROVE  StartupInv'
  <1>1. ASSUME NEW p \in Process, Stumble(p) \/ Restart(p)
        PROVE  StartupInv'
    BY <1>1, DecideStep DEF Stumble, Restart, Place
  <1>2. QED
    BY <1>1, StartupStutter, LookStep, ReadKeysStep, DropStep, MigrateStep,
       RepairStep, CreateStep, EndSteps, SuperviseStep, AcceptStep
       DEF StartupNext, Initialize

\* All starts, races, deaths and stops keep the inductive invariant.
THEOREM StartupSafety == StartupSpec => []StartupInv
  <1>1. StartupAssumption
    BY StartupAssumption
  <1>2. StartupInit => StartupInv
    BY <1>1, StartupInitInv
  <1>3. StartupInv /\ [StartupNext]_startupVars => StartupInv'
    BY <1>1, StartupNextInv
  <1>4. QED
    BY <1>2, <1>3, PTL DEF StartupSpec

\* Every table keeps to the known forms, and what is absent has no rows, on
\* an empty pre-DAG database too.
THEOREM StartupTypeCorrect == StartupSpec => []StartupTypeOK
  <1>1. StartupInv => StartupTypeOK
    BY DEF StartupInv, StartupTypes
  <1>2. QED
    BY <1>1, StartupSafety, PTL

\* No start, whether it migrates, repairs, loses a race or ends half way, takes
\* the row, the steps or the history of an accepted run away, unless the first
\* one was on an empty pre-DAG database.
THEOREM AcceptedRunsAlwaysKept == StartupSpec => []AcceptedRunsAreKept
  <1>1. StartupInv => AcceptedRunsAreKept
    BY DEF StartupInv, RunsKept, OldRunsKept, NewRunsKept, AcceptedRunsAreKept,
           RunKept
  <1>2. QED
    BY <1>1, StartupSafety, PTL

\* The code of a process that is through with its start runs on version 4 of
\* every table, although its looks and its writes were not one transaction,
\* with the same exception.
THEOREM ReadyAlwaysMeansCurrent == StartupSpec => []ReadyMeansCurrent
  <1>1. StartupInv => ReadyMeansCurrent
    BY DEF StartupInv, RunsKept, PlaceIsEarned, ReadyMeansCurrent
  <1>2. QED
    BY <1>1, StartupSafety, PTL
=============================================================================
