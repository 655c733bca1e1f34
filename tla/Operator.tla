------------------------------- MODULE Operator -------------------------------
(***************************************************************************)
(* Whoever deals with runs from outside while the engine runs: a client    *)
(* that reads a run, audits it or rebuilds its projection, one call after  *)
(* the other, while workers commit between any two of its steps.           *)
(***************************************************************************)
EXTENDS Rebuild, Readers

operatorVars == <<vars, rebuildVars, readVars>>

OperatorInit == Init /\ RebuildInit /\ ReaderInit

OperatorNext ==
    \/ Next /\ UNCHANGED <<rebuildVars, readVars>>
    \/ Read /\ snapshot = NoSnapshot /\ UNCHANGED rebuildVars
    \/ Rebuild /\ seen = {} /\ UNCHANGED readVars

OperatorSpec == OperatorInit /\ [][OperatorNext]_operatorVars
=============================================================================
