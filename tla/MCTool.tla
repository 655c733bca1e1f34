------------------------------- MODULE MCTool -------------------------------
(* The tool with its files: keys in the old database, its WAL, or neither. *)
EXTENDS Ledger

CONSTANTS k1, k2, p1, p2

MCKey == {k1, k2}
MCPayload == {p1, p2}
MCAnswers == {"error"}
=============================================================================
