------------------------------- MODULE Ledger -------------------------------
(***************************************************************************)
(* The tool with the files of its ledger, through deaths and restarts of   *)
(* its process (crashsafe/mock_tool.py).  ToolStore opens ledger.db, and   *)
(* on the first start after the file's name has changed it moves tools.db  *)
(* there, file by file, before it opens it.                                *)
(*                                                                         *)
(* What SQLite has committed is the database file together with the WAL of *)
(* the same name; a checkpoint moves the WAL's content into the file and   *)
(* the last connection to close removes the WAL, which a killed process    *)
(* leaves behind.  The shared-memory index holds nothing of its own.       *)
(* `results` is what a connection to the open ledger sees; `effects` are   *)
(* the tool's effects on the world, whichever file they are written in.    *)
(***************************************************************************)
EXTENDS Tool, Sequences

VARIABLES
    content,    \* of each file: the keys whose effect and result it holds
    files,      \* the files that exist
    at,         \* "down", in "rename", or "serving"
    next        \* the suffix to rename next

fileVars == <<content, files, at, next>>

Suffixes == <<"db", "wal", "shm">>
File == {"tools", "ledger"} \X {"db", "wal", "shm"}

\* Any ledger the version before the renaming may have left, or none; the
\* process of that version may have been killed before a checkpoint.
LedgerInit ==
    /\ \E saved, logged \in SUBSET Key, old \in BOOLEAN, p \in Payload :
          /\ logged \cap saved = {}
          /\ old \/ (saved = {} /\ logged = {})
          /\ files = IF ~ old THEN {}
                     ELSE {<<"tools", "db">>} \cup
                          (IF logged # {} THEN {<<"tools", "wal">>, <<"tools", "shm">>}
                                          ELSE {})
          /\ content = [f \in File |-> CASE f = <<"tools", "db">> -> saved
                                         [] f = <<"tools", "wal">> -> logged
                                         [] OTHER -> {}]
          /\ results = [k \in Key |-> IF k \in saved \cup logged
                                      THEN [ref |-> 1, payload |-> p]
                                      ELSE NoResult]
          /\ effects = {[key |-> k, ref |-> 1] : k \in saved \cup logged}
    /\ calls = {} /\ open = {} /\ replies = {}
    /\ at = "down"
    /\ next = 1

-----------------------------------------------------------------------------
(* ToolStore.__init__ *)

\* _initialize: opening creates the database, and what it and its WAL hold is
\* all that the tool knows.
Open(kept, held) ==
    /\ at' = "serving"
    /\ next' = 1
    /\ files' = kept \cup {<<"ledger", "db">>}
    /\ results' = [k \in Key |->
                      IF k \in held[<<"ledger", "db">>] \cup held[<<"ledger", "wal">>]
                      THEN results[k] ELSE NoResult]

\* Plausible bug: an old ledger is not looked for.
OpenNew ==
    /\ at = "down"
    /\ Open(files, content)
    /\ UNCHANGED <<content, effects, calls, open, replies>>

\* _migrate_legacy_filename returns at once, or begins to rename.
Start ==
    /\ at = "down"
    /\ IF <<"ledger", "db">> \in files \/ <<"tools", "db">> \notin files
       THEN Open(files, content)
       ELSE at' = "rename" /\ UNCHANGED <<files, next, results>>
    /\ UNCHANGED <<content, effects, calls, open, replies>>

\* source.replace(target), if there is such a file, for one suffix.
Rename ==
    /\ at = "rename"
    /\ LET old == <<"tools", Suffixes[next]>>
           new == <<"ledger", Suffixes[next]>>
           moved == IF old \in files THEN (files \ {old}) \cup {new} ELSE files
       IN  /\ content' = IF old \in files
                         THEN [content EXCEPT ![new] = content[old], ![old] = {}]
                         ELSE content
           /\ IF next = Len(Suffixes)
              THEN Open(moved, content')
              ELSE files' = moved /\ next' = next + 1 /\ UNCHANGED <<at, results>>
    /\ UNCHANGED <<effects, calls, open, replies>>

-----------------------------------------------------------------------------
(* The tool at work. *)

\* A step of the service; what apply commits goes to the WAL.
Work ==
    /\ at = "serving"
    /\ Serve
    /\ LET written == {k \in Key : results'[k] # results[k]}
       IN  IF written = {}
           THEN UNCHANGED fileVars
           ELSE /\ content' = [content EXCEPT ![<<"ledger", "wal">>] = @ \cup written]
                /\ files' = files \cup {<<"ledger", "wal">>, <<"ledger", "shm">>}
                /\ UNCHANGED <<at, next>>

\* Without a process there is nobody to connect to.
Connect ==
    /\ Client
    /\ calls' # calls => at = "serving"
    /\ UNCHANGED fileVars

\* The last connection closes.
Checkpoint ==
    /\ at = "serving"
    /\ content' = [content EXCEPT ![<<"ledger", "db">>] =
                                      @ \cup content[<<"ledger", "wal">>],
                                  ![<<"ledger", "wal">>] = {}]
    /\ files' = files \ {<<"ledger", "wal">>, <<"ledger", "shm">>}
    /\ UNCHANGED <<at, next, toolVars>>

\* The process is killed anywhere, between two renames too, with the requests
\* in its threads; files stay.
Die ==
    /\ at # "down"
    /\ at' = "down"
    /\ next' = 1
    /\ calls' = {}
    /\ UNCHANGED <<content, files, results, effects, open, replies>>

LedgerNext == Start \/ Rename \/ Work \/ Connect \/ Checkpoint \/ Die

LedgerSpec == LedgerInit /\ [][LedgerNext]_<<toolVars, fileVars>>

-----------------------------------------------------------------------------
(* Properties. *)

\* The keys that the open ledger shows.
Shown == content[<<"ledger", "db">>] \cup content[<<"ledger", "wal">>]

\* The process was killed when the database had its new name and the WAL with
\* the key's result still had the old one, under which nobody will look for it.
Stranded(k) ==
    /\ at # "rename" /\ <<"ledger", "db">> \in files
    /\ k \in content[<<"tools", "wal">>]

\* No result that was committed under either name is ever lost or replaced,
\* through kills, restarts, checkpoints and the renaming, except that a kill
\* between two renames loses what only the old WAL holds (ContentsAreKept).
ResultsAreKept ==
    [][\A k \in Key :
          results[k] # NoResult /\ (Stranded(k) => k \in Shown) =>
              results'[k] = results[k]]_results

\* The effects a key has had are the one its result names, or none if it has
\* no result: neither a kill nor the renaming makes a repeated request have a
\* second effect.  The exception is a key whose result is left in the old WAL:
\* its effect is forgotten, and a repeated request has another one.
EffectsAreKnown ==
    \A k \in Key : ~ Stranded(k) =>
        {e.ref : e \in {f \in effects : f.key = k}} =
            IF results[k] = NoResult THEN {} ELSE {results[k].ref}

\* README.md on tools.db: it is "renamed to `ledger.db` without discarding its
\* contents".  Not so when the process is killed between two renames.
ContentsAreKept ==
    [][\A k \in Key : results[k] # NoResult => results'[k] = results[k]]_results
=============================================================================
