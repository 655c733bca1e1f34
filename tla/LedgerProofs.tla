---------------------------- MODULE LedgerProofs ----------------------------
(***************************************************************************)
(* What the tool promises, it promises through kills at any point,         *)
(* restarts, checkpoints and the renaming of its ledger, for any number of *)
(* keys, payloads and requests, except to the keys whose result a kill     *)
(* between two renames has left in a WAL nobody opens.                     *)
(***************************************************************************)
EXTENDS Ledger, ToolProofs

\* What the files of the old name hold, committed in the database or its WAL.
Left == content[<<"tools", "db">>] \cup content[<<"tools", "wal">>]

FilesTypeOK ==
    /\ content \in [File -> SUBSET Key]
    /\ files \subseteq File
    /\ at \in {"down", "rename", "serving"}
    /\ next \in 1 .. 3

\* What the tool answers from is what some file holds, and what it has
\* answered is in the open ledger.
ResultsAreSaved ==
    /\ \A k \in Key : (Stranded(k) => k \in Shown) =>
          (results[k] # NoResult <=> k \in Left \cup Shown)
    /\ at = "serving" => \A k \in Key : results[k] # NoResult => k \in Shown
    /\ \A r \in replies : r.outcome = "ok" => r.key \in Shown

\* Nothing is held by a file that is not there, nor by a WAL whose database
\* is not there, nor by the shared-memory index.
FilesHold ==
    /\ content[<<"tools", "shm">>] = {} /\ content[<<"ledger", "shm">>] = {}
    /\ \A f \in File : content[f] # {} => f \in files
    /\ <<"ledger", "db">> \notin files => content[<<"ledger", "wal">>] = {}
    /\ <<"ledger", "db">> \notin files /\ <<"tools", "db">> \notin files =>
          content[<<"tools", "wal">>] = {}

\* Outside of the renaming the old database holds everything until there is a
\* ledger.db, which there is whenever the tool serves, and then nothing.
OneName ==
    at # "rename" =>
        /\ next = 1
        /\ at = "serving" => <<"ledger", "db">> \in files
        /\ <<"ledger", "db">> \in files => content[<<"tools", "db">>] = {}

\* During it, the files of the suffixes before `next` have moved and the
\* others have not.
HalfRenamed ==
    at = "rename" =>
        /\ next = 1 <=> <<"ledger", "db">> \notin files
        /\ next = 1 => <<"tools", "db">> \in files
        /\ next # 1 => content[<<"tools", "db">>] = {}
        /\ next = 2 => content[<<"ledger", "wal">>] = {}
        /\ next = 3 => content[<<"tools", "wal">>] = {}

FilesInv ==
    /\ FilesTypeOK
    /\ ResultsAreSaved
    /\ FilesHold
    /\ OneName
    /\ HalfRenamed

\* The tables match for every key that is not stranded.
KeysMatch == \A k \in Key : ~ Stranded(k) => KeyMatches(k)

\* The inductive invariant.
LedgerInv == ToolBase /\ KeysMatch /\ FilesInv

\* What a step does to the results.
ResultsStay ==
    \A k \in Key : results[k] # NoResult /\ (Stranded(k) => k \in Shown) =>
                      results'[k] = results[k]

-----------------------------------------------------------------------------
(* The states a tool of the version before may have left. *)

LEMMA FileNames ==
    /\ <<"tools", "db">> \in File /\ <<"tools", "wal">> \in File
    /\ <<"tools", "shm">> \in File /\ <<"ledger", "db">> \in File
    /\ <<"ledger", "wal">> \in File /\ <<"ledger", "shm">> \in File
  BY DEF File

LEMMA LedgerInitInv ==
    ASSUME IsFiniteSet(Key), LedgerInit
    PROVE  LedgerInv
  <1>1. PICK saved \in SUBSET Key, logged \in SUBSET Key, old \in BOOLEAN,
             p \in Payload :
          /\ logged \cap saved = {}
          /\ old \/ (saved = {} /\ logged = {})
          /\ files = IF ~ old THEN {}
                     ELSE {<<"tools", "db">>} \cup
                          (IF logged # {} THEN {<<"tools", "wal">>, <<"tools", "shm">>}
                                          ELSE {})
          /\ content = [f \in File |-> CASE f = <<"tools", "db">> -> saved
                                         [] f = <<"tools", "wal">> -> logged
                                         [] OTHER -> {}]
          /\ results = [k \in Key |-> IF k \in saved \cup logged
                                      THEN [ref |-> 1, payload |-> p]
                                      ELSE NoResult]
          /\ effects = {[key |-> k, ref |-> 1] : k \in saved \cup logged}
    BY DEF LedgerInit
  <1>2. /\ calls = {} /\ open = {} /\ replies = {}
        /\ at = "down" /\ next = 1
    BY DEF LedgerInit
  <1>3. ToolBase /\ \A k \in Key : KeyMatches(k)
    <2>1. IsFiniteSet(effects)
      <3>1. IsFiniteSet(saved \cup logged)
        BY FS_Subset
      <3> DEFINE EffectOf == [k \in saved \cup logged |-> [key |-> k, ref |-> 1]]
      <3>2. EffectOf \in Surjection(saved \cup logged, effects)
        BY <1>1 DEF Surjection
      <3>3. QED
        BY <3>1, <3>2, FS_Surjection
    <2>2. [ref |-> 1, payload |-> p] \in Result
      BY DEF Result
    <2>3. [ref |-> 1, payload |-> p] # NoResult
      BY DEF NoResult
    <2>4. ToolTypeOK
      BY <1>1, <1>2, <2>2 DEF ToolTypeOK, Effect
    <2>5. EffectHasResult
      <3>1. \A e \in effects : results[e.key].ref = e.ref
        BY <1>1
      <3>2. \A k \in Key : results[k] # NoResult =>
                k \in saved \cup logged /\ results[k].ref = 1
        BY <1>1
      <3>3. \A k \in saved \cup logged : [key |-> k, ref |-> 1] \in effects
        BY <1>1
      <3>4. QED
        BY <3>1, <3>2, <3>3 DEF EffectHasResult
    <2>6. ToolInv
      BY <1>2, <2>1, <2>4, <2>5 DEF ToolInv, AnswersMatchLedger
    <2>7. QED
      BY <2>6, ToolInvByKey
  <1>4. /\ content[<<"tools", "db">>] = saved
        /\ content[<<"tools", "wal">>] = logged
        /\ content[<<"tools", "shm">>] = {}
        /\ content[<<"ledger", "db">>] = {}
        /\ content[<<"ledger", "wal">>] = {}
        /\ content[<<"ledger", "shm">>] = {}
    BY <1>1, FileNames
  <1>5. FilesTypeOK
    BY <1>1, <1>2, FileNames DEF FilesTypeOK
  <1>6. ResultsAreSaved
    <2>1. [ref |-> 1, payload |-> p] # NoResult
      BY DEF NoResult
    <2>2. \A k \in Key : results[k] # NoResult <=> k \in saved \cup logged
      BY <1>1, <2>1
    <2>3. QED
      BY <1>2, <1>4, <2>2 DEF ResultsAreSaved, Left, Shown
  <1>7. FilesHold
    <2>1. \A f \in File : content[f] # {} => f \in files
      BY <1>1
    <2>2. QED
      BY <1>1, <1>4, <2>1 DEF FilesHold
  <1>8. OneName /\ HalfRenamed
    BY <1>1, <1>2, <1>4 DEF OneName, HalfRenamed
  <1>9. QED
    BY <1>3, <1>5, <1>6, <1>7, <1>8 DEF LedgerInv, FilesInv, KeysMatch

-----------------------------------------------------------------------------
(* The start of the process. *)

\* A step that leaves the tables and the answers alone.
LEMMA TablesStay ==
    ASSUME LedgerInv, UNCHANGED <<results, effects, replies>>,
           calls' \subseteq calls, open' = open, FilesInv',
           \A k \in Key : Stranded(k) => Stranded(k)'
    PROVE  LedgerInv' /\ ResultsStay
  <1>1. ToolBase'
    BY DEF LedgerInv, ToolBase, ToolTypeOK, AnswersMatchLedger, NoResult
  <1>2. \A k \in Key : KeyMatches(k) => KeyMatches(k)'
    BY DEF KeyMatches, NoResult
  <1>3. KeysMatch'
    BY <1>2 DEF LedgerInv, KeysMatch
  <1>4. QED
    BY <1>1, <1>3 DEF LedgerInv, ResultsStay

\* Opening the ledger shows what the files of its name hold.
LEMMA OpenInv ==
    ASSUME LedgerInv, NEW kept, NEW held, Open(kept, held),
           UNCHANGED <<effects, calls, open, replies>>, content' = held,
           kept \subseteq File, held \in [File -> SUBSET Key],
           \A k \in Key : k \in held[<<"tools", "wal">>] <=> Stranded(k),
           \A k \in Key : (Stranded(k) => k \in Shown) =>
              (results[k] # NoResult <=>
                  k \in held[<<"ledger", "db">>] \cup held[<<"ledger", "wal">>]),
           \A k \in Key : Stranded(k) =>
              (k \in held[<<"ledger", "db">>] \cup held[<<"ledger", "wal">>] =>
                  k \in Shown),
           Shown \subseteq held[<<"ledger", "db">>] \cup held[<<"ledger", "wal">>],
           \A f \in File : held[f] # {} => f \in kept \cup {<<"ledger", "db">>},
           held[<<"tools", "db">>] = {},
           held[<<"tools", "shm">>] = {}, held[<<"ledger", "shm">>] = {}
    PROVE  LedgerInv' /\ ResultsStay
  <1> DEFINE shown == held[<<"ledger", "db">>] \cup held[<<"ledger", "wal">>]
  <1>1. /\ results \in [Key -> Result \cup {NoResult}]
        /\ ToolBase /\ KeysMatch /\ ResultsAreSaved
    BY DEF LedgerInv, FilesInv, ToolBase, ToolTypeOK
  <1>2. /\ at' = "serving" /\ next' = 1
        /\ files' = kept \cup {<<"ledger", "db">>}
        /\ \A k \in Key : results'[k] = IF k \in shown THEN results[k]
                                                       ELSE NoResult
        /\ results' \in [Key -> Result \cup {NoResult}]
    BY <1>1 DEF Open
  <1>3. /\ Shown' = shown
        /\ \A k \in Key : Stranded(k)' <=> k \in held[<<"tools", "wal">>]
    BY <1>2 DEF Shown, Stranded
  <1>4. \A k \in Key : k \in shown => results[k] # NoResult
    OBVIOUS
  <1>5. \A k \in Key : k \notin held[<<"tools", "wal">>] =>
            results'[k] = results[k]
    BY <1>1, <1>2
  <1>6. ToolBase'
    <2>1. \A r \in replies : r.outcome = "ok" =>
              r.key \in Key /\ results'[r.key] = results[r.key]
      BY <1>1, <1>2 DEF ResultsAreSaved, ToolBase, ToolTypeOK, Reply
    <2>2. AnswersMatchLedger'
      BY <1>1, <2>1 DEF ToolBase, AnswersMatchLedger, NoResult
    <2>3. QED
      BY <1>1, <1>2, <2>2 DEF ToolBase, ToolTypeOK
  <1>7. KeysMatch'
    <2>1. SUFFICES ASSUME NEW k \in Key, k \notin held[<<"tools", "wal">>]
                   PROVE  KeyMatches(k)'
      BY <1>3 DEF KeysMatch
    <2>2. results'[k] = results[k]
      BY <1>5, <2>1
    <2>3. KeyMatches(k)
      BY <1>1, <2>1 DEF KeysMatch
    <2>4. QED
      BY <2>2, <2>3 DEF KeyMatches, NoResult
  <1>8. FilesTypeOK' /\ FilesHold' /\ OneName' /\ HalfRenamed'
    BY <1>2, FileNames DEF FilesTypeOK, FilesHold, OneName, HalfRenamed
  <1>9. ResultsAreSaved'
    <2>1. \A k \in Key : results'[k] # NoResult <=> k \in shown
      BY <1>2, <1>4
    <2>2. Left' = held[<<"tools", "wal">>]
      BY DEF Left
    <2>3. \A r \in replies : r.outcome = "ok" => r.key \in shown
      BY <1>1 DEF ResultsAreSaved
    <2>4. QED
      BY <1>2, <1>3, <2>1, <2>2, <2>3 DEF ResultsAreSaved, NoResult
  <1>10. ResultsStay
    <2>1. SUFFICES ASSUME NEW k \in Key, results[k] # NoResult,
                          Stranded(k) => k \in Shown
                   PROVE  k \in shown
      BY <1>2 DEF ResultsStay
    <2>2. QED
      BY <2>1
  <1>11. QED
    BY <1>6, <1>7, <1>8, <1>9, <1>10 DEF LedgerInv, FilesInv

LEMMA StartInv ==
    ASSUME LedgerInv, Start
    PROVE  LedgerInv' /\ ResultsStay
  <1>1. /\ FilesTypeOK /\ ResultsAreSaved
        /\ FilesHold /\ OneName /\ HalfRenamed
    BY DEF LedgerInv, FilesInv
  <1>2. at = "down" /\ UNCHANGED <<content, effects, calls, open, replies>>
    BY DEF Start
  <1>3. CASE <<"ledger", "db">> \in files \/ <<"tools", "db">> \notin files
    <2>1. Open(files, content)
      BY <1>3 DEF Start
    <2>2. content[<<"tools", "db">>] = {}
      BY <1>1, <1>2, <1>3, FileNames DEF FilesHold, OneName
    <2>3. \A k \in Key : k \in content[<<"tools", "wal">>] <=> Stranded(k)
      BY <1>1, <1>2, <1>3 DEF Stranded, FilesHold
    <2>4. \A k \in Key : (Stranded(k) => k \in Shown) =>
              (results[k] # NoResult <=> k \in Shown)
      BY <1>1, <2>2, <2>3 DEF ResultsAreSaved, Left
    <2>5. QED
      BY <1>1, <1>2, <2>1, <2>2, <2>3, <2>4, OpenInv DEF FilesTypeOK, FilesHold, Shown
  <1>4. CASE ~ (<<"ledger", "db">> \in files \/ <<"tools", "db">> \notin files)
    <2>1. at' = "rename" /\ UNCHANGED <<files, next, results>>
      BY <1>4 DEF Start
    <2>2. \A k \in Key : ~ Stranded(k) /\ ~ Stranded(k)'
      BY <1>4, <2>1 DEF Stranded
    <2>3. Left' = Left /\ Shown' = Shown
      BY <1>2 DEF Left, Shown
    <2>4. FilesTypeOK' /\ ResultsAreSaved' /\ FilesHold' /\ OneName'
      BY <1>1, <1>2, <2>1, <2>2, <2>3
         DEF FilesTypeOK, ResultsAreSaved, FilesHold, OneName, NoResult
    <2>5. HalfRenamed'
      BY <1>1, <1>2, <1>4, <2>1 DEF HalfRenamed, OneName
    <2>6. QED
      BY <1>2, <2>1, <2>2, <2>4, <2>5, TablesStay DEF FilesInv
  <1>5. QED
    BY <1>3, <1>4

\* Each file moves to a name that holds nothing yet, so that the two names
\* hold together what they held before; the last one opens the ledger.
LEMMA RenameInv ==
    ASSUME LedgerInv, Rename
    PROVE  LedgerInv' /\ ResultsStay
  <1>1. /\ FilesTypeOK /\ ResultsAreSaved
        /\ FilesHold /\ OneName /\ HalfRenamed
    BY DEF LedgerInv, FilesInv
  <1>2. at = "rename" /\ UNCHANGED <<effects, calls, open, replies>>
    BY DEF Rename
  <1>3. /\ Suffixes[1] = "db" /\ Suffixes[2] = "wal" /\ Suffixes[3] = "shm"
        /\ Len(Suffixes) = 3
    BY DEF Suffixes
  <1> DEFINE old == <<"tools", Suffixes[next]>>
             new == <<"ledger", Suffixes[next]>>
             moved == IF old \in files THEN (files \ {old}) \cup {new} ELSE files
  <1>4. /\ content' = IF old \in files
                      THEN [content EXCEPT ![new] = content[old], ![old] = {}]
                      ELSE content
        /\ IF next = Len(Suffixes)
           THEN Open(moved, content')
           ELSE files' = moved /\ next' = next + 1 /\ UNCHANGED <<at, results>>
    BY DEF Rename
  <1>5. \A f \in File : content[f] # {} => f \in files
    BY <1>1 DEF FilesHold
  <1>6. /\ old \in File /\ new \in File
        /\ moved \subseteq File /\ content' \in [File -> SUBSET Key]
    BY <1>1, <1>3, <1>4, FileNames DEF FilesTypeOK
  <1>7. CASE next # 3
    <2>1. files' = moved /\ next' = next + 1 /\ UNCHANGED <<at, results>>
      BY <1>3, <1>4, <1>7
    <2>2. \A k \in Key : ~ Stranded(k) /\ ~ Stranded(k)'
      BY <1>2, <2>1 DEF Stranded
    <2>3. FilesTypeOK'
      BY <1>1, <1>6, <1>7, <2>1 DEF FilesTypeOK
    <2>4. /\ \A f \in File : content'[f] # {} => f \in files'
          /\ content'[<<"tools", "shm">>] = {} /\ content'[<<"ledger", "shm">>] = {}
      <3>1. \A f \in File : content'[f] # {} => f \in files'
        BY <1>1, <1>4, <1>5, <1>6, <2>1 DEF FilesTypeOK
      <3>2. Suffixes[next] # "shm"
        BY <1>1, <1>3, <1>7 DEF FilesTypeOK
      <3>3. QED
        BY <1>1, <1>4, <1>6, <3>1, <3>2, FileNames DEF FilesTypeOK, FilesHold
    <2>5. CASE next = 1
      <3>1. /\ old = <<"tools", "db">> /\ new = <<"ledger", "db">>
            /\ old \in files /\ new \notin files
        BY <1>1, <1>2, <1>3, <2>5 DEF HalfRenamed
      <3>2. content[new] = {} /\ content[<<"ledger", "wal">>] = {}
        BY <1>1, <1>6, <3>1 DEF FilesHold
      <3>3. /\ content'[<<"tools", "db">>] = {}
            /\ content'[<<"ledger", "db">>] = content[<<"tools", "db">>]
            /\ content'[<<"tools", "wal">>] = content[<<"tools", "wal">>]
            /\ content'[<<"ledger", "wal">>] = {}
            /\ <<"ledger", "db">> \in files' /\ next' = 2
        BY <1>1, <1>4, <2>1, <2>5, <3>1, <3>2, FileNames DEF FilesTypeOK
      <3>4. ResultsAreSaved'
        BY <1>1, <1>2, <2>1, <2>2, <3>1, <3>2, <3>3
           DEF ResultsAreSaved, Left, Shown, NoResult
      <3>5. FilesHold' /\ OneName' /\ HalfRenamed'
        BY <1>2, <2>1, <2>4, <3>3 DEF FilesHold, OneName, HalfRenamed
      <3>6. QED
        BY <1>2, <2>1, <2>2, <2>3, <3>4, <3>5, TablesStay DEF FilesInv
    <2>6. CASE next = 2
      <3>1. /\ old = <<"tools", "wal">> /\ new = <<"ledger", "wal">>
            /\ <<"ledger", "db">> \in files
            /\ content[<<"tools", "db">>] = {} /\ content[new] = {}
        BY <1>1, <1>2, <1>3, <2>6 DEF HalfRenamed
      <3>2. /\ content'[<<"tools", "db">>] = {}
            /\ content'[<<"ledger", "db">>] = content[<<"ledger", "db">>]
            /\ content'[<<"tools", "wal">>] = {}
            /\ content'[<<"ledger", "wal">>] = content[<<"tools", "wal">>]
            /\ <<"ledger", "db">> \in files' /\ next' = 3
        BY <1>1, <1>4, <1>5, <2>1, <2>6, <3>1, FileNames DEF FilesTypeOK
      <3>3. ResultsAreSaved'
        BY <1>1, <1>2, <2>1, <2>2, <3>1, <3>2
           DEF ResultsAreSaved, Left, Shown, NoResult
      <3>4. FilesHold' /\ OneName' /\ HalfRenamed'
        BY <1>2, <2>1, <2>4, <3>2 DEF FilesHold, OneName, HalfRenamed
      <3>5. QED
        BY <1>2, <2>1, <2>2, <2>3, <3>3, <3>4, TablesStay DEF FilesInv
    <2>7. QED
      BY <1>1, <1>7, <2>5, <2>6 DEF FilesTypeOK
  <1>8. CASE next = 3
    <2>1. Open(moved, content')
      BY <1>3, <1>4, <1>8
    <2>2. /\ old = <<"tools", "shm">> /\ new = <<"ledger", "shm">>
          /\ content[<<"tools", "db">>] = {} /\ content[<<"tools", "wal">>] = {}
      BY <1>1, <1>2, <1>3, <1>8 DEF HalfRenamed
    <2>3. /\ content'[<<"tools", "db">>] = {}
          /\ content'[<<"tools", "wal">>] = {}
          /\ content'[<<"ledger", "db">>] = content[<<"ledger", "db">>]
          /\ content'[<<"ledger", "wal">>] = content[<<"ledger", "wal">>]
          /\ content'[<<"tools", "shm">>] = {} /\ content'[<<"ledger", "shm">>] = {}
      BY <1>1, <1>4, <2>2, FileNames DEF FilesTypeOK, FilesHold
    <2>4. \A f \in File : content'[f] # {} => f \in moved
      BY <1>1, <1>4, <1>5, <1>6 DEF FilesTypeOK
    <2>5. \A k \in Key : ~ Stranded(k)
      BY <1>2 DEF Stranded
    <2>6. \A k \in Key : results[k] # NoResult <=>
             k \in content'[<<"ledger", "db">>] \cup content'[<<"ledger", "wal">>]
      BY <1>1, <2>2, <2>3, <2>5 DEF ResultsAreSaved, Left, Shown
    <2>7. Shown \subseteq content'[<<"ledger", "db">>]
                             \cup content'[<<"ledger", "wal">>]
      BY <2>3 DEF Shown
    <2> HIDE DEF old, new, moved
    <2>8. QED
      BY <1>1, <1>2, <1>6, <2>1, <2>3, <2>4, <2>5, <2>6, <2>7, OpenInv
  <1>9. QED
    BY <1>7, <1>8

-----------------------------------------------------------------------------
(* The tool at work. *)

LEMMA WorkInv ==
    ASSUME LedgerInv, Work, ToolAssumption
    PROVE  LedgerInv' /\ ResultsStay
  <1>1. /\ ToolBase /\ KeysMatch
        /\ FilesTypeOK /\ ResultsAreSaved
        /\ FilesHold /\ OneName /\ HalfRenamed
    BY DEF LedgerInv, FilesInv
  <1>2. at = "serving" /\ Serve
    BY DEF Work
  <1>3. ToolBase'
    BY <1>1, <1>2, ServeBase
  <1> DEFINE written == {k \in Key : results'[k] # results[k]}
  <1>4. IF written = {}
        THEN UNCHANGED fileVars
        ELSE /\ content' = [content EXCEPT ![<<"ledger", "wal">>] = @ \cup written]
             /\ files' = files \cup {<<"ledger", "wal">>, <<"ledger", "shm">>}
             /\ UNCHANGED <<at, next>>
    BY DEF Work
  <1>5. /\ ResultsStay
        /\ \A k \in Key : k \in written => results[k] = NoResult
    BY <1>1, <1>2, ResultIsKept DEF ResultsStay
  <1> HIDE DEF written
  <1>6. /\ content'[<<"ledger", "wal">>] = content[<<"ledger", "wal">>] \cup written
        /\ \A f \in File : f # <<"ledger", "wal">> => content'[f] = content[f]
        /\ content' \in [File -> SUBSET Key]
        /\ files' = files \/
              files' = files \cup {<<"ledger", "wal">>, <<"ledger", "shm">>}
        /\ written # {} => <<"ledger", "wal">> \in files'
        /\ UNCHANGED <<at, next>>
    <2>1. CASE written = {}
      BY <1>1, <1>4, <2>1 DEF fileVars, FilesTypeOK
    <2>2. CASE written # {}
      <3>1. written \subseteq Key
        BY DEF written
      <3>2. QED
        BY <1>1, <1>4, <2>2, <3>1, FileNames DEF FilesTypeOK
    <2>3. QED
      BY <2>1, <2>2
  <1>7. <<"ledger", "db">> \in files
    BY <1>1, <1>2 DEF OneName
  <1>8. /\ Shown' = Shown \cup written /\ Left' = Left
        /\ \A k \in Key : Stranded(k)' <=> Stranded(k)
    BY <1>6, <1>7, FileNames DEF Shown, Left, Stranded
  <1>9. KeysMatch'
    BY <1>1, <1>2, <1>8, ServeMatches DEF KeysMatch
  <1>10. FilesTypeOK'
    BY <1>1, <1>6, FileNames DEF FilesTypeOK
  <1>11. FilesHold' /\ OneName' /\ HalfRenamed'
    BY <1>1, <1>2, <1>6, <1>7, FileNames DEF FilesHold, OneName, HalfRenamed
  <1>12. \A k \in Key : /\ k \in written => results'[k] # NoResult
                        /\ k \notin written => results'[k] = results[k]
    BY <1>5 DEF written
  <1>13. \A k \in Key : results'[k] # NoResult => k \in Shown'
    BY <1>1, <1>2, <1>8, <1>12 DEF ResultsAreSaved
  <1>14. ResultsAreSaved'
    <2>1. ASSUME NEW k \in Key, Stranded(k) => k \in Shown'
          PROVE  results'[k] # NoResult <=> k \in Left' \cup Shown'
      <3>1. CASE k \in written
        BY <1>8, <1>12, <3>1
      <3>2. CASE k \notin written
        BY <1>1, <1>8, <1>12, <2>1, <3>2 DEF ResultsAreSaved
      <3>3. QED
        BY <3>1, <3>2
    <2>2. \A r \in replies' : r.outcome = "ok" => r.key \in Shown'
      BY <1>3, <1>13 DEF ToolBase, AnswersMatchLedger, ToolTypeOK, Reply,
                         NoResult
    <2>3. QED
      BY <1>8, <1>13, <2>1, <2>2 DEF ResultsAreSaved, NoResult
  <1>15. QED
    BY <1>3, <1>5, <1>9, <1>10, <1>11, <1>14 DEF LedgerInv, FilesInv

\* Requests, checkpoints and kills leave every result as it is.
LEMMA ConnectInv ==
    ASSUME LedgerInv, Connect, ToolAssumption
    PROVE  LedgerInv' /\ ResultsStay
  <1>1. ToolBase /\ Client /\ UNCHANGED fileVars
    BY DEF LedgerInv, Connect
  <1>2. ToolBase' /\ UNCHANGED ledgerVars
    BY <1>1, ClientBase
  <1>3. replies' \subseteq replies
    BY <1>1 DEF Client, Invoke, Close
  <1>4. /\ Left' = Left /\ Shown' = Shown
        /\ \A k \in Key : Stranded(k)' <=> Stranded(k)
    BY <1>1 DEF fileVars, Left, Shown, Stranded
  <1>5. KeysMatch'
    BY <1>2, <1>4 DEF LedgerInv, KeysMatch, KeyMatches, ledgerVars, NoResult
  <1>6. FilesInv'
    BY <1>1, <1>2, <1>3, <1>4
       DEF LedgerInv, FilesInv, FilesTypeOK, ResultsAreSaved, FilesHold,
           OneName, HalfRenamed, fileVars, ledgerVars, NoResult
  <1>7. QED
    BY <1>2, <1>5, <1>6 DEF LedgerInv, ResultsStay, ledgerVars

LEMMA CheckpointInv ==
    ASSUME LedgerInv, Checkpoint
    PROVE  LedgerInv' /\ ResultsStay
  <1>1. /\ FilesTypeOK /\ ResultsAreSaved
        /\ FilesHold /\ OneName /\ HalfRenamed
    BY DEF LedgerInv, FilesInv
  <1>2. /\ at = "serving" /\ UNCHANGED <<at, next, toolVars>>
        /\ files' = files \ {<<"ledger", "wal">>, <<"ledger", "shm">>}
        /\ content' = [content EXCEPT ![<<"ledger", "db">>] =
                                         @ \cup content[<<"ledger", "wal">>],
                                     ![<<"ledger", "wal">>] = {}]
    BY DEF Checkpoint
  <1>3. /\ content' \in [File -> SUBSET Key]
        /\ content'[<<"ledger", "wal">>] = {}
        /\ content'[<<"ledger", "db">>] = Shown
        /\ \A f \in File : f # <<"ledger", "wal">> /\ f # <<"ledger", "db">> =>
              content'[f] = content[f]
    BY <1>1, <1>2, FileNames DEF FilesTypeOK, Shown
  <1>4. <<"ledger", "db">> \in files
    BY <1>1, <1>2 DEF OneName
  <1>5. /\ Shown' = Shown /\ Left' = Left
        /\ \A k \in Key : Stranded(k)' <=> Stranded(k)
    BY <1>2, <1>3, <1>4, FileNames DEF Shown, Left, Stranded
  <1>6. FilesTypeOK' /\ FilesHold' /\ OneName' /\ HalfRenamed'
    BY <1>1, <1>2, <1>3, <1>4, FileNames
       DEF FilesTypeOK, FilesHold, OneName, HalfRenamed
  <1>7. ResultsAreSaved'
    BY <1>1, <1>2, <1>5 DEF ResultsAreSaved, toolVars, NoResult
  <1>8. QED
    BY <1>2, <1>5, <1>6, <1>7, TablesStay DEF FilesInv, toolVars

\* A kill after the first rename strands what the old WAL holds.
LEMMA DieInv ==
    ASSUME LedgerInv, Die
    PROVE  LedgerInv' /\ ResultsStay
  <1>1. /\ FilesTypeOK /\ ResultsAreSaved
        /\ FilesHold /\ OneName /\ HalfRenamed
    BY DEF LedgerInv, FilesInv
  <1>2. /\ at # "down" /\ at' = "down" /\ next' = 1 /\ calls' = {}
        /\ UNCHANGED <<content, files, results, effects, open, replies>>
    BY DEF Die
  <1>3. /\ Shown' = Shown /\ Left' = Left
        /\ \A k \in Key : Stranded(k) => Stranded(k)'
    BY <1>2 DEF Shown, Left, Stranded
  <1>4. FilesTypeOK' /\ FilesHold' /\ OneName' /\ HalfRenamed'
    BY <1>1, <1>2 DEF FilesTypeOK, FilesHold, OneName, HalfRenamed
  <1>5. ResultsAreSaved'
    BY <1>1, <1>2, <1>3 DEF ResultsAreSaved, NoResult
  <1>6. QED
    BY <1>2, <1>3, <1>4, <1>5, TablesStay DEF FilesInv

LEMMA LedgerStutterInv ==
    ASSUME LedgerInv, UNCHANGED <<toolVars, fileVars>>
    PROVE  LedgerInv'
  <1>1. /\ Shown' = Shown /\ Left' = Left
        /\ \A k \in Key : Stranded(k)' <=> Stranded(k)
    BY DEF Shown, Left, Stranded, fileVars
  <1>2. FilesInv'
    BY <1>1 DEF LedgerInv, FilesInv, FilesTypeOK, ResultsAreSaved, FilesHold,
                OneName, HalfRenamed, fileVars, toolVars, NoResult
  <1>3. QED
    BY <1>1, <1>2, TablesStay DEF toolVars

\* A step that is not the service's own loses no result that the open ledger
\* shows; the service's own replaces none.
LEMMA LedgerStep ==
    ASSUME LedgerInv, LedgerNext, ToolAssumption
    PROVE  LedgerInv' /\ ResultsStay
  BY StartInv, RenameInv, WorkInv, ConnectInv, CheckpointInv, DieInv
     DEF LedgerNext

-----------------------------------------------------------------------------
(* The theorems. *)

\* The tables agree and the files hold them, through kills, restarts,
\* checkpoints and the renaming (ToolStore.__init__).
THEOREM LedgerSafety ==
    ASSUME IsFiniteSet(Key)
    PROVE  LedgerSpec => []LedgerInv
  <1>1. LedgerInit => LedgerInv
    BY LedgerInitInv
  <1>2. LedgerInv /\ [LedgerNext]_<<toolVars, fileVars>> => LedgerInv'
    BY ToolAssumption, LedgerStep, LedgerStutterInv
  <1>3. QED
    BY <1>1, <1>2, PTL DEF LedgerSpec

\* No committed result is lost or replaced, whatever name its file has and
\* wherever the process is killed, but what a kill between two renames has
\* left in the old WAL.
THEOREM ResultsAlwaysKept ==
    ASSUME IsFiniteSet(Key)
    PROVE  LedgerSpec => ResultsAreKept
  <1>1. LedgerInv /\ [LedgerNext]_<<toolVars, fileVars>> =>
            [\A k \in Key :
                results[k] # NoResult /\ (Stranded(k) => k \in Shown) =>
                    results'[k] = results[k]]_results
    BY ToolAssumption, LedgerStep DEF toolVars, ResultsStay
  <1>2. QED
    BY <1>1, LedgerSafety, PTL DEF LedgerSpec, ResultsAreKept

\* The effects of a key are the one its result names, and what a client has
\* been answered is in the tables, in every state that kills, restarts and the
\* renaming can reach, but for the effects of keys left in the old WAL.
THEOREM LedgerKeepsEffects ==
    ASSUME IsFiniteSet(Key)
    PROVE  LedgerSpec => [](ToolTypeOK /\ EffectsAreKnown /\ AnswersMatchLedger)
  <1>1. ASSUME LedgerInv PROVE EffectsAreKnown
    <2>1. SUFFICES ASSUME NEW k \in Key, KeyMatches(k)
                   PROVE  {e.ref : e \in {f \in effects : f.key = k}} =
                             IF results[k] = NoResult THEN {}
                                                      ELSE {results[k].ref}
      BY <1>1 DEF LedgerInv, KeysMatch, EffectsAreKnown
    <2>2. \A e \in effects : e.ref # 0
      BY <1>1 DEF LedgerInv, ToolBase, ToolTypeOK, Effect
    <2>3. CASE results[k] = NoResult
      BY <2>1, <2>2, <2>3 DEF KeyMatches, NoResult
    <2>4. CASE results[k] # NoResult
      BY <2>1, <2>4 DEF KeyMatches
    <2>5. QED
      BY <2>3, <2>4
  <1>2. LedgerInv => ToolTypeOK /\ EffectsAreKnown /\ AnswersMatchLedger
    BY <1>1 DEF LedgerInv, ToolBase
  <1>3. QED
    BY <1>2, LedgerSafety, PTL

\* The answer of a step of the service is that of the request it ends.
LEMMA ServeAnswers ==
    ASSUME ToolBase, Serve, ToolAssumption,
           NEW r \in replies' \ replies, r.outcome = "ok"
    PROVE  \E c \in calls :
              /\ c.key = r.key /\ c.id = r.id
              /\ results'[c.key] = [ref |-> r.ref, payload |-> c.payload]
  <1>1. PICK c \in calls :
            \/ Find(c) \/ Throttle(c) \/ Apply(c)
            \/ \E a \in Answers : Answer(c, a)
            \/ Lose(c)
    BY DEF Serve
  <1>2. c \in Call /\ results \in [Key -> Result \cup {NoResult}]
    BY DEF ToolBase, ToolTypeOK
  <1>3. \A o, ref : Respond(c, o, ref) =>
            r = [key |-> c.key, id |-> c.id, outcome |-> o, ref |-> ref]
    BY DEF Respond
  <1>4. ~ Throttle(c) /\ ~ Lose(c) /\ \A a \in Answers : ~ Answer(c, a)
    BY <1>3 DEF Throttle, Lose, Answer, ToolAssumption
  <1>5. ASSUME RespondFromRow(c), results[c.key] # NoResult, UNCHANGED ledgerVars
        PROVE  /\ c.key = r.key /\ c.id = r.id
               /\ results'[c.key] = [ref |-> r.ref, payload |-> c.payload]
    <2>1. results[c.key].payload = c.payload /\ Respond(c, "ok", results[c.key].ref)
      BY <1>3, <1>5 DEF RespondFromRow
    <2>2. results[c.key] \in Result
      BY <1>2, <1>5 DEF Call
    <2>3. QED
      BY <1>3, <1>5, <2>1, <2>2 DEF Result, ledgerVars
  <1>6. CASE Find(c)
    <2>1. results[c.key] # NoResult
      BY <1>6 DEF Find
    <2>2. QED
      BY <1>5, <1>6, <2>1 DEF Find
  <1>7. CASE Apply(c)
    <2>1. CASE results[c.key] = NoResult
      BY <1>2, <1>3, <1>7, <2>1 DEF Apply, Call
    <2>2. CASE results[c.key] # NoResult
      BY <1>5, <1>7, <2>2 DEF Apply
    <2>3. QED
      BY <2>1, <2>2
  <1>8. QED
    BY <1>1, <1>4, <1>6, <1>7

\* Every successful answer is the committed result of exactly the request it
\* answers, whether find or apply caught the row, before and after restarts.
THEOREM AnswersAlwaysOwnRequest ==
    ASSUME IsFiniteSet(Key)
    PROVE  LedgerSpec => AnswersOwnRequest
  <1> DEFINE OwnAnswers ==
         \A r \in replies' \ replies : r.outcome = "ok" =>
            \E c \in calls :
               /\ c.key = r.key /\ c.id = r.id
               /\ results'[c.key] = [ref |-> r.ref, payload |-> c.payload]
  <1>1. ASSUME LedgerInv, LedgerNext PROVE OwnAnswers
    <2>1. CASE Work
      BY <1>1, <2>1, ToolAssumption, ServeAnswers DEF LedgerInv, Work
    <2>2. CASE ~ Work
      <3>1. replies' \subseteq replies
        BY <1>1, <2>2 DEF LedgerNext, Start, Rename, Connect, Client, Invoke,
                          Close, Checkpoint, Die, toolVars
      <3>2. QED
        BY <3>1
    <2>3. QED
      BY <2>1, <2>2
  <1>2. LedgerInv /\ [LedgerNext]_<<toolVars, fileVars>> => [OwnAnswers]_toolVars
    BY <1>1
  <1>3. QED
    BY <1>2, LedgerSafety, PTL DEF LedgerSpec, AnswersOwnRequest
=============================================================================
