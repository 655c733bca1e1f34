----------------------------- MODULE ToolProofs -----------------------------
(***************************************************************************)
(* The ledger holds at most one effect per key, for any number of keys,    *)
(* payloads and requests.  The steps of the service and of its clients are *)
(* lemmas of their own, which the proofs about the engine cite as well.    *)
(***************************************************************************)
EXTENDS Tool, FiniteSetTheorems, TLAPS

\* The inductive invariant: AtMostOneEffect is not inductive by itself, since
\* apply looks at the results, not at the effects; EffectHasResult ties the
\* two tables together and says that no row means no effect.
ToolInv ==
    /\ ToolTypeOK
    /\ IsFiniteSet(effects)
    /\ EffectHasResult
    /\ AnswersMatchLedger

\* What does not depend on the tables matching, and the tables for one key: a
\* ledger that has lost the results of some keys still keeps the others.
ToolBase == ToolTypeOK /\ IsFiniteSet(effects) /\ AnswersMatchLedger

KeyMatches(k) ==
    /\ \A e \in effects : e.key = k => results[k].ref = e.ref
    /\ results[k] # NoResult => [key |-> k, ref |-> results[k].ref] \in effects

LEMMA ToolInvByKey ==
    /\ ToolInv => ToolBase /\ \A k \in Key : KeyMatches(k)
    /\ ToolBase /\ (\A k \in Key : KeyMatches(k)) => ToolInv
  BY DEF ToolInv, ToolBase, KeyMatches, EffectHasResult, ToolTypeOK, Effect

LEMMA NextToolInvByKey ==
    ToolBase' /\ (\A k \in Key : KeyMatches(k)') => ToolInv'
  BY DEF ToolInv, ToolBase, KeyMatches, EffectHasResult, ToolTypeOK, Effect,
         NoResult

\* One row per key, and each effect is that row's: effects of a key are equal.
LEMMA OneRowOneEffect == ToolInv => AtMostOneEffect
  BY DEF ToolInv, EffectHasResult, AtMostOneEffect, ToolTypeOK, Effect

\* Nothing has happened in an empty ledger.
LEMMA ToolInitInv == ToolInit => ToolInv
  <1>1. IsFiniteSet({})
    BY FS_EmptySet
  <1>2. QED
    BY <1>1 DEF ToolInit, ToolInv, ToolTypeOK, EffectHasResult,
                AnswersMatchLedger, NoResult

\* A fresh reference is one: counting a finite set and adding 1.
LEMMA FreshRefIsRef ==
    ASSUME IsFiniteSet(effects), NEW k
    PROVE  FreshRef(k) \in Nat \ {0}
  <1> DEFINE mine == {e \in effects : e.key = k}
  <1>1. IsFiniteSet(mine)
    BY FS_Subset
  <1>2. Cardinality(mine) \in Nat
    BY <1>1, FS_CardinalityType
  <1>3. QED
    BY <1>2 DEF FreshRef

\* Requests come and go without touching the ledger.
LEMMA InvokeInv ==
    ASSUME ToolInv, NEW k \in Key, NEW id \in Nat, NEW p \in Payload,
           Invoke(k, id, p)
    PROVE  ToolInv'
  BY DEF Invoke, ToolInv, ToolTypeOK, EffectHasResult, AnswersMatchLedger,
         Call, NoResult

LEMMA CloseInv ==
    ASSUME ToolInv, NEW k, NEW id, Close(k, id)
    PROVE  ToolInv'
  BY DEF Close, ToolInv, ToolTypeOK, EffectHasResult, AnswersMatchLedger,
         NoResult

\* What a step of the service leaves to show when the ledger stays as it is.
ServiceOK ==
    /\ calls \subseteq Call
    /\ open \subseteq Key \X Nat
    /\ replies \subseteq Reply
    /\ AnswersMatchLedger

LEMMA LedgerUnchanged ==
    ASSUME ToolBase, UNCHANGED ledgerVars, ServiceOK'
    PROVE  ToolBase'
  BY DEF ToolBase, ToolTypeOK, ledgerVars, ServiceOK, NoResult

\* An answer is well formed, takes its request out of the service, and is the
\* committed result if it is a successful one.
LEMMA RespondOK ==
    ASSUME ToolBase, UNCHANGED ledgerVars, NEW c \in calls,
           NEW o \in Outcome, NEW ref \in Nat, Respond(c, o, ref),
           o = "ok" => results[c.key] # NoResult /\ results[c.key].ref = ref
    PROVE  ServiceOK'
  <1>1. /\ calls' \subseteq Call
        /\ open' \subseteq Key \X Nat
        /\ replies' \subseteq Reply
    BY DEF ToolBase, ToolTypeOK, Respond, Call, Reply
  <1>2. AnswersMatchLedger'
    BY DEF ToolBase, AnswersMatchLedger, Respond, ledgerVars, NoResult
  <1>3. QED
    BY <1>1, <1>2 DEF ServiceOK

LEMMA RespondFromRowOK ==
    ASSUME ToolBase, UNCHANGED ledgerVars, NEW c \in calls,
           results[c.key] # NoResult, RespondFromRow(c)
    PROVE  ServiceOK'
  <1>1. results[c.key].ref \in Nat
    BY DEF ToolBase, ToolTypeOK, Call, Result
  <1>2. "ok" \in Outcome /\ "conflict" \in Outcome /\ 0 \in Nat
    BY DEF Outcome
  <1>3. CASE results[c.key].payload = c.payload
    BY <1>1, <1>2, <1>3, RespondOK DEF RespondFromRow
  <1>4. CASE results[c.key].payload # c.payload
    BY <1>2, <1>4, RespondOK DEF RespondFromRow
  <1>5. QED
    BY <1>3, <1>4

LEMMA FindBase ==
    ASSUME ToolBase, NEW c \in calls, Find(c)
    PROVE  ToolBase'
  <1>1. ToolTypeOK /\ UNCHANGED ledgerVars
    BY DEF ToolBase, Find
  <1>2. CASE results[c.key] = NoResult
    <2>1. [c EXCEPT !.stage = "missed"] \in Call
      BY <1>1 DEF ToolTypeOK, Call
    <2>2. ServiceOK'
      BY <1>1, <1>2, <2>1 DEF Find, ToolBase, ToolTypeOK, ServiceOK,
                              AnswersMatchLedger, ledgerVars, NoResult
    <2>3. QED
      BY <1>1, <2>2, LedgerUnchanged
  <1>3. CASE results[c.key] # NoResult
    BY <1>1, <1>3, RespondFromRowOK, LedgerUnchanged DEF Find
  <1>4. QED
    BY <1>2, <1>3

\* Whoever has been answered has been told a row that apply finds.
LEMMA ApplyBase ==
    ASSUME ToolBase, NEW c \in calls, Apply(c)
    PROVE  ToolBase'
  <1>1. ToolTypeOK /\ IsFiniteSet(effects) /\ AnswersMatchLedger
    BY DEF ToolBase
  <1>2. c \in Call
    BY <1>1 DEF ToolTypeOK
  <1>3. CASE results[c.key] = NoResult
    <2> DEFINE ref == FreshRef(c.key)
               e == [key |-> c.key, ref |-> ref]
               row == [ref |-> ref, payload |-> c.payload]
    <2>1. ref \in Nat \ {0}
      BY <1>1, FreshRefIsRef
    <2> HIDE DEF ref
    <2>2. /\ effects' = effects \cup {e}
          /\ results' = [results EXCEPT ![c.key] = row]
          /\ Respond(c, "ok", ref)
      BY <1>3 DEF Apply, ref
    <2>3. e \in Effect /\ row \in Result
      BY <1>2, <2>1 DEF Effect, Result, Call
    <2>4. ToolTypeOK'
      <3>1. "ok" \in Outcome /\ ref \in Nat
        BY <2>1 DEF Outcome
      <3>2. /\ calls' \subseteq Call
            /\ open' \subseteq Key \X Nat
            /\ replies' \subseteq Reply
        BY <1>1, <2>2, <3>1 DEF Respond, ToolTypeOK, Call, Reply
      <3>3. QED
        BY <1>1, <2>2, <2>3, <3>2 DEF ToolTypeOK
    <2>5. IsFiniteSet(effects')
      BY <1>1, <2>2, FS_AddElement
    <2>6. AnswersMatchLedger'
      <3>1. \A r \in replies : r.outcome = "ok" => r.key # c.key
        BY <1>1, <1>3 DEF AnswersMatchLedger
      <3>2. row # NoResult /\ c.key \in Key
        BY <1>2, <2>1 DEF NoResult, Call
      <3>3. \A r \in replies' \ replies : r.key = c.key /\ r.ref = ref
        BY <2>2 DEF Respond
      <3>4. \A r \in replies : r.key \in Key
        BY <1>1 DEF ToolTypeOK, Reply
      <3>5. QED
        BY <1>1, <2>2, <3>1, <3>2, <3>3, <3>4
           DEF AnswersMatchLedger, ToolTypeOK, NoResult
    <2>7. QED
      BY <2>4, <2>5, <2>6 DEF ToolBase
  <1>4. CASE results[c.key] # NoResult
    BY <1>1, <1>4, RespondFromRowOK, LedgerUnchanged DEF Apply
  <1>5. QED
    BY <1>3, <1>4

\* The step that matters: the row that apply misses is missing for every
\* effect of the key, so the new effect is the first.
LEMMA ApplyMatches ==
    ASSUME ToolBase, NEW c \in calls, Apply(c), NEW k \in Key, KeyMatches(k)
    PROVE  KeyMatches(k)'
  <1>1. /\ c \in Call /\ IsFiniteSet(effects) /\ effects \subseteq Effect
        /\ results \in [Key -> Result \cup {NoResult}]
    BY DEF ToolBase, ToolTypeOK
  <1>2. CASE results[c.key] = NoResult
    <2> DEFINE ref == FreshRef(c.key)
               row == [ref |-> ref, payload |-> c.payload]
    <2>1. ref \in Nat \ {0}
      BY <1>1, FreshRefIsRef
    <2> HIDE DEF ref
    <2>2. /\ effects' = effects \cup {[key |-> c.key, ref |-> ref]}
          /\ results' = [results EXCEPT ![c.key] = row]
      BY <1>2 DEF Apply, ref
    <2>3. c.key \in Key /\ row # NoResult
      BY <1>1, <2>1 DEF Call, NoResult
    <2>4. CASE k = c.key
      <3>1. \A f \in effects : f.key # k
        BY <1>1, <1>2, <2>4 DEF KeyMatches, Effect, NoResult
      <3>2. results'[k] = row /\ row.ref = ref
        BY <1>1, <2>2, <2>3, <2>4
      <3>3. QED
        BY <2>2, <2>4, <3>1, <3>2 DEF KeyMatches
    <2>5. CASE k # c.key
      <3>1. results'[k] = results[k]
        BY <1>1, <2>2, <2>3, <2>5
      <3>2. QED
        BY <2>2, <2>5, <3>1 DEF KeyMatches, NoResult
    <2>6. QED
      BY <2>4, <2>5
  <1>3. CASE results[c.key] # NoResult
    BY <1>3 DEF Apply, ledgerVars, KeyMatches, NoResult
  <1>4. QED
    BY <1>2, <1>3

\* Every step of the service keeps types and answers.
LEMMA ServeBase ==
    ASSUME ToolBase, Serve, ToolAssumption
    PROVE  ToolBase'
  <1>1. PICK c \in calls :
            \/ Find(c) \/ Throttle(c) \/ Apply(c)
            \/ \E a \in Answers : Answer(c, a)
            \/ Lose(c)
    BY DEF Serve
  <1>2. ToolTypeOK
    BY DEF ToolBase
  <1>3. CASE Find(c)
    BY <1>3, FindBase
  <1>4. CASE Throttle(c)
    <2>1. "throttled" \in Outcome
      BY DEF Outcome
    <2>2. QED
      BY <1>4, <2>1, RespondOK, LedgerUnchanged DEF Throttle
  <1>5. CASE Apply(c)
    BY <1>5, ApplyBase
  <1>6. ASSUME NEW a \in Answers, Answer(c, a)
        PROVE  ToolBase'
    <2>1. a \in Outcome /\ a # "ok"
      BY DEF ToolAssumption, Outcome
    <2>2. QED
      BY <1>6, <2>1, RespondOK, LedgerUnchanged DEF Answer
  <1>7. CASE Lose(c)
    <2>1. ServiceOK'
      BY <1>2, <1>7 DEF Lose, ToolBase, ToolTypeOK, ServiceOK,
                        AnswersMatchLedger, NoResult
    <2>2. QED
      BY <1>7, <2>1, LedgerUnchanged DEF Lose, ledgerVars
  <1>8. QED
    BY <1>1, <1>3, <1>4, <1>5, <1>6, <1>7

\* And every key whose effects are those of its row.
LEMMA ServeMatches ==
    ASSUME ToolBase, Serve, NEW k \in Key, KeyMatches(k)
    PROVE  KeyMatches(k)'
  <1>1. PICK c \in calls :
            \/ Find(c) \/ Throttle(c) \/ Apply(c)
            \/ \E a \in Answers : Answer(c, a)
            \/ Lose(c)
    BY DEF Serve
  <1>2. CASE Apply(c)
    BY <1>2, ApplyMatches
  <1>3. CASE ~ Apply(c)
    <2>1. UNCHANGED ledgerVars
      BY <1>1, <1>3 DEF Find, Throttle, Answer, Lose, ledgerVars
    <2>2. QED
      BY <2>1 DEF ledgerVars, KeyMatches, NoResult
  <1>4. QED
    BY <1>2, <1>3

\* Every step of the service keeps the invariant.
LEMMA ServeInv ==
    ASSUME ToolInv, Serve, ToolAssumption
    PROVE  ToolInv'
  BY ToolInvByKey, NextToolInvByKey, ServeBase, ServeMatches

\* Once committed, a row of idempotency_results is never replaced.
LEMMA ResultIsKept ==
    ASSUME ToolBase, Serve, NEW k \in Key, results[k] # NoResult
    PROVE  results'[k] = results[k]
  BY DEF Serve, Find, Throttle, Apply, Answer, Lose, ledgerVars, ToolBase,
         ToolTypeOK, Call

\* The step of a client keeps the invariant.
LEMMA ClientInv ==
    ASSUME ToolInv, Client, ToolAssumption
    PROVE  ToolInv'
  <1>1. PICK k \in Key, id \in 1 .. MaxRequests :
            \/ \E p \in Payload : Invoke(k, id, p)
            \/ <<k, id>> \in open /\ Close(k, id)
    BY DEF Client
  <1>2. id \in Nat
    BY DEF ToolAssumption
  <1>3. QED
    BY <1>1, <1>2, InvokeInv, CloseInv

\* It keeps types and answers whatever the tables hold.
LEMMA ClientBase ==
    ASSUME ToolBase, Client, ToolAssumption
    PROVE  ToolBase' /\ UNCHANGED ledgerVars
  <1>1. PICK k \in Key, id \in 1 .. MaxRequests :
            \/ \E p \in Payload : Invoke(k, id, p)
            \/ <<k, id>> \in open /\ Close(k, id)
    BY DEF Client
  <1>2. id \in Nat
    BY DEF ToolAssumption
  <1>3. UNCHANGED ledgerVars
    BY <1>1 DEF Invoke, Close, ledgerVars
  <1>4. ServiceOK'
    BY <1>1, <1>2 DEF Invoke, Close, ToolBase, ToolTypeOK, ServiceOK, Call,
                      AnswersMatchLedger, NoResult
  <1>5. QED
    BY <1>3, <1>4, LedgerUnchanged

LEMMA ToolStutterInv ==
    ASSUME ToolInv, UNCHANGED toolVars
    PROVE  ToolInv'
  BY DEF ToolInv, ToolTypeOK, EffectHasResult, AnswersMatchLedger, toolVars,
         NoResult

\* The invariant holds in every state of the tool.
THEOREM ToolSafety == ToolSpec => []ToolInv
  <1>1. ToolInit => ToolInv
    BY ToolInitInv
  <1>2. ToolInv /\ [ToolNext]_toolVars => ToolInv'
    BY ToolAssumption, ClientInv, ServeInv, ToolStutterInv DEF ToolNext
  <1>3. QED
    BY <1>1, <1>2, PTL DEF ToolSpec

\* The tables, requests and answers are well formed in every state.
THEOREM ToolTypeCorrect == ToolSpec => []ToolTypeOK
  <1>1. ToolInv => ToolTypeOK
    BY DEF ToolInv
  <1>2. QED
    BY <1>1, ToolSafety, PTL

\* ToolStore.apply makes repeated, concurrent and lost requests of a key into
\* at most one committed effect, for any number of keys and requests.
THEOREM AtMostOneEffectAlways == ToolSpec => []AtMostOneEffect
  BY ToolSafety, OneRowOneEffect, PTL

\* No committed effect without a retrievable result, and no result without
\* its effect.
THEOREM EffectHasResultAlways == ToolSpec => []EffectHasResult
  <1>1. ToolInv => EffectHasResult
    BY DEF ToolInv
  <1>2. QED
    BY <1>1, ToolSafety, PTL

\* Every successful answer carries the one committed result of its key.
THEOREM AnswersMatchLedgerAlways == ToolSpec => []AnswersMatchLedger
  <1>1. ToolInv => AnswersMatchLedger
    BY DEF ToolInv
  <1>2. QED
    BY <1>1, ToolSafety, PTL
=============================================================================
