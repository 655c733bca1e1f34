-------------------------------- MODULE Tool --------------------------------
(***************************************************************************)
(* The mock tool (crashsafe/mock_tool.py): an HTTP service with a durable  *)
(* ledger of its own, ledger.db, that shares no transaction with engine.db.*)
(*                                                                         *)
(* A request runs in a server thread in two database steps, with other     *)
(* requests in between: find looks for a committed result, apply looks     *)
(* again and, if there is none, commits the side effect and the result.    *)
(* The client may stop waiting (timeout, crash) while its request goes on. *)
(*                                                                         *)
(* A reference id is a fresh uuid.  Here it is the number of the effect    *)
(* among the effects of its key; 0 is "no row".                            *)
(***************************************************************************)
EXTENDS Operations, Naturals, FiniteSets

CONSTANTS
    MaxRequests,    \* bound: requests of one key, numbered by the client
    Answers         \* what a tool may answer without an effect, beyond 429

ToolAssumption ==
    /\ MaxRequests \in Nat
    /\ Answers \subseteq {"error", "rejected", "malformed", "endless"}

ASSUME ToolAssumption

VARIABLES
    results,    \* table idempotency_results, one row at most per key
    effects,    \* table side_effects
    calls,      \* requests inside the service
    open,       \* <<key, id>> of the requests a client still waits for
    replies     \* responses that have reached a waiting client

toolVars == <<results, effects, calls, open, replies>>
ledgerVars == <<results, effects>>

NoResult == [ref |-> 0, payload |-> {}]

Outcome == {"ok", "throttled", "conflict", "error", "rejected", "malformed",
            "endless"}

Result  == [ref : Nat \ {0}, payload : Payload]
Effect  == [key : Key, ref : Nat \ {0}]
Call    == [key : Key, id : Nat, payload : Payload,
            stage : {"received", "missed"}]
Reply   == [key : Key, id : Nat, outcome : Outcome, ref : Nat]

ToolTypeOK ==
    /\ results \in [Key -> Result \cup {NoResult}]
    /\ effects \subseteq Effect
    /\ calls \subseteq Call
    /\ open \subseteq Key \X Nat
    /\ replies \subseteq Reply

ToolInit ==
    /\ results = [k \in Key |-> NoResult]
    /\ effects = {}
    /\ calls = {}
    /\ open = {}
    /\ replies = {}

-----------------------------------------------------------------------------
(* The client's side of a connection. *)

Unused(k, id) ==
    /\ <<k, id>> \notin open
    /\ \A c \in calls : ~ (c.key = k /\ c.id = id)

\* POST /tools/{operation} with the Idempotency-Key header.
Invoke(k, id, p) ==
    /\ Unused(k, id)
    /\ calls' = calls \cup
            {[key |-> k, id |-> id, payload |-> p, stage |-> "received"]}
    /\ open' = open \cup {<<k, id>>}
    /\ UNCHANGED <<results, effects, replies>>

\* The client has its answer, gives up waiting, or dies.
Close(k, id) ==
    /\ open' = open \ {<<k, id>>}
    /\ replies' = {r \in replies : ~ (r.key = k /\ r.id = id)}
    /\ UNCHANGED <<results, effects, calls>>

-----------------------------------------------------------------------------
(* The service's side. *)

\* The handler of call c is done; nobody may be left to read the response.
Respond(c, outcome, ref) ==
    /\ calls' = calls \ {c}
    /\ replies' = IF <<c.key, c.id>> \in open
                  THEN replies \cup {[key |-> c.key, id |-> c.id,
                                      outcome |-> outcome, ref |-> ref]}
                  ELSE replies
    /\ UNCHANGED open

\* Plausible bug: the lookup compares the key only.
RespondFromAnyRow(c) == Respond(c, "ok", results[c.key].ref)

\* What both lookups do with a row of idempotency_results: a different
\* request under the same key is a conflict, the same one gets the saved result.
RespondFromRow(c) ==
    IF results[c.key].payload = c.payload
    THEN Respond(c, "ok", results[c.key].ref)
    ELSE Respond(c, "conflict", 0)

\* ToolStore.find, the first lookup.
Find(c) ==
    /\ c.stage = "received"
    /\ IF results[c.key] = NoResult
       THEN /\ calls' = (calls \ {c}) \cup {[c EXCEPT !.stage = "missed"]}
            /\ UNCHANGED <<open, replies>>
       ELSE RespondFromRow(c)
    /\ UNCHANGED ledgerVars

\* Injected flakiness, before the side effect transaction: 429.
Throttle(c) ==
    /\ c.stage = "missed"
    /\ Respond(c, "throttled", 0)
    /\ UNCHANGED ledgerVars

\* Plausible bug: numbering starts at the value that means "no row".
CountOfRefs(k) == Cardinality({e \in effects : e.key = k})

\* A reference id no effect of this key has.
FreshRef(k) == Cardinality({e \in effects : e.key = k}) + 1

\* Plausible bug: apply trusts the lookup find made before.
ApplyWithoutLookup(c) ==
    LET ref == FreshRef(c.key)
    IN  /\ c.stage = "missed"
        /\ effects' = effects \cup {[key |-> c.key, ref |-> ref]}
        /\ results' = [results EXCEPT ![c.key] =
                         [ref |-> ref, payload |-> c.payload]]
        /\ Respond(c, "ok", ref)

\* Plausible bug: the result is not saved in the transaction of the effect.
ApplyEffectOnly(c) ==
    LET ref == FreshRef(c.key)
    IN  /\ c.stage = "missed"
        /\ effects' = effects \cup {[key |-> c.key, ref |-> ref]}
        /\ Respond(c, "ok", ref)
        /\ UNCHANGED results

\* ToolStore.apply, one transaction: the second lookup, and the effect with
\* its result when there is no row yet.
Apply(c) ==
    /\ c.stage = "missed"
    /\ IF results[c.key] = NoResult
       THEN LET ref == FreshRef(c.key)
            IN  /\ effects' = effects \cup {[key |-> c.key, ref |-> ref]}
                /\ results' = [results EXCEPT ![c.key] =
                                 [ref |-> ref, payload |-> c.payload]]
                /\ Respond(c, "ok", ref)
       ELSE /\ RespondFromRow(c)
            /\ UNCHANGED ledgerVars

\* An answer that carries no effect: an exception in the handler (5xx), or
\* what the engine's gateway also meets with other tools: 4xx, "malformed" (a
\* 2xx without a result), "endless" (a 429 whose Retry-After is no duration).
Answer(c, outcome) ==
    /\ Respond(c, outcome, 0)
    /\ UNCHANGED ledgerVars

\* The request is lost on its way, or the service dies while it runs; a
\* transaction that had not committed leaves nothing behind.
Lose(c) ==
    /\ calls' = calls \ {c}
    /\ UNCHANGED <<results, effects, open, replies>>

Serve ==
    \E c \in calls :
        \/ Find(c)
        \/ Throttle(c)
        \/ Apply(c)
        \/ \E a \in Answers : Answer(c, a)
        \/ Lose(c)

-----------------------------------------------------------------------------
(* The tool on its own, under clients that use any key with any payload. *)

Client ==
    \E k \in Key, id \in 1 .. MaxRequests :
        \/ \E p \in Payload : Invoke(k, id, p)
        \/ <<k, id>> \in open /\ Close(k, id)

ToolNext == Client \/ Serve

ToolSpec == ToolInit /\ [][ToolNext]_toolVars

-----------------------------------------------------------------------------
(* Properties. *)

\* However many requests of a key run at the same time, are lost or repeated
\* after a lost answer, the ledger holds at most one effect for it
\* (ToolStore.apply, mock_tool.py).
AtMostOneEffect ==
    \A e, f \in effects : e.key = f.key => e = f

\* "There is no committed effect without a retrievable result": the rows of
\* side_effects and of idempotency_results correspond one to one.
EffectHasResult ==
    /\ \A e \in effects : results[e.key].ref = e.ref
    /\ \A k \in Key : results[k] # NoResult =>
            [key |-> k, ref |-> results[k].ref] \in effects

\* Every successful answer on its way to a client is the committed result of
\* its key: "every retry deterministically returns that original result", so
\* the clients of one key can never learn two different references.
AnswersMatchLedger ==
    \A r \in replies : r.outcome = "ok" =>
        results[r.key] # NoResult /\ results[r.key].ref = r.ref

\* A successful answer is the committed result of exactly the request it
\* answers: same key, same payload, and the reference in the ledger.  A key
\* reused with another payload never gets the first payload's result, whether
\* it is caught by find or by apply.
AnswersOwnRequest ==
    [][\A r \in replies' \ replies : r.outcome = "ok" =>
         \E c \in calls :
            /\ c.key = r.key /\ c.id = r.id
            /\ results'[c.key] = [ref |-> r.ref, payload |-> c.payload]]_toolVars

=============================================================================
