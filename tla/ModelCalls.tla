----------------------------- MODULE ModelCalls -----------------------------
(***************************************************************************)
(* The calls of a language model (sodamem/llm: OpenAICompatibleProvider    *)
(* and AnthropicProvider) and what is counted of them, up to the totals of *)
(* the server (server/usage.py).                                           *)
(*                                                                         *)
(* An answer makes a provider of its own.  A store makes one when it is    *)
(* opened, and every ingestion into it, on whatever thread, calls through  *)
(* that one and reads its counters.  A response counts as one token.       *)
(***************************************************************************)
EXTENDS Integers, FiniteSets, Sequences, SequencesExt

CONSTANTS
    Operations,     \* operations of the server: ingestions into one store, and answers
    Models,         \* what may answer, whatever model was asked for
    PolicyAttempts, \* POLICY_RETRY_ATTEMPTS, 3 in the code
    EmptyRetries,   \* empty_content_retries, 2 in the code
    MaxCalls,       \* bound: completions of an operation
    MaxOpens        \* bound: times the store is opened

Providers == (1..MaxOpens) \cup Operations

ModelAssumption ==
    /\ Operations \cap (0..MaxOpens) = {}
    /\ {PolicyAttempts, MaxOpens} \subseteq Nat \ {0} /\ {EmptyRetries, MaxCalls} \subseteq Nat

VARIABLES
    kind,     \* "ingest" or "answer"
    sdk,      \* "openai" or "anthropic": SODAMEM_LLM_PROVIDER
    opened,   \* times the store was opened
    via,      \* the provider of an operation, once it has begun
    op,       \* [at, policy, empty]: how far it is, and its retries
    calls,    \* completions it has asked for
    summary,  \* usage_summary: responses counted, models that answered
    finish,   \* _last_finish_reason of a provider
    seen,     \* the finish reason an operation acted on
    book,     \* UsageRegistry: tokens and calls of "ingest" and "answer"
    heard,    \* history: responses an operation got, and from whom
    own,      \* history: the finish reason of its own last response
    mixed     \* history: another one was answered after that

vars == <<kind, sdk, opened, via, op, calls, summary, finish, seen, book, heard, own, mixed>>

NoProvider == 0
Of(k) == {o \in Operations : kind[o] = k}
Reasons == {"stop", "length"}
Idle == [at |-> "idle", policy |-> 0, empty |-> 0]
Goto(o, step) == op' = [op EXCEPT ![o].at = step]
-----------------------------------------------------------------------------
Init ==
    /\ kind \in [Operations -> {"ingest", "answer"}] /\ sdk \in {"openai", "anthropic"}
    /\ opened = 1
    /\ via = [o \in Operations |-> NoProvider]
    /\ op = [o \in Operations |-> Idle]
    /\ calls = [o \in Operations |-> 0]
    /\ summary = [p \in Providers |-> [tokens |-> 0, served |-> <<>>]]
    /\ finish = [p \in Providers |-> "none"]
    /\ seen = [o \in Operations |-> "unread"]
    /\ book = [k \in {"ingest", "answer"} |-> [tokens |-> 0, calls |-> 0]]
    /\ heard = [o \in Operations |-> [tokens |-> 0, models |-> {}]]
    /\ own = [o \in Operations |-> "none"]
    /\ mixed = [o \in Operations |-> FALSE]

(* The store of a user is evicted and opened again, with a new extractor;  *)
(* who uses the old handle goes on with it.                                *)
Reopen ==
    /\ opened < MaxOpens /\ opened' = opened + 1
    /\ UNCHANGED <<kind, sdk, via, op, calls, summary, finish, seen, book, heard, own, mixed>>

Begin(o) ==
    /\ op[o].at = "idle" /\ Goto(o, "ready")
    /\ via' = [via EXCEPT ![o] = IF kind[o] = "answer" THEN o ELSE opened]
    /\ UNCHANGED <<kind, sdk, opened, calls, summary, finish, seen, book, heard, own, mixed>>

(* An ingestion with infer=False calls nobody; its usage is empty, and an  *)
(* empty usage is not entered.                                             *)
Plain(o) ==
    /\ kind[o] = "ingest" /\ op[o].at = "idle" /\ Goto(o, "done")
    /\ UNCHANGED <<kind, sdk, opened, via, calls, summary, finish, seen, book, heard, own, mixed>>

Ask(o) ==
    /\ op[o].at = "ready" /\ calls[o] < MaxCalls
    /\ op' = [op EXCEPT ![o] = [at |-> "asking", policy |-> 1, empty |-> 0]]
    /\ calls' = [calls EXCEPT ![o] = @ + 1]
    /\ seen' = [seen EXCEPT ![o] = "unread"]
    /\ UNCHANGED <<kind, sdk, opened, via, summary, finish, book, heard, own, mixed>>

-----------------------------------------------------------------------------
MutCountsTexts(text) == text
Counts(text) == TRUE

(* record_response_usage: once for every response, with text or without.   *)
Recorded(s, m) ==
    [tokens |-> s.tokens + 1,
     served |-> IF Contains(s.served, m) THEN s.served ELSE Append(s.served, m)]

MutReason(old, reason) == IF old = "length" THEN old ELSE reason
Reason(old, reason) == reason

(* A response of model m arrives.                                          *)
Heard(o, m, text, reason) ==
    LET p == via[o]
    IN /\ summary' = IF Counts(text) THEN [summary EXCEPT ![p] = Recorded(@, m)] ELSE summary
       /\ finish' = IF sdk = "openai" THEN [finish EXCEPT ![p] = Reason(@, reason)] ELSE finish
       /\ heard' = [heard EXCEPT ![o] = [tokens |-> @.tokens + 1, models |-> @.models \cup {m}]]
       /\ own' = [own EXCEPT ![o] = reason]
       /\ mixed' = [q \in Operations |-> IF q = o THEN FALSE ELSE mixed[q] \/ via[q] = p]

(* Text, or what thinking models put in its place.                         *)
Text(o) ==
    /\ op[o].at = "asking" /\ Goto(o, "said")
    /\ \E m \in Models, reason \in Reasons : Heard(o, m, TRUE, reason)
    /\ UNCHANGED <<kind, sdk, opened, via, calls, seen, book>>

(* A response without text: the one provider asks again, so many times;    *)
(* the other takes it for an answer, or finds no block and fails.          *)
Empty(o) ==
    /\ op[o].at = "asking"
    /\ \E m \in Models, reason \in Reasons : Heard(o, m, FALSE, reason)
    /\ IF sdk = "openai"
       THEN op' = [op EXCEPT ![o] =
                      IF @.empty < EmptyRetries THEN [@ EXCEPT !.empty = op[o].empty + 1]
                      ELSE [@ EXCEPT !.at = "error"]]
       ELSE \E step \in {"said", "error"} : Goto(o, step)
    /\ UNCHANGED <<kind, sdk, opened, via, calls, seen, book>>

(* is_policy_retryable: the prompt is compacted and everything begins      *)
(* again; any other error ends the call.                                   *)
Reject(o) ==
    /\ op[o].at = "asking"
    /\ op' = [op EXCEPT ![o] =
                 IF sdk = "openai" /\ @.policy < PolicyAttempts
                 THEN [at |-> "asking", policy |-> @.policy + 1, empty |-> 0]
                 ELSE [@ EXCEPT !.at = "error"]]
    /\ UNCHANGED <<kind, sdk, opened, via, calls, summary, finish, seen, book, heard, own, mixed>>

Break(o) ==
    /\ op[o].at = "asking" /\ Goto(o, "error")
    /\ UNCHANGED <<kind, sdk, opened, via, calls, summary, finish, seen, book, heard, own, mixed>>

(* complete() has returned and the caller looks whether it was cut off.    *)
ReadFinish(o) ==
    /\ op[o].at = "said" /\ Goto(o, "ready")
    /\ seen' = [seen EXCEPT ![o] = finish[via[o]]]
    /\ UNCHANGED <<kind, sdk, opened, via, calls, summary, finish, book, heard, own, mixed>>

(* The extractor does without the model; nobody else does.                 *)
FallBack(o) ==
    /\ op[o].at = "error" /\ kind[o] = "ingest" /\ Goto(o, "ready")
    /\ UNCHANGED <<kind, sdk, opened, via, calls, summary, finish, seen, book, heard, own, mixed>>

Fail(o) ==
    /\ op[o].at \in {"ready", "error"} /\ Goto(o, "failed")
    /\ UNCHANGED <<kind, sdk, opened, via, calls, summary, finish, seen, book, heard, own, mixed>>

-----------------------------------------------------------------------------
Folded(known, new) == known + new

(* UsageRegistry.record of what the provider has counted so far.           *)
Finish(o) ==
    /\ op[o].at = "ready" /\ (kind[o] = "answer" => calls[o] > 0) /\ Goto(o, "done")
    /\ book' = [book EXCEPT ![kind[o]] =
                   [tokens |-> Folded(@.tokens, summary[via[o]].tokens), calls |-> @.calls + 1]]
    /\ UNCHANGED <<kind, sdk, opened, via, calls, summary, finish, seen, heard, own, mixed>>

Next ==
    \/ Reopen
    \/ \E o \in Operations :
        \/ Begin(o) \/ Plain(o) \/ Ask(o) \/ Text(o) \/ Empty(o) \/ Reject(o) \/ Break(o)
        \/ ReadFinish(o) \/ FallBack(o) \/ Fail(o) \/ Finish(o)

Spec == Init /\ [][Next]_vars
-----------------------------------------------------------------------------
TypeOK ==
    /\ kind \in [Operations -> {"ingest", "answer"}]
    /\ sdk \in {"openai", "anthropic"} /\ opened \in 1..MaxOpens
    /\ via \in [Operations -> Providers \cup {NoProvider}]
    /\ op \in [Operations -> [at : {"idle", "ready", "asking", "said", "error", "done", "failed"},
                              policy : 0..PolicyAttempts, empty : 0..EmptyRetries]]
    /\ calls \in [Operations -> 0..MaxCalls]
    /\ \A p \in Providers : summary[p].tokens \in Nat /\ summary[p].served \in Seq(Models)
    /\ finish \in [Providers -> Reasons \cup {"none"}]
    /\ seen \in [Operations -> Reasons \cup {"none", "unread"}]
    /\ \A k \in {"ingest", "answer"} : {book[k].tokens, book[k].calls} \subseteq Nat

Responses(S) == UNION {{o} \X (1..heard[o].tokens) : o \in S}
HeardBy(S) == Cardinality(Responses(S))
Through(p) == {o \in Operations : via[o] = p}
Entered(S) == {o \in S : op[o].at = "done" /\ via[o] # NoProvider}
Alone(o) == \A q \in Of("ingest") \ {o} : via[q] # via[o]

(* What was spent is counted: a provider counts every response, those that *)
(* were retried or came to nothing too, and names every model that         *)
(* answered once; the total of the answers is what the answers cost that   *)
(* were given; that of the ingestions is never less than what they cost,   *)
(* and is that if none shared its provider with another.                   *)
SpendIsCounted ==
    /\ \A p \in Providers :
        /\ summary[p].tokens = HeardBy(Through(p))
        /\ IsInjective(summary[p].served)
        /\ ToSet(summary[p].served) = UNION {heard[o].models : o \in Through(p)}
    /\ book["answer"].tokens = HeardBy(Entered(Of("answer")))
    /\ book["ingest"].tokens >= HeardBy(Entered(Of("ingest")))
    /\ (\A o \in Entered(Of("ingest")) : Alone(o)) =>
        book["ingest"].tokens = HeardBy(Entered(Of("ingest")))

(* Whether a completion was cut off is read from the provider after the    *)
(* completion has returned.  It is the completion's own, unless another    *)
(* job of the same user got a response in between; and it is of the last   *)
(* response, not of one that was retried.                                  *)
FinishReasonIsOwn ==
    \A o \in Operations :
        seen[o] # "unread" /\ op[o].at = "ready" /\ ~mixed[o] =>
            seen[o] = IF sdk = "openai" THEN own[o] ELSE "none"
=============================================================================
