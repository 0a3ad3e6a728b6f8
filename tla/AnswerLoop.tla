----------------------------- MODULE AnswerLoop -----------------------------
(***************************************************************************)
(* sodamem/answer: the planner loop that gathers evidence for a question,  *)
(* and the reader context assembled from what it gathered.                 *)
(*                                                                         *)
(* The planner is a language model: what it proposes is any packet of the  *)
(* protocol, or garbage.  A tool call returns any set of rows, or fails.   *)
(* The runtime decides what is run, when the loop ends and whether the     *)
(* answer may be called sufficient.  Texts are left out: a row of the pool *)
(* is an element of Evidence, a call is named by its signature.            *)
(***************************************************************************)
EXTENDS Integers, Sequences, FiniteSets, FiniteSetsExt

CONSTANTS
    Evidence,       \* the rows tool calls can return
    External,       \* those of modality external_info
    Text,           \* Text[e]: what a row renders to, NoText when nothing
    NoText,
    Claims,         \* claim ids
    Negative,       \* claims that say nothing was found
    Calls,          \* tool calls, by signature
    Tool,           \* Tool[c]: the tool a call names
    Allowed,        \* config.allowed_tools
    FirstSearch,    \* the search for the question itself (InitToolRule)
    AutoCall,       \* AutoCall[f]: the call synthesised for family f
    MaxSteps, MaxSelected, Dups, ZeroRows, ZeroNovelty,     \* config
    FallbackCards,  \* how many cards the fallback selects, 12 in the code
    Configs,        \* the settings a question may be answered with
    MaxCalls        \* bound: calls of one decision, 4 in the code

Families == {"count_family", "timeline_family"}
Kinds == {"ordinary", "count", "comparison", "comparison_count"}
NoClaim == [status |-> "none", ev |-> {}, material |-> FALSE]

ASSUME ConfigAssumption ==
    /\ MaxSteps \in Nat \ {0} /\ MaxSelected \in Nat \ {0}
    /\ Dups \in Nat \ {0} /\ ZeroRows \in Nat \ {0} /\ ZeroNovelty \in Nat \ {0}
    /\ FallbackCards \in Nat \ {0} /\ MaxCalls \in Nat
    /\ Configs \subseteq [autofill : BOOLEAN, autocall : BOOLEAN,
                          stall : BOOLEAN, gate : BOOLEAN]
ASSUME CallAssumption ==
    /\ Tool \in [Calls -> STRING]
    /\ FirstSearch \in Calls /\ Tool[FirstSearch] = "browser_search"
    /\ AutoCall \in [Families -> Calls]
    /\ Tool[AutoCall["count_family"]] = "browser_count_evidence"
    /\ Tool[AutoCall["timeline_family"]] = "browser_timeline_events"
ASSUME EvidenceAssumption ==
    /\ IsFiniteSet(Evidence)
    /\ External \subseteq Evidence
    /\ DOMAIN Text = Evidence

VARIABLES
    config,     \* PlannerConfig
    phase,      \* "consult", "decide", "calls", "settle", "cut", "done",
                \* "read"
    step,       \* of the for loop
    records,    \* EvidenceStore.records
    claims, kind, unsettled,    \* PlannerState: claims, classification, and
                \* whether a material question is open or a conflict unresolved
    caps,       \* successful_tool_capabilities
    history,    \* signatures of the successful calls in search_history
    emptied,    \* whether one of them returned no rows
    pending,    \* calls still to run in this step
    draft,      \* the final decision being judged, then the result
    novelty,    \* [fresh: rows new in this step, zero: consecutive_zero_novelty]
    guidance,   \* AgentGuidance: [dups, zeroRows]
    shown       \* the rows of the reader's context

plannerVars == <<claims, kind, unsettled>>
toolVars == <<records, caps, history, emptied>>
vars == <<config, phase, step, plannerVars, toolVars, pending, draft, novelty,
          guidance, shown>>

NoDecision == [end |-> "none", sufficient |-> FALSE, selected |-> {}, why |-> FALSE]

Init ==
    /\ config \in Configs
    /\ phase = "consult" /\ step = 0
    /\ records = {} /\ caps = {} /\ history = {} /\ emptied = FALSE
    /\ claims = [c \in Claims |-> NoClaim]
    /\ kind = "none" /\ unsettled = FALSE
    /\ pending = <<>> /\ draft = NoDecision
    /\ novelty = [fresh |-> FALSE, zero |-> 0]
    /\ guidance = [dups |-> 0, zeroRows |-> 0]
    /\ shown = {}

-----------------------------------------------------------------------------
(* What the loop computes from its state.                                  *)

Supported == {c \in Claims : claims[c].status = "supported"}
Material == {c \in Supported : claims[c].material}
EvidenceOf(cs) == UNION {claims[c].ev : c \in cs}

(* _TOOL_FAMILY_CAPABILITIES and _RULE_ALIASES: what a success of t proves. *)
Proves(t) ==
    CASE t = "browser_search" -> {"search"}
      [] t = "browser_count_evidence" -> {"count_family"}
      [] t = "browser_timeline_events" -> {"timeline_family"}
      [] OTHER -> {}

(* What a classification demands; "count" stands for enumeration and sum.  *)
Required(k) ==
    CASE k = "count" -> {"count_family"}
      [] k = "comparison" -> {"timeline_family"}
      [] k = "comparison_count" -> Families
      [] OTHER -> {}

Missing == Required(kind) \ caps
Owes == kind = "none" \/ Missing # {}

(* _unproven_abstention_errors: nothing shows that the rows do not exist.  *)
Unproven == history # {} /\ ~emptied

(* What a finalisation with these picks selects.  With autofill the        *)
(* evidence of the material claims takes the places of the cap first; the  *)
(* order within claims and within picks is any order.                      *)
Selections(picks) ==
    LET own == EvidenceOf(Material)
        all == own \cup picks
    IN  IF ~config.autofill THEN {picks}
        ELSE {S \in SUBSET all :
                /\ Cardinality(S) = Min({MaxSelected, Cardinality(all)})
                /\ own \subseteq S \/ S \subseteq own}

(* _finalization_errors is empty.                                          *)
Accepts(d) ==
    /\ ~Owes
    /\ Cardinality(d.selected) <= MaxSelected
    /\ d.sufficient =>
        /\ d.selected # {}
        /\ Material \cap Negative = {}
        /\ EvidenceOf(Material) \subseteq d.selected
        /\ ~unsettled
    /\ ~d.sufficient => d.why /\ (config.gate => ~Unproven)

(* stall_verdict.                                                          *)
Stalled(zero) ==
    /\ config.stall
    /\ \/ guidance.dups >= Dups
       \/ guidance.zeroRows >= ZeroRows
       \/ zero >= ZeroNovelty

-----------------------------------------------------------------------------
(* One step of the loop.                                                   *)

MutInRange == step <= MaxSteps

InRange == step < MaxSteps

NextStep == phase' = "consult" /\ step' = step + 1

(* The output could not be parsed, not even after the truncation retry.    *)
Garbled ==
    /\ phase = "consult" /\ InRange
    /\ NextStep
    /\ UNCHANGED <<config, plannerVars, toolVars, pending, draft, novelty, guidance, shown>>

(* A claim asserted as supported by these ids: those no record has are     *)
(* dropped, and with none left it is a hypothesis.                         *)
Asserted(ids, material) ==
    IF ids \cap records = {} THEN [NoClaim EXCEPT !.status = "hypothesis"]
    ELSE [status |-> "supported", ev |-> ids \cap records, material |-> material]

(* PlannerState.apply_update.  Of a claim that is not supported only that  *)
(* it exists is kept.  Bound: one claim per packet.                        *)
Update ==
    /\ phase = "consult" /\ InRange
    /\ \/ UNCHANGED claims
       \/ \E c \in Claims :
            \/ claims' = [claims EXCEPT ![c] = NoClaim]
            \/ claims' = [claims EXCEPT ![c] = [NoClaim EXCEPT !.status = "hypothesis"]]
            \/ \E ids \in SUBSET Evidence, material \in BOOLEAN :
                    claims' = [claims EXCEPT ![c] = Asserted(ids, material)]
    /\ kind' \in {kind} \cup Kinds
    /\ unsettled' \in BOOLEAN
    /\ phase' = "decide"
    /\ UNCHANGED <<config, step, toolVars, pending, draft, novelty, guidance, shown>>

(* No decision, an unknown action, no call, or a final before any search   *)
(* succeeded (TerminalRule): feedback, and the step is spent.              *)
Rebuff ==
    /\ phase = "decide"
    /\ NextStep
    /\ UNCHANGED <<config, plannerVars, toolVars, pending, draft, novelty, guidance, shown>>

(* Until a search has succeeded the question's own search replaces what    *)
(* the planner proposed.                                                   *)
Enforced(cs) == IF "search" \in caps THEN cs ELSE <<FirstSearch>>

ProposeCalls ==
    /\ phase = "decide"
    /\ \E n \in 1..MaxCalls : \E cs \in [1..n -> Calls] : pending' = Enforced(cs)
    /\ novelty' = [novelty EXCEPT !.fresh = FALSE]
    /\ phase' = "calls"
    /\ UNCHANGED <<config, step, plannerVars, toolVars, draft, guidance, shown>>

(* capability_calls: the calls a final still owes, run by the runtime.     *)
AutoCalls ==
    LET Owed(f) == IF config.autocall /\ f \in Missing THEN <<AutoCall[f]>> ELSE <<>>
    IN  Owed("timeline_family") \o Owed("count_family")

(* A final.  One that names no valid sufficiency is rejected like one that *)
(* is insufficient and does not say why.                                   *)
ProposeFinal ==
    /\ phase = "decide" /\ "search" \in caps
    /\ \E sufficient, why \in BOOLEAN, picks \in SUBSET Evidence :
        draft' = [end |-> "proposed", sufficient |-> sufficient, selected |-> picks, why |-> why]
    /\ pending' = AutoCalls
    /\ phase' = "settle"
    /\ UNCHANGED <<config, step, plannerVars, toolVars, novelty, guidance, shown>>

(* _add_successful_capabilities, after a success only.                     *)
Proven(c, ok) == IF ok THEN caps \cup Proves(Tool[c]) ELSE caps

(* _run_tool and the bookkeeping after it, for the next pending call.      *)
Run(c) ==
    \/ /\ caps' = Proven(c, FALSE)
       /\ UNCHANGED <<records, history, emptied, guidance, novelty>>
    \/ \E rows \in SUBSET Evidence :
        /\ records' = records \cup rows
        /\ caps' = Proven(c, TRUE) /\ history' = history \cup {c}
        /\ emptied' = (emptied \/ rows = {})
        /\ guidance' = IF rows = {} THEN [guidance EXCEPT !.zeroRows = @ + 1] ELSE guidance
        /\ novelty' = IF phase = "calls"
                      THEN [novelty EXCEPT !.fresh = @ \/ ~(rows \subseteq records)]
                      ELSE novelty

(* An exact duplicate of a call that succeeded.                            *)
Duplicate(c) == c \in history

CallTool ==
    /\ phase = "calls" /\ pending # <<>>
    /\ LET c == Head(pending)
       IN  \/ /\ Tool[c] \notin Allowed
              /\ UNCHANGED <<toolVars, novelty, guidance>>
           \/ /\ Tool[c] \in Allowed /\ Duplicate(c)
              /\ guidance' = [guidance EXCEPT !.dups = @ + 1]
              /\ UNCHANGED <<toolVars, novelty>>
           \/ /\ Tool[c] \in Allowed /\ ~Duplicate(c)
              /\ Run(c)
    /\ pending' = Tail(pending)
    /\ UNCHANGED <<config, phase, step, plannerVars, draft, shown>>

(* The end of a step of calls: the loop goes on, or is cut.                *)
EndStep ==
    /\ phase = "calls" /\ pending = <<>>
    /\ LET zero == IF novelty.fresh THEN 0 ELSE novelty.zero + 1
       IN  /\ novelty' = [novelty EXCEPT !.zero = zero]
           /\ IF Stalled(zero)
              THEN phase' = "cut" /\ UNCHANGED step
              ELSE NextStep
    /\ UNCHANGED <<config, plannerVars, toolVars, pending, draft, guidance, shown>>

SettleDebt ==
    /\ phase = "settle" /\ pending # <<>>
    /\ Run(Head(pending))
    /\ pending' = Tail(pending)
    /\ UNCHANGED <<config, phase, step, plannerVars, draft, shown>>

Judge ==
    /\ phase = "settle" /\ pending = <<>>
    /\ \E S \in Selections(draft.selected) :
        LET final == [draft EXCEPT !.end = "planner_final", !.selected = S]
        IN  IF draft.selected \subseteq records /\ Accepts(final)
            THEN draft' = final /\ phase' = "done" /\ UNCHANGED step
            ELSE draft' = NoDecision /\ NextStep
    /\ UNCHANGED <<config, plannerVars, toolVars, pending, novelty, guidance, shown>>

MutFallbackIgnoresDebt(S) == S = {} \/ unsettled

(* What the fallback may not call sufficient, the abstention gate apart.   *)
Lacking(S) == S = {} \/ unsettled \/ Owes

(* The gate lets a fallback answer from what it has, unless nothing was    *)
(* retrieved or a tool family is owed.                                     *)
Overridden(S) == config.gate /\ Lacking(S) /\ S # {} /\ ~Owes /\ Unproven

MutBestCards ==
    {S \in SUBSET records : Cardinality(S) = Min({FallbackCards, Cardinality(records)})}

(* The evidence of the supported claims, else the best cards, in any       *)
(* ranking.                                                                *)
FallbackPool ==
    LET own == EvidenceOf(Supported)
    IN  IF own # {} THEN {own}
        ELSE {S \in SUBSET records :
                Cardinality(S) = Min({FallbackCards, Cardinality(records)})}

(* missing_parts is not empty.                                             *)
SaysWhy(S, insufficient) == S = {} \/ (insufficient /\ unsettled) \/ Owes

(* The loop was cut, or ran out of steps: the runtime decides.             *)
Fallback ==
    /\ phase = "cut" \/ (phase = "consult" /\ step = MaxSteps)
    /\ \E S \in FallbackPool :
        LET insufficient == Lacking(S) /\ ~Overridden(S)
        IN  draft' = [end |-> IF phase = "cut" THEN "stall_stop" ELSE "max_steps",
                      sufficient |-> ~insufficient, selected |-> S,
                      why |-> SaysWhy(S, insufficient)]
    /\ phase' = "done"
    /\ UNCHANGED <<config, step, plannerVars, toolVars, pending, novelty, guidance, shown>>

(* full_pool: what was selected, then everything else that was retrieved.  *)
Pool == records

(* drop_external, unless the question asks what the assistant said or      *)
(* nothing else is there.                                                  *)
Kept(pool, recall) ==
    IF recall \/ pool \subseteq External THEN pool ELSE pool \ External

(* assemble_reader_context over the full pool: rows that render to the     *)
(* same text are shown once, rows without text never.                      *)
Read ==
    /\ phase = "done"
    /\ \E recall \in BOOLEAN, rows \in SUBSET records :
        LET pool == Kept(Pool, recall)
        IN  /\ rows \subseteq pool
            /\ \A e \in rows : Text[e] # NoText
            /\ \A e \in pool : Text[e] # NoText =>
                    Cardinality({r \in rows : Text[r] = Text[e]}) = 1
            /\ shown' = rows
    /\ phase' = "read"
    /\ UNCHANGED <<config, step, plannerVars, toolVars, pending, draft, novelty, guidance>>

Next ==
    \/ Garbled \/ Update \/ Rebuff \/ ProposeCalls \/ ProposeFinal
    \/ CallTool \/ EndStep \/ SettleDebt \/ Judge \/ Fallback \/ Read

Spec == Init /\ [][Next]_vars

-----------------------------------------------------------------------------
Ended == phase \in {"done", "read"}

TypeOK ==
    /\ config \in Configs
    /\ phase \in {"consult", "decide", "calls", "settle", "cut", "done", "read"}
    /\ step \in 0..MaxSteps
    /\ records \subseteq Evidence /\ shown \subseteq Evidence
    /\ claims \in [Claims -> [status : {"none", "hypothesis", "supported"},
                              ev : SUBSET Evidence, material : BOOLEAN]]
    /\ kind \in Kinds \cup {"none"} /\ unsettled \in BOOLEAN
    /\ caps \subseteq {"search"} \cup Families
    /\ history \subseteq Calls /\ emptied \in BOOLEAN
    /\ pending \in Seq(Calls)
    /\ draft \in [end : {"none", "proposed", "planner_final", "stall_stop", "max_steps"},
                  sufficient : BOOLEAN, selected : SUBSET Evidence, why : BOOLEAN]
    /\ novelty \in [fresh : BOOLEAN, zero : Nat]
    /\ guidance \in [dups : Nat, zeroRows : Nat]

(* An answer is called sufficient only with evidence, after a search, with *)
(* every tool family the question's kind demands, and with nothing open:   *)
(* the planner's finals and the runtime's fallbacks are held to the same.  *)
(* Only the abstention gate lets a fallback pass over open questions, and  *)
(* only a final is kept from resting on a claim that nothing was found.    *)
SufficientIsEarned ==
    Ended /\ draft.sufficient =>
        /\ draft.selected # {} /\ draft.selected \subseteq records
        /\ kind # "none" /\ "search" \in caps /\ Required(kind) \subseteq caps
        /\ ~config.gate \/ draft.end = "planner_final" => ~unsettled
        /\ draft.end = "planner_final" => Material \cap Negative = {}

(* A sufficient answer selects the evidence of every material claim, also  *)
(* when that evidence had to compete with the planner's picks for the      *)
(* places of the cap, and on the fallbacks.                                *)
SelectionCoversClaims ==
    Ended /\ draft.sufficient => EvidenceOf(Material) \subseteq draft.selected

(* With the abstention gate, running out of steps is not taken for proof   *)
(* that the store has nothing: insufficient means that a retrieval came    *)
(* back empty, that there is nothing to answer from, or that a tool family *)
(* the question demands never answered.                                    *)
AbstentionIsProven ==
    Ended /\ config.gate /\ ~draft.sufficient =>
        emptied \/ history = {} \/ draft.selected = {} \/ Owes

(* Every supported claim the reader is told has its evidence before the    *)
(* reader's eyes, as that row or as one with the same text, unless the row *)
(* is external information or renders to nothing.                          *)
ClaimsReachReader ==
    phase = "read" =>
        \A e \in EvidenceOf(Supported) \ External :
            Text[e] # NoText => \E r \in shown : Text[r] = Text[e]
=============================================================================
