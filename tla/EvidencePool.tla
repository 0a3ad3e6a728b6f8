---------------------------- MODULE EvidencePool ----------------------------
(***************************************************************************)
(* sodamem/context: the evidence of one question.  Rows that tools return  *)
(* are merged into records (EvidenceStore.ingest), under the id of the     *)
(* first row of a record and all ids the later ones came with.  From the   *)
(* records come the cards a planner or a prompt sees, and the rows that    *)
(* the reader gets.  A planner remembers nothing between its steps, and is *)
(* sent a card in full the first time, and afterwards without its text     *)
(* unless there is a reason (sodamem/answer/context_offload.py).           *)
(*                                                                         *)
(* A text is a name and a size: a tool may cut it, and of one source the   *)
(* pieces begin alike.  A date is as fine as the number of its parts, so a *)
(* finer one is also the longer string.  Of a quantity is kept whether the *)
(* row tells one: rows of one fact tell the same.  How well a row fits the *)
(* query is left open: any order that sorting by it can give.              *)
(***************************************************************************)
EXTENDS Integers, FiniteSets, Sequences, SequencesExt

CONSTANTS
    Found,      \* what a search returns: sequences of rows
    Looked,     \* what the tools that look up an id or a session return
    NoSession,  \* the session of a row that does not tell it
    NoIdentity, \* the identity of a row whose only entity is the subject
    MaxCards,   \* max_state_cards, 24 in the code
    MaxExtra,   \* supplemental_limit, 6 in the code
    MaxPicked,  \* bound: ids a planner or an organizer asks for
    MaxCalls    \* bound: calls of tools

Rows == UNION {ToSet(s) : s \in Found \cup Looked}

EvidenceAssumption ==
    /\ \A r \in Rows :
        /\ r.id \in r.ids /\ r.size \in Nat /\ r.date \in 0..3 /\ r.value \in BOOLEAN
        /\ DOMAIN r = {"id", "ids", "text", "size", "session", "role", "date", "value",
                       "identity"}
    /\ MaxCards \in Nat \ {0} /\ MaxExtra \in Nat
    /\ MaxPicked \in Nat \ {0} /\ MaxCalls \in Nat

VARIABLES
    purpose,    \* "context": a search for a prompt, "answer": a planner's pool
    calls,      \* tools called
    pool,       \* EvidenceStore: [records, order, alias]
    had,        \* history: the rows that were ingested
    picked,     \* preferred_ids or evidence_ids
    asked,      \* what was asked for last: "none", "cards" or "rows"
    seen,       \* PlannerContextOffload.seen_ids
    pending,    \* pending_rehydration_ids
    unread,     \* history: records that were found, or looked up, after the
                \* planner was last sent them in full
    cards,      \* the ids of the cards
    shown       \* the rows of the reader

delivery == <<seen, pending, unread>>
vars == <<purpose, calls, pool, had, picked, asked, delivery, cards, shown>>

Init ==
    /\ purpose \in {"context", "answer"}
    /\ calls = 0
    /\ pool = [records |-> <<>>, order |-> <<>>, alias |-> <<>>]
    /\ had = {}
    /\ picked = <<>> /\ asked = "none" /\ cards = <<>> /\ shown = <<>>
    /\ seen = {} /\ pending = {} /\ unread = {}

Known(p) == DOMAIN p.records
ResolveIn(p, i) == IF i \in DOMAIN p.alias THEN p.alias[i] ELSE i
Resolve(i) == ResolveIn(pool, i)

(* The ways to put n of some records in a row.                             *)
Arranged(ids, n) ==
    FoldLeft(LAMBDA rows, k : UNION {{Append(s, i) : i \in ids \ ToSet(s)} : s \in rows},
             {<<>>}, [k \in 1..n |-> k])

-----------------------------------------------------------------------------
(* ingest.  Of two values of a field the longer one stays, and the first   *)
(* of two that are as long.                                                *)
Merged(old, r) ==
    [old EXCEPT
        !.text = IF r.size > old.size THEN r.text ELSE @,
        !.size = IF r.size > @ THEN r.size ELSE @,
        !.date = IF r.date > @ THEN r.date ELSE @,
        !.value = @ \/ r.value,
        !.session = IF @ = NoSession THEN r.session ELSE @,
        !.ids = @ \cup r.ids]

(* One row finds its record by its evidence id, or begins one.             *)
Absorb(p, r) ==
    LET id == ResolveIn(p, r.id)
        new == id \notin Known(p)
        record == IF new THEN [r EXCEPT !.ids = @ \cup {id}] ELSE Merged(p.records[id], r)
    IN  [records |-> (id :> record) @@ p.records,
         order |-> IF new THEN Append(p.order, id) ELSE p.order,
         alias |-> [i \in record.ids |-> id] @@ p.alias]

(* A tool returns rows.  What the planner looked up it is to see in full   *)
(* again.  For a prompt a search is the only tool.                         *)
Observe ==
    /\ IF purpose = "context" THEN calls = 0 ELSE calls < MaxCalls /\ asked # "rows"
    /\ calls' = calls + 1
    /\ \E rows \in IF calls = 0 THEN Found ELSE Found \cup Looked :
        LET of == {ResolveIn(pool', r.id) : r \in ToSet(rows)}
            again == IF rows \in Looked THEN of ELSE {}
        IN  /\ pool' = FoldLeft(Absorb, pool, rows)
            /\ had' = had \cup ToSet(rows)
            /\ pending' = pending \cup again
            /\ unread' = unread \cup again \cup (Known(pool') \ Known(pool))
    /\ picked' = <<>> /\ asked' = "none" /\ cards' = <<>>
    /\ UNCHANGED <<purpose, seen, shown>>

-----------------------------------------------------------------------------
(* reader_rows.  Rows that say the same in the same session are one: one   *)
(* that tells a date or a quantity has the place of one that tells neither *)
(* (so that one with a quantity keeps its place before one with a date).   *)
Says(e) == <<e.session, e.role, e.text>>
Entry(i) == pool.records[i] @@ [record |-> i]

IsRich(e) == e.date > 0 \/ e.value

Same(rows, i) == {k \in DOMAIN rows : Says(rows[k]) = Says(pool.records[i])}

Place(rows, i) ==
    IF Same(rows, i) = {} THEN Append(rows, Entry(i))
    ELSE LET k == CHOOSE k \in Same(rows, i) : TRUE
         IN IF IsRich(pool.records[i]) /\ ~IsRich(rows[k])
            THEN [rows EXCEPT ![k] = Entry(i)] ELSE rows

Once(ids) == FoldLeft(LAMBDA s, i : IF Contains(s, i) THEN s ELSE Append(s, i), <<>>, ids)
Resolved(ids) == Once([k \in DOMAIN ids |-> Resolve(ids[k])])

ReaderRows(ids) ==
    FoldLeft(Place, <<>>,
             SelectSeq(Resolved(ids),
                       LAMBDA i : i \in Known(pool) /\ pool.records[i].size > 0))

(* The ids a planner or an organizer may give: it was told them with rows. *)
Asked == SeqOf(DOMAIN pool.alias, MaxPicked)

(* augment_reader_ids: behind the selected ones, other records that fit.   *)
Extras(ids) ==
    UNION {Arranged(Known(pool) \ ToSet(Resolved(ids)), n) : n \in 0..MaxExtra}

(* The planner's selection goes to the reader, and the question is over.   *)
Read ==
    /\ purpose = "answer" /\ asked # "rows" /\ asked' = "rows"
    /\ \E ids \in Asked : \E extra \in Extras(ids) : picked' = ids \o extra
    /\ shown' = ReaderRows(picked')
    /\ cards' = <<>>
    /\ UNCHANGED <<purpose, calls, pool, had, delivery>>

-----------------------------------------------------------------------------
(* ranked_records: the preferred ones, then one of each identity that has  *)
(* none, then the others, in the order they are ranked.                    *)
FirstOfItsKind(ranked) ==
    FoldLeft(LAMBDA s, i :
                LET who == pool.records[i].identity
                IN IF who = NoIdentity \/ \E j \in ToSet(s) : pool.records[j].identity = who
                   THEN s ELSE Append(s, i),
             <<>>, ranked)

Ranked(preferred, others) ==
    Once(preferred \o FirstOfItsKind(preferred \o others) \o others)

Chosen(preferred) ==
    LET known == SelectSeq(Resolved(preferred), LAMBDA i : i \in Known(pool))
        others == Known(pool) \ ToSet(known)
        ranked == {Ranked(known, s) : s \in Arranged(others, Cardinality(others))}
    IN  {SubSeq(s, 1, IF Len(s) < MaxCards THEN Len(s) ELSE MaxCards) : s \in ranked}

(* The planner's next prompt: cards of what its claims rest on first.      *)
(* (What is selected or in an open conflict is sent in full besides.)      *)
MutReadAgain(dealt) == pending

ReadAgain(dealt) == pending \cap dealt

InFull == {i \in ToSet(cards') : i \notin seen \/ i \in pending}

Consult ==
    /\ purpose = "answer" /\ asked # "rows" /\ asked' = "cards"
    /\ picked' \in SeqOf(Known(pool), MaxPicked)
    /\ cards' \in Chosen(picked')
    /\ seen' = seen \cup ToSet(cards')
    /\ pending' = pending \ ReadAgain(ToSet(cards'))
    /\ unread' = unread \ InFull
    /\ UNCHANGED <<purpose, calls, pool, had, shown>>

(* build_context: the reader's rows are the preferred ones, and the cards  *)
(* are printed as far as the budget goes.                                  *)
Build ==
    /\ purpose = "context" /\ calls = 1 /\ asked = "none" /\ asked' = "cards"
    /\ LET rows == ReaderRows(pool.order)
       IN picked' = [k \in DOMAIN rows |-> rows[k].record]
    /\ \E all \in Chosen(picked') : \E n \in 0..Len(all) : cards' = SubSeq(all, 1, n)
    /\ UNCHANGED <<purpose, calls, pool, had, delivery, shown>>

Next == Observe \/ Read \/ Consult \/ Build

Spec == Init /\ [][Next]_vars

-----------------------------------------------------------------------------
TypeOK ==
    /\ purpose \in {"context", "answer"} /\ calls \in 0..MaxCalls
    /\ had \subseteq Rows
    /\ \A i \in Known(pool) : \E r \in Rows : DOMAIN pool.records[i] = DOMAIN r
    /\ \A i \in DOMAIN pool.alias : pool.alias[i] \in Known(pool)
    /\ picked \in Seq(DOMAIN pool.alias)
    /\ seen \subseteq Known(pool) /\ pending \subseteq Known(pool)
    /\ unread \subseteq Known(pool)
    /\ asked \in {"none", "cards", "rows"}
    /\ cards \in Seq(Known(pool))
    /\ \A k \in DOMAIN shown : shown[k].record \in Known(pool)

(* Each row that was ingested is found by all its ids, in a record that    *)
(* has at least its text, its date, its quantity and its session; a record *)
(* is found by its own id.  (Rows of one source come from different tools, *)
(* with other ids and cut at other places.)                                *)
KeepsWhatItHad ==
    /\ \A r \in had :
        LET e == pool.records[Resolve(r.id)]
        IN  /\ \A i \in r.ids : Resolve(i) = Resolve(r.id)
            /\ e.size >= r.size /\ e.date >= r.date /\ (r.value => e.value)
            /\ r.session # NoSession => e.session = r.session
    /\ \A i \in Known(pool) : Resolve(i) = i
    /\ ToSet(pool.order) = Known(pool) /\ IsInjective(pool.order)

(* The reader sees no text of a session twice, sees what was selected, or  *)
(* a row that says the same, and a date or a quantity with it if one of    *)
(* those has one; the date itself, unless the row shown has a quantity.    *)
ReaderSeesSelected ==
    asked = "rows" =>
        /\ \A j, k \in DOMAIN shown : Says(shown[j]) = Says(shown[k]) => j = k
        /\ \A i \in ToSet(Resolved(picked)) :
            LET e == pool.records[i]
            IN e.size > 0 =>
                \E k \in DOMAIN shown :
                    Says(shown[k]) = Says(e) /\ (IsRich(e) => IsRich(shown[k]))

(* A record has one card at most.  What a claim rests on has one, unless   *)
(* all cards are of such records; a record beyond them takes the place of  *)
(* none whose identity is on no card; and a prompt repeats no text as long *)
(* as another has no card.                                                 *)
CardsAreShared ==
    asked = "cards" =>
        LET mine == ToSet(Resolved(picked))
            dealt == ToSet(cards)
            Identities(s) == {pool.records[i].identity : i \in s} \ {NoIdentity}
        IN  /\ IsInjective(cards)
            /\ mine \subseteq dealt \/ dealt \subseteq mine
            /\ Identities(Known(pool)) \subseteq Identities(dealt)
                \/ \A k \in DOMAIN cards :
                        cards[k] \in mine
                            \/ ~(Identities({cards[k]})
                                    \subseteq Identities({cards[j] : j \in 1..(k - 1)}))
            /\ purpose = "context" =>
                \/ \A i, j \in dealt :
                        Says(pool.records[i]) = Says(pool.records[j]) => i = j
                \/ \A i \in Known(pool) : \E j \in dealt :
                        Says(pool.records[j]) = Says(pool.records[i])

(* No card is sent without its text to a planner that was not sent it      *)
(* before, or has looked it up since: not even when the card has had no    *)
(* place among the others in between.                                      *)
NothingIsWithheld ==
    asked = "cards" /\ purpose = "answer" => unread \cap ToSet(cards) = {}
=============================================================================
