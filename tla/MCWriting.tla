------------------------------ MODULE MCWriting ------------------------------
(***************************************************************************)
(* Writing on small instances.                                             *)
(***************************************************************************)
EXTENDS Writing, TLC

(* A session in project p of three turns in one window, or of two in a     *)
(* window each; and one turn of the same session in project q, or of       *)
(* another session, with or without extraction.                            *)
MCTurns == "j1" :> {<<1, 1, 1>>, <<2, 2>>} @@ "j2" :> {<<1>>}
MCRequest(session, project, infer) ==
    [session |-> session, project |-> project, infer |-> infer]
MCBrought ==
    "j1" :> {MCRequest("A", "p", TRUE)}
        @@ "j2" :> {MCRequest("A", "q", TRUE), MCRequest("B", None, TRUE),
                    MCRequest("B", "q", FALSE)}
MCConfigs ==
    {[failFast |-> FALSE, emptyIsEmpty |-> TRUE, overlap |-> 0],
     [failFast |-> TRUE, emptyIsEmpty |-> FALSE, overlap |-> 1]}

MCBuilds == {[prompts |-> "p", embedder |-> "e"], [prompts |-> "p", embedder |-> "f"],
             [prompts |-> "q", embedder |-> "e"]}

(* Items that vary in what they cite and quote, in how they are            *)
(* classified, and in the days they name.                                  *)
MCNoDay == [raw |-> 0, expr |-> "", anchored |-> TRUE, point |-> 0, range |-> <<>>]
MCItem ==
    [cites |-> {1}, roles |-> <<"user">>, said |-> <<5>>, overlap |-> <<100>>,
     contain |-> {1}, quote |-> "long", kind |-> "fact", modality |-> "past_event",
     changes |-> FALSE, occurred |-> MCNoDay, from |-> MCNoDay, end |-> 0, until |-> 0,
     scanned |-> 0]
MCCiting ==
    {[MCItem EXCEPT !.cites = c, !.roles = r, !.said = <<5, 4>>, !.overlap = o,
                    !.contain = n, !.quote = q] :
        c \in SUBSET {1, 2, 9}, r \in {<<"user", "assistant">>, <<"assistant", "user">>},
        o \in [1..2 -> {0, 80, 90}], n \in SUBSET {1, 2}, q \in {"short", "few words", "long"}}
MCKinds ==
    {[MCItem EXCEPT !.kind = k, !.modality = m, !.changes = c] :
        k \in {"fact", "event", "state", "preference", "odd"},
        m \in {"past_event", "current_state", "preference", "future_plan", "odd"},
        c \in BOOLEAN}
MCDays ==
    [raw : {0, 3}, expr : {"", "session_date", "before session_date"}, anchored : {TRUE},
     point : {0}, range : {<<>>}]
        \cup [raw : {0, 3}, expr : {"phrase"}, anchored : BOOLEAN, point : {0, 2, 7},
              range : {<<>>, <<1, 5>>}]
MCDated ==
    {[MCItem EXCEPT !.occurred = o, !.from = MCNoDay, !.end = e, !.scanned = s] :
        o \in MCDays, e \in {0, 2, 4}, s \in {0, 4}}
    \cup {[MCItem EXCEPT !.from = f, !.until = u, !.end = e, !.kind = "state"] :
            f \in MCDays, u \in {0, 2, 6}, e \in {0, 4}}
MCItems == MCCiting \cup MCKinds \cup MCDated
MCOptions == {[userOnly |-> TRUE, backfill |-> FALSE], [userOnly |-> FALSE, backfill |-> TRUE]}
=============================================================================
