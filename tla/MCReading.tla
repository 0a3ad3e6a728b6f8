------------------------------ MODULE MCReading ------------------------------
(***************************************************************************)
(* Reading on small instances.                                             *)
(***************************************************************************)
EXTENDS Reading, TLC

(* The planner's loop: two rows, one of them external, a cap of one        *)
(* selected row, and one call of each family.                              *)
MCEvidence == {"e1", "e2"}
MCExternal == {"e2"}
MCText == [e \in MCEvidence |-> e]
MCCalls == {"first", "look", "count", "timeline", "foreign"}
MCTool ==
    [c \in MCCalls |->
        CASE c = "first" -> "browser_search"
          [] c = "look" -> "browser_inspect"
          [] c = "count" -> "browser_count_evidence"
          [] c = "timeline" -> "browser_timeline_events"
          [] OTHER -> "other"]
MCAllowed == {"browser_search", "browser_inspect", "browser_count_evidence",
              "browser_timeline_events"}
MCAutoCall == [f \in Families |-> IF f = "count_family" THEN "count" ELSE "timeline"]

Default == [autofill |-> TRUE, autocall |-> TRUE, stall |-> TRUE, gate |-> FALSE]
Reverse == [autofill |-> FALSE, autocall |-> FALSE, stall |-> FALSE, gate |-> TRUE]
MCConfigs == {Default, Reverse}

(* Two facts of one event, one that is archived; the id of a span occurs   *)
(* in that of another.                                                     *)
MCFacts == {"f1", "f2", "f3"}
MCSpans == {"s1", "s10"}
MCSources == "f1" :> {"s1"} @@ "f2" :> {"s10"} @@ "f3" :> {"s10"}
MCLikeId == "s1" :> {"s1", "s10"} @@ "s10" :> {"s10"}
MCAbout == "a" :> {"f1", "f2"} @@ "b" :> {"f2", "f3"}
MCEvent == "f1" :> "e" @@ "f2" :> "e" @@ "f3" :> "unclear"
MCRich == "f1" :> 1 @@ "f2" :> 2 @@ "f3" :> 1
MCWhen == "f1" :> 3 @@ "f3" :> 4
MCExpands == "m" :> {"f1", "f3"}
MCZones == {0, -1}
MCThrough == [t \in Writers \cup Searchers |-> "h"]

(* Rows as tools return them: of two facts of one span, of which one has a *)
(* date (a timeline tells its year, a search a day) and the other a        *)
(* quantity, of a third, of the span and of a turn, which a search cuts    *)
(* and a look at it does not, and of the turn as a part of its session.    *)
Row(id, ids, text, size, session, date, identity) ==
    [id |-> id, ids |-> ids, text |-> text, size |-> size, session |-> session,
     role |-> "user", date |-> date, value |-> identity = "tripod", identity |-> identity]
Lens == Row("ev_f1", {"f1", "ev_f1"}, "span", 2, "x", 3, "lens")
Tripod == Row("ev_f2", {"f2", "ev_f2"}, "span", 2, "x", 0, "tripod")
Other == Row("ev_f3", {"f3", "ev_f3"}, "other", 1, "x", 3, "lens")
Span(ids, size) == Row("ev_s", ids \cup {"ev_s"}, "span", size, "x", 0, Nothing)
Turn(ids, size) == Row("ev_t", ids \cup {"ev_t"}, "turn", size, "x", 0, Nothing)
InSession == Row("ev_x_t", {"ev_x_t"}, "turn", 2, "", 0, Nothing)
MCSearched == {<<Tripod, Lens>>, <<Span({}, 1), Lens, Tripod>>,
            <<Span({}, 1), Tripod, Turn({}, 1), Other>>, <<[Lens EXCEPT !.date = 1]>>}
MCLooked == {<<Span({"s"}, 2)>>, <<Turn({"t"}, 2)>>, <<InSession>>}
=============================================================================
