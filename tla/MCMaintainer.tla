---------------------------- MODULE MCMaintainer ----------------------------
(***************************************************************************)
(* Small instances of Maintainer: pools of assertions, each with what its  *)
(* cases need.                                                             *)
(***************************************************************************)
EXTENDS Maintainer, FiniteSetsExt

MCSpanTime == [s \in {"u1", "u2", "u3", "u5", "a3"} |->
                 CASE s = "u1" -> 1 [] s \in {"u2", "u3"} -> 3 [] s = "a3" -> 5 [] s = "u5" -> 9]
MCSpanRole == [s \in DOMAIN MCSpanTime |-> IF s = "a3" THEN "assistant" ELSE "user"]

(* A home that the user has since a day.                                   *)
Home(from, sig, spans) ==
    [kind |-> "state", correction |-> FALSE, cue |-> FALSE, predicate |-> "lives_in",
     type |-> "residence", roles |-> {<<"location", "oslo">>}, unit |-> "", value |-> 0,
     range |-> {}, occurred |-> 0, from |-> from, until |-> 0,
     said |-> Max({MCSpanTime[s] : s \in spans}), sig |-> sig, spans |-> spans]

(* Homes of several days and authors, two of the same key, and one whose   *)
(* beginning is when it was said.                                          *)
Homes ==
    {Home(0, 1, {"u1"}), Home(7, 2, {"u2"}), Home(7, 2, {"u3"}), Home(3, 3, {"a3"}),
     Home(9, 4, {"a3"}), Home(5, 5, {"a3", "u5"})}

(* Kinds, units, roles and ranges that are compared, or not.               *)
Mixed ==
    {[Home(3, 1, {"u1"}) EXCEPT !.kind = "fact"],
     Home(5, 2, {"u1"}),
     [Home(1, 3, {"u2"}) EXCEPT !.correction = TRUE],
     [Home(3, 4, {"u2"}) EXCEPT !.kind = "preference", !.cue = TRUE, !.until = 4],
     [Home(5, 5, {"u2"}) EXCEPT !.kind = "fact", !.unit = "km", !.value = 3],
     [Home(7, 6, {"u5"}) EXCEPT !.unit = "km", !.range = 2..4, !.roles = {}]}

(* An event told twice, the second time as an update, and later ones.      *)
Trip(cue, occurred, sig, value, spans) ==
    [Home(0, sig, spans) EXCEPT !.kind = "event", !.predicate = "ran", !.type = "sport",
                                !.cue = cue, !.occurred = occurred, !.value = value]
Trips ==
    {Trip(FALSE, 4, 1, 3, {"u1"}), Trip(TRUE, 4, 2, 0, {"u1"}), Trip(TRUE, 2, 3, 2, {"u2"}),
     Trip(TRUE, 5, 4, 1, {"u1", "u2"}), Trip(FALSE, 2, 5, 3, {"a3"})}

MCPools == {Homes, Mixed, Trips}
MCHomes == {Homes}
=============================================================================
