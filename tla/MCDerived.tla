------------------------------ MODULE MCDerived ------------------------------
(***************************************************************************)
(* Derived on small instances: two facts about ada and one about both      *)
(* entities; three ingestions into one session; the days of 2022, which    *)
(* has the day of Laba twice, 2023, which has a lunar leap month, and      *)
(* 2024, a leap year, those around the 29th of February 2000, and those    *)
(* around every new year at which the tables of the Chinese calendar know  *)
(* two years before and after.                                             *)
(***************************************************************************)
EXTENDS Derived, MCMaintainer, TLC

CONSTANTS f1, f2, f3, ada, bob

MCFacts == {f1, f2, f3}
MCEntities == {ada, bob}
MCAbout == f1 :> {ada} @@ f2 :> {ada} @@ f3 :> {ada, bob}
MCTime == f1 :> 1 @@ f2 :> 2 @@ f3 :> 1
MCByAssistant == {f2}
MCYear(y) == 365 * (y - 1) + ((y - 1) \div 4) - ((y - 1) \div 100) + ((y - 1) \div 400) + 1
MCAnchors ==
    (MCYear(2022)..(MCYear(2025) - 1))
        \cup ((MCYear(2000) + 51)..(MCYear(2000) + 71))
        \cup UNION {{MCYear(y) - 1, MCYear(y)} : y \in 1903..2098}
MCSymmetry == Permutations(Dreamers) \cup Permutations(Writers)
=============================================================================
