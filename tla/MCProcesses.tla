---------------------------- MODULE MCProcesses -----------------------------
(***************************************************************************)
(* Processes on small instances.                                           *)
(***************************************************************************)
EXTENDS Processes, TLC

CONSTANTS q1, q2, q3

(* Some or all of the questions; the run it is compared with answered two. *)
MCScopes == {Questions, {q1, q2}}
MCAnchor == q1 :> TRUE @@ q2 :> FALSE
=============================================================================
