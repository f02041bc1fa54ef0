------------------------------ MODULE MCPortal ------------------------------
(* Two ads that two dashboards may list, on two days. *)
EXTENDS Portal, TLC

CONSTANTS a1, a2

\* So that no two sets of rows have the same sum.
Figures == a1 :> 1 @@ a2 :> 10
=============================================================================
