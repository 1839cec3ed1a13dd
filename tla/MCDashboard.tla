---------------------------- MODULE MCDashboard ----------------------------
(***************************************************************************)
(* An instance of Dashboard for TLC.                                       *)
(***************************************************************************)
EXTENDS Dashboard

CONSTANTS k1, k2, w

OneMockRow == <<[id |-> 1, key |-> k1, value |-> <<w>>]>>

=============================================================================
