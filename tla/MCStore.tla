------------------------------ MODULE MCStore ------------------------------
(***************************************************************************)
(* Instances of Store for TLC.                                             *)
(***************************************************************************)
EXTENDS Store

NegativeAndPositive == {-1, 1}

=============================================================================
