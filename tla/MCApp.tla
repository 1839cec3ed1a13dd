------------------------------- MODULE MCApp -------------------------------
(***************************************************************************)
(* An instance of App for TLC.                                             *)
(***************************************************************************)
EXTENDS App

CONSTANT c1

=============================================================================
