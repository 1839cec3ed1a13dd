------------------------------ MODULE MCRivals ------------------------------
(***************************************************************************)
(* Instances of Server for TLC with clients that do not keep to what the   *)
(* theorems about Server ask of them: what the log then says of the store. *)
(***************************************************************************)
EXTENDS Server

CONSTANTS k1, c1, c2

(* Two clients SET the same key.                                           *)
TwoWriters(c, n) == {SetValue(k1, IF c = c1 THEN 1 ELSE 2)}

(* One pushes to a list.                                                   *)
Pusher(c, n) == IF c = c1 THEN {Push(k1, n)} ELSE {}

(* One sends SET with an EX that is not a number.                          *)
BadEx(c, n) == IF c = c1 THEN {SetValue(k1, 1), SetFor(k1, 2, Invalid)} ELSE {}

=============================================================================
