------------------------------ MODULE MCServer ------------------------------
(***************************************************************************)
(* An instance of Server for TLC: who sends what.  Every key has one       *)
(* writer of values, and every command overwrites what it changes; k3 has  *)
(* deadlines, from its writer and from the other client: one that is over  *)
(* at the next tick (EX 0), and one in the past.                           *)
(***************************************************************************)
EXTENDS Server

CONSTANTS k1, k2, k3, c1, c2

Owners(c, n) ==
  IF c = c1 THEN {SetValue(k1, n), SetFor(k3, n, 0), SetFor(k3, n, Invalid)}
  ELSE {AddMember(k2, n), Delete(k2), ExpireIn(k3, -1)}

(* What the theorems about Server ask of the requests is true here.        *)
ASSUME OwnersAreWriters == VersionsNumbered /\ OverwritesByOne /\ DeadlinesByOne

=============================================================================
