------------------------------ MODULE MCBroker ------------------------------
(***************************************************************************)
(* Instances of Broker for TLC.                                            *)
(***************************************************************************)
EXTENDS Broker, TLC

CONSTANTS c1, c2, s1, s2

(* Go channels are alike; so which one make returns does not matter.       *)
SubSymmetry == Permutations({s1, s2})

=============================================================================
