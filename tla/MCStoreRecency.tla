--------------------------- MODULE MCStoreRecency ---------------------------
(***************************************************************************)
(* Instances of StoreRecency for TLC.                                      *)
(***************************************************************************)
EXTENDS StoreRecency

KeySymmetry == Permutations(Key)

NegativeAndPositive == {-1, 1}

=============================================================================
