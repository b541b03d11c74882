------------------------- MODULE MCAutoFulfillment -------------------------
(* Instances of AutoFulfillment for TLC. *)
EXTENDS AutoFulfillment, TLC

Symmetry == Permutations(Orders) \cup Permutations(Workers)
=============================================================================
