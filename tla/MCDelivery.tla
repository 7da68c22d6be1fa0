----------------------------- MODULE MCDelivery -----------------------------
(* Delivery for TLC: fragments are interchangeable. *)
EXTENDS Delivery, TLC

FragmentSymmetry == Permutations(Fragments)
=============================================================================
