--------------------------- MODULE MCCartCheckout ---------------------------
(* Instances of CartCheckout with two lines and two connections.            *)
EXTENDS CartCheckout, TLC

MCSymmetry == Permutations(Workers) \cup Permutations(Variants)
=============================================================================
