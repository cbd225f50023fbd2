--------------------------- MODULE MCStaleRating ---------------------------
(* An instance of ProductReviews with one line of an order, whose review is *)
(* written while an administrator updates the product.                     *)
EXTENDS ProductReviews, TLC

MCSymmetry == Permutations(Workers)
=============================================================================
