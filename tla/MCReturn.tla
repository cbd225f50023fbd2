------------------------------ MODULE MCReturn ------------------------------
(* An instance of OrderLifecycle that concentrates on refunds and returns:  *)
(* one order of a cheap piece, a dear one and a shipping fee, for which the *)
(* bank received what was asked or, as an administrator accepted, less, so  *)
(* that the refunds of single pieces have to be rounded, up and down.       *)
EXTENDS OrderLifecycle, TLC

MCLines == {"cheap", "dear"}
MCQuantity == [o \in Orders |-> [l \in MCLines |-> 1]]
MCPrice == [cheap |-> 1, dear |-> 3]
MCShippingFee == [o \in Orders |-> 1]
MCTotal == [o \in Orders |-> 5]
MCSymmetry == Permutations(BankRefs)
=============================================================================
