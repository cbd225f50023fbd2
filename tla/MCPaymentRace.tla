--------------------------- MODULE MCPaymentRace ---------------------------
(* Instances of PaymentRace with one order: customers, administrators, the  *)
(* expiry job and deliveries of SePay act at the same time, on two or three *)
(* connections.                                                             *)
EXTENDS PaymentRace, TLC

MCLines == {"l1"}
MCQuantity == [o \in Orders |-> [l \in MCLines |-> 1]]
MCPrice == [l \in MCLines |-> 2]
MCShippingFee == [o \in Orders |-> 0]
MCTotal == [o \in Orders |-> 2]
MCSymmetry == Permutations(Workers)
=============================================================================
