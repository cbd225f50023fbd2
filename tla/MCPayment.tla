----------------------------- MODULE MCPayment -----------------------------
(* Instances of OrderLifecycle that concentrate on payments, without        *)
(* returns: two orders whose customers, bank and administrators race for    *)
(* the same transfer (MCTwoOrders.cfg), and one order with several sessions *)
(* and transfers (MCPayment.cfg).                                           *)
EXTENDS ShopViews, TLC

MCLines == {"l1"}
MCQuantity == [o \in Orders |-> [l \in MCLines |-> 1]]
MCPrice == [l \in MCLines |-> 2]
MCShippingFee == [o \in Orders |-> 0]
MCTotal == [o \in Orders |-> 2]
MCSymmetry == Permutations(Orders) \cup Permutations(Refs) \cup Permutations(Accounts)
=============================================================================
