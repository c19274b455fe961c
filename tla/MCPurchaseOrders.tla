-------------------------- MODULE MCPurchaseOrders --------------------------
(* Small instances of PurchaseOrders for TLC. *)
EXTENDS PurchaseOrders, Functions, TLC

OrdersUpTo(n) ==
    {q \in [Lines -> 0 .. n] : FoldFunction(+, 0, q) \in 1 .. n}

OneUnit == OrdersUpTo(1)
TwoUnits == OrdersUpTo(2)
ThreeUnits == OrdersUpTo(3)

\* Requests are interchangeable, and so are the lines of an order.
DeskSymmetry == Permutations(Requests) \cup Permutations(Lines)
=============================================================================
