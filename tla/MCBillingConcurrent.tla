------------------------- MODULE MCBillingConcurrent -------------------------
(* Small instances of BillingConcurrent for TLC. *)
EXTENDS BillingConcurrent, TLC

LimitOfOne == [c \in Customers |-> 1]
NoLimit == [c \in Customers |-> 0]
FewOnShelf == [p \in Products |-> 1]
One == {[p \in Products |-> 1]}

\* Requests are interchangeable, and so are customers with equal limits.
ClientSymmetry == Permutations(Requests) \cup Permutations(Customers)
=============================================================================
