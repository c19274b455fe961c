------------------------------ MODULE MCBilling ------------------------------
(* Small instances of Billing for TLC. *)
EXTENDS Billing

\* No customer has a credit limit.
NoLimit == [c \in Customers |-> 0]

\* Every customer has a limit, of one piece.
LimitOfTwo == [c \in Customers |-> 2]

\* Shelves hold little, so that sales can oversell them.
FewOnShelf == [p \in Products |-> 1]

\* One or two pieces of a single product.
OneOrTwo == {[p \in Products |-> n] : n \in {1, 2}}

\* One piece of one product, or one of each.
OneOfSome == {b \in [Products -> {0, 1}] : \E p \in Products : b[p] = 1}
=============================================================================
