------------------------------ MODULE Billing ------------------------------
(***************************************************************************)
(* Invoices, payments, stock and the customers' khata (running balance),   *)
(* with every request taking effect at once.                               *)
(*                                                                         *)
(* The effect of a request on one existing invoice is an operator of the   *)
(* invoice row it READ (snap) and of the rows it WRITES (the variables):   *)
(* the code reads the row first, computes with what it read, and applies   *)
(* increments and assignments later in the same transaction.  Here both    *)
(* happen in one step; BillingConcurrent separates them.                   *)
(***************************************************************************)
EXTENDS Integers, Sequences, FiniteSetsExt

CONSTANTS
    Customers, Products,
    CreditLimit,    \* [Customers -> Nat]; 0 is "no limit"
    OpeningStock,   \* [Products -> Int]
    Baskets,        \* the item lists requests carry, as quantities by product
    Totals,         \* the grand totals that prices, discounts and GST can give
    Amounts,        \* the amounts of payments, credits and reversals
    Overrides,      \* the values of overrideCreditLimit that requests carry
    MaxInvoices,    \* bound: the invoices a behaviour may create
    MaxMoney,       \* bound: what a customer may have bought or paid
    MaxSurplus      \* bound: how far stock may rise above OpeningStock

ASSUME ConstantsAssumption ==
    /\ CreditLimit \in [Customers -> Nat]
    /\ OpeningStock \in [Products -> Int]
    /\ Baskets \subseteq [Products -> Nat]
    /\ Totals \subseteq Nat
    /\ Amounts \subseteq Nat \ {0}
    /\ Overrides \subseteq BOOLEAN
    /\ {MaxInvoices, MaxMoney, MaxSurplus} \subseteq Nat

VARIABLES
    invoices,        \* the invoice rows, oldest invoiceDate first
    stock,           \* product.stock
    balance,         \* customer.balance: what the customer owes
    totalPurchases,  \* customer.totalPurchases
    totalPayments,   \* customer.totalPayments
    received,        \* completed minus refunded payment rows, per customer
    reopened         \* history: invoices whose payment was reversed after they
                     \* were cancelled

vars == <<invoices, stock, balance, totalPurchases, totalPayments, received, reopened>>

Statuses == {"proforma", "pending", "partial", "paid", "cancelled"}
Invoice == [customer : Customers, items : [Products -> Nat],
            total : Nat, paid : Nat, status : Statuses]
Ids == 1 .. Len(invoices)

\* Every row has the shape the schema gives it; what an invoice shows as paid is
\* never negative.
TypeOK ==
    /\ invoices \in Seq(Invoice)
    /\ stock \in [Products -> Int]
    /\ balance \in [Customers -> Int]
    /\ totalPurchases \in [Customers -> Int]
    /\ totalPayments \in [Customers -> Int]
    /\ received \in [Customers -> Int]
    /\ reopened \subseteq Ids

Init ==
    /\ invoices = <<>>
    /\ stock = OpeningStock
    /\ balance = [c \in Customers |-> 0]
    /\ totalPurchases = [c \in Customers |-> 0]
    /\ totalPayments = [c \in Customers |-> 0]
    /\ received = [c \in Customers |-> 0]
    /\ reopened = {}

-----------------------------------------------------------------------------
(* Building blocks of the transactions. *)

Lesser(a, b) == IF a < b THEN a ELSE b

\* How much of an optional initial payment is booked, and the status it gives.
Booked(pay, total) == Lesser(pay, total)
SaleStatus(pay, total) ==
    IF pay = 0 THEN "pending" ELSE IF Booked(pay, total) >= total THEN "paid" ELSE "partial"

\* customer.update with increments (a negative argument is a decrement).
AddTo(f, c, n) == [f EXCEPT ![c] = @ + n]

\* product.update with increments, for every product of an item list.
Put(s, items) == [p \in Products |-> s[p] + items[p]]
Take(s, items) == [p \in Products |-> s[p] - items[p]]

\* An invoice that sells: rows, stock, balance and the optional payment row.
Sell(c, items, total, pay) ==
    /\ Len(invoices) < MaxInvoices
    /\ invoices' = Append(invoices,
          [customer |-> c, items |-> items, total |-> total,
           paid |-> Booked(pay, total), status |-> SaleStatus(pay, total)])
    /\ stock' = Take(stock, items)
    /\ balance' = AddTo(balance, c, total - Booked(pay, total))
    /\ totalPurchases' = AddTo(totalPurchases, c, total)
    /\ received' = AddTo(received, c, Booked(pay, total))
    /\ UNCHANGED <<totalPayments, reopened>>

\* Mutant: only a customer who is above the limit already is refused.
BelowLimit(c, total, readBalance) ==
    CreditLimit[c] > 0 => readBalance <= CreditLimit[c]

\* The check createInvoice makes on the balance it read.
WithinLimit(c, total, readBalance) ==
    CreditLimit[c] > 0 => readBalance + total <= CreditLimit[c]

-----------------------------------------------------------------------------
(* Settlement: one pass over the customer's unpaid invoices, oldest first.  *)
(* run[k] is "remaining" after the loop has passed invoice k.               *)

Due(v) == v.total - v.paid

\* Mutant: the query forgets the customer.
UnpaidOfAnyone(v, c) == v.status \in {"pending", "partial"} /\ Due(v) > 0

Unpaid(v, c) == v.customer = c /\ v.status \in {"pending", "partial"} /\ Due(v) > 0

\* Mutant: an invoice is settled only by an amount that clears it.
AppliedWhole(v, c, remaining) ==
    IF Unpaid(v, c) /\ Due(v) <= remaining THEN Due(v) ELSE 0

Applied(v, c, remaining) == IF Unpaid(v, c) THEN Lesser(Due(v), remaining) ELSE 0

Settled(v, a) ==
    IF a = 0 THEN v
    ELSE [v EXCEPT !.paid = @ + a,
                   !.status = IF a = Due(v) THEN "paid" ELSE "partial"]

IsSettlementRun(run, c, amount) ==
    /\ run[0] = amount
    /\ \A k \in Ids : run[k] = run[k - 1] - Applied(invoices[k], c, run[k - 1])

\* Mutant: the newest invoice is settled first.
SettleNewestFirst(c, amount) ==
    \E run \in [0 .. Len(invoices) -> 0 .. amount] :
        /\ run[Len(invoices)] = amount
        /\ \A k \in Ids : run[k - 1] = run[k] - Applied(invoices[k], c, run[k])
        /\ invoices' = [k \in Ids |-> Settled(invoices[k], run[k] - run[k - 1])]

Settle(c, amount) ==
    \E run \in [0 .. Len(invoices) -> 0 .. amount] :
        /\ IsSettlementRun(run, c, amount)
        /\ invoices' = [k \in Ids |-> Settled(invoices[k], run[k - 1] - run[k])]

-----------------------------------------------------------------------------
(* Effects on one existing invoice, given the row that was read. *)

\* Mutant: the initial payment of a converted proforma gets no payment row.
ConvertWithoutPaymentRow(i, snap, pay) ==
    /\ snap.status = "proforma"
    /\ invoices' = [invoices EXCEPT ![i].paid = Booked(pay, snap.total),
                                    ![i].status = SaleStatus(pay, snap.total)]
    /\ stock' = Take(stock, snap.items)
    /\ balance' = AddTo(balance, snap.customer, snap.total - Booked(pay, snap.total))
    /\ totalPurchases' = AddTo(totalPurchases, snap.customer, snap.total)
    /\ UNCHANGED <<totalPayments, received, reopened>>

ConvertEffect(i, snap, pay) ==
    /\ snap.status = "proforma"
    /\ invoices' = [invoices EXCEPT ![i].paid = Booked(pay, snap.total),
                                    ![i].status = SaleStatus(pay, snap.total)]
    /\ stock' = Take(stock, snap.items)
    /\ balance' = AddTo(balance, snap.customer, snap.total - Booked(pay, snap.total))
    /\ totalPurchases' = AddTo(totalPurchases, snap.customer, snap.total)
    /\ received' = AddTo(received, snap.customer, Booked(pay, snap.total))
    /\ UNCHANGED <<totalPayments, reopened>>

\* Mutants: partly paid invoices may be edited too; an edit takes the new items
\* without giving back the old ones.
UpdatePartial(i, snap, items, total) ==
    /\ snap.status \in {"pending", "partial"}
    /\ invoices' = [invoices EXCEPT ![i].items = items, ![i].total = total]
    /\ stock' = Take(Put(stock, snap.items), items)
    /\ balance' = AddTo(balance, snap.customer, total - snap.total)
    /\ totalPurchases' = AddTo(totalPurchases, snap.customer, total - snap.total)
    /\ UNCHANGED <<totalPayments, received, reopened>>

UpdateWithoutRestock(i, snap, items, total) ==
    /\ snap.status = "pending"
    /\ invoices' = [invoices EXCEPT ![i].items = items, ![i].total = total]
    /\ stock' = Take(stock, items)
    /\ balance' = AddTo(balance, snap.customer, total - snap.total)
    /\ totalPurchases' = AddTo(totalPurchases, snap.customer, total - snap.total)
    /\ UNCHANGED <<totalPayments, received, reopened>>

\* Restores what the read row had taken, then applies the new items and total;
\* status and paidAmount are not written.
UpdateEffect(i, snap, items, total) ==
    /\ snap.status = "pending"
    /\ invoices' = [invoices EXCEPT ![i].items = items, ![i].total = total]
    /\ stock' = Take(Put(stock, snap.items), items)
    /\ balance' = AddTo(balance, snap.customer, total - snap.total)
    /\ totalPurchases' = AddTo(totalPurchases, snap.customer, total - snap.total)
    /\ UNCHANGED <<totalPayments, received, reopened>>

\* Mutants: a cancelled proforma puts its items on the shelf; a cancellation
\* takes the whole total off the balance, not what is still owed.
CancelRestocksProforma(i, snap) ==
    /\ snap.status # "cancelled"
    /\ invoices' = [invoices EXCEPT ![i].status = "cancelled"]
    /\ stock' = Put(stock, snap.items)
    /\ IF snap.status = "proforma"
       THEN UNCHANGED <<balance, totalPurchases>>
       ELSE /\ balance' = AddTo(balance, snap.customer, snap.paid - snap.total)
            /\ totalPurchases' = AddTo(totalPurchases, snap.customer, - snap.total)
    /\ UNCHANGED <<totalPayments, received, reopened>>

CancelForgivesTotal(i, snap) ==
    /\ snap.status # "cancelled"
    /\ invoices' = [invoices EXCEPT ![i].status = "cancelled"]
    /\ IF snap.status = "proforma"
       THEN UNCHANGED <<stock, balance, totalPurchases>>
       ELSE /\ stock' = Put(stock, snap.items)
            /\ balance' = AddTo(balance, snap.customer, - snap.total)
            /\ totalPurchases' = AddTo(totalPurchases, snap.customer, - snap.total)
    /\ UNCHANGED <<totalPayments, received, reopened>>

\* A proforma has taken nothing; any other invoice gives back its stock and the
\* part of its total that is still owed.  Its payments stay.
CancelEffect(i, snap) ==
    /\ snap.status # "cancelled"
    /\ invoices' = [invoices EXCEPT ![i].status = "cancelled"]
    /\ IF snap.status = "proforma"
       THEN UNCHANGED <<stock, balance, totalPurchases>>
       ELSE /\ stock' = Put(stock, snap.items)
            /\ balance' = AddTo(balance, snap.customer, snap.paid - snap.total)
            /\ totalPurchases' = AddTo(totalPurchases, snap.customer, - snap.total)
    /\ UNCHANGED <<totalPayments, received, reopened>>

\* No check of the status: it is recomputed from what remains paid.
ReverseStatus(newPaid, total) ==
    IF newPaid <= 0 THEN "pending" ELSE IF newPaid >= total THEN "paid" ELSE "partial"

\* Mutant: more may be reversed than was paid.
ReverseUnchecked(i, snap, amount) ==
    /\ invoices' = [invoices EXCEPT
          ![i].paid = snap.paid - amount,
          ![i].status = ReverseStatus(snap.paid - amount, snap.total)]
    /\ balance' = AddTo(balance, snap.customer, amount)
    /\ totalPayments' = AddTo(totalPayments, snap.customer, - amount)
    /\ received' = AddTo(received, snap.customer, - amount)
    /\ reopened' = IF invoices[i].status = "cancelled" THEN reopened \cup {i} ELSE reopened
    /\ UNCHANGED <<stock, totalPurchases>>

ReverseEffect(i, snap, amount) ==
    /\ amount <= snap.paid
    /\ invoices' = [invoices EXCEPT
          ![i].paid = snap.paid - amount,
          ![i].status = ReverseStatus(snap.paid - amount, snap.total)]
    /\ balance' = AddTo(balance, snap.customer, amount)
    /\ totalPayments' = AddTo(totalPayments, snap.customer, - amount)
    /\ received' = AddTo(received, snap.customer, - amount)
    /\ reopened' = IF invoices[i].status = "cancelled" THEN reopened \cup {i} ELSE reopened
    /\ UNCHANGED <<stock, totalPurchases>>

-----------------------------------------------------------------------------
(* The operations. *)

\* POST /invoices: refused above the credit limit unless overridden.
CreateInvoice(c, items, total, pay, override) ==
    /\ override \/ WithinLimit(c, total, balance[c])
    /\ Sell(c, items, total, pay)

\* The voice engine's confirmed draft: no credit limit.
ConfirmInvoice(c, items, total, pay) == Sell(c, items, total, pay)

CreateProforma(c, items, total) ==
    /\ Len(invoices) < MaxInvoices
    /\ invoices' = Append(invoices, [customer |-> c, items |-> items, total |-> total,
                                     paid |-> 0, status |-> "proforma"])
    /\ UNCHANGED <<stock, balance, totalPurchases, totalPayments, received, reopened>>

ConvertProforma(i, pay) == ConvertEffect(i, invoices[i], pay)
UpdateInvoice(i, items, total) == UpdateEffect(i, invoices[i], items, total)
CancelInvoice(i) == CancelEffect(i, invoices[i])
ReversePayment(i, amount) == ReverseEffect(i, invoices[i], amount)

\* A payment lowers the balance by its whole amount; what settles no invoice
\* stays there as an advance.
Pay(c, amount) ==
    /\ balance' = AddTo(balance, c, - amount)
    /\ totalPayments' = AddTo(totalPayments, c, amount)
    /\ received' = AddTo(received, c, amount)
    /\ Settle(c, amount)
    /\ UNCHANGED <<stock, totalPurchases, reopened>>

RecordPayment(c, amount) == Pay(c, amount)

\* One payment row per split, one settlement for their sum.
RecordMixedPayment(c, first, second) == Pay(c, first + second)

AddCredit(c, amount) ==
    /\ balance' = AddTo(balance, c, amount)
    /\ totalPurchases' = AddTo(totalPurchases, c, amount)
    /\ UNCHANGED <<invoices, stock, totalPayments, received, reopened>>

WithinBounds ==
    /\ Len(invoices) <= MaxInvoices
    /\ \A c \in Customers : totalPurchases[c] <= MaxMoney /\ received[c] <= MaxMoney
    /\ \A p \in Products : stock[p] <= OpeningStock[p] + MaxSurplus

Sale ==
    \E c \in Customers, items \in Baskets, total \in Totals :
        \/ \E pay \in Amounts \cup {0}, override \in Overrides :
              CreateInvoice(c, items, total, pay, override)
        \/ \E pay \in Amounts \cup {0} : ConfirmInvoice(c, items, total, pay)
        \/ CreateProforma(c, items, total)

Change ==
    \E i \in Ids :
        \/ \E pay \in Amounts \cup {0} : ConvertProforma(i, pay)
        \/ \E items \in Baskets, total \in Totals : UpdateInvoice(i, items, total)
        \/ CancelInvoice(i)
        \/ \E amount \in Amounts : ReversePayment(i, amount)

Khata ==
    \E c \in Customers, amount \in Amounts :
        \/ RecordPayment(c, amount)
        \/ \E second \in Amounts : RecordMixedPayment(c, amount, second)
        \/ AddCredit(c, amount)

Next == (Sale \/ Change \/ Khata) /\ WithinBounds'

Spec == Init /\ [][Next]_vars

-----------------------------------------------------------------------------
(* What the books promise. *)

Live(v) == v.status \in {"pending", "partial", "paid"}
LiveIds == {i \in Ids : Live(invoices[i])}
Of(c) == {i \in Ids : invoices[i].customer = c}

\* The status says how much is paid: a reader of the status (the editor, the
\* settlement, the reports) never has to look at the amounts.
StatusFits(v) ==
    /\ v.paid <= v.total
    /\ v.status \in {"proforma", "pending"} => v.paid = 0
    /\ v.status = "partial" => 0 < v.paid /\ v.paid < v.total
    /\ v.status = "paid" => v.paid = v.total

PaidMatchesStatus == \A i \in Ids : StatusFits(invoices[i])

\* Both are needed to prove either: what a row may hold bounds what a payment
\* or a reversal may write.
BillingInv == TypeOK /\ PaidMatchesStatus

\* Stock on hand is the opening stock less what the live invoices carry, as
\* long as no invoice is reopened (its stock was given back and is sold again).
StockConserved ==
    reopened = {} => \A p \in Products :
        stock[p] = OpeningStock[p] - MapThenSumSet(LAMBDA i : invoices[i].items[p], LiveIds)

Outstanding(c) == MapThenSumSet(LAMBDA i : Due(invoices[i]), Of(c) \cap LiveIds)
Credit(c) == totalPurchases[c] - MapThenSumSet(LAMBDA i : invoices[i].total, Of(c) \cap LiveIds)
Advance(c) == received[c] - MapThenSumSet(LAMBDA i : invoices[i].paid, Of(c))

\* The khata: a customer owes what the live invoices lack, plus credit given
\* without an invoice, less money received that no invoice has absorbed.
KhataBalance ==
    \A c \in Customers :
        Of(c) \cap reopened = {} => balance[c] = Outstanding(c) + Credit(c) - Advance(c)

\* Invoices never show more as paid than the customer handed over, whatever is
\* cancelled, reversed or reopened in between.
PaidWasReceived == \A c \in Customers : Advance(c) >= 0

IsPayment(c) == received'[c] > received[c] /\ totalPayments'[c] > totalPayments[c]

\* "Oldest-first settlement": a payment touches an invoice only if it clears
\* every older unpaid invoice of the customer.
OldestFirst ==
    [][\A c \in Customers : IsPayment(c) =>
          \A j, k \in Ids :
              /\ j < k /\ Unpaid(invoices[j], c)
              /\ invoices'[k].customer = c /\ invoices'[k].paid > invoices[k].paid
              => invoices'[j].status = "paid"]_vars

\* A payment becomes an advance only when it leaves no invoice unpaid.
AdvanceOnlyWhenSettled ==
    [][\A c \in Customers :
          IsPayment(c) /\ Advance(c)' > Advance(c) =>
              \A i \in Ids : ~Unpaid(invoices'[i], c)]_vars

\* The invoice state machine of the product requirements: nothing leaves
\* "cancelled".
CancelledIsFinal ==
    [][\A i \in Ids : invoices[i].status = "cancelled" => invoices'[i] = invoices[i]]_vars
=============================================================================
