---------------------------- MODULE BillingProofs ----------------------------
(***************************************************************************)
(* Proofs about Billing for any customers, products, prices, limits and    *)
(* bounds: the state stays well typed, and the status of every invoice     *)
(* says exactly how much of it is paid, whatever is created, converted,    *)
(* edited, settled, reversed or cancelled, in any order.                   *)
(*                                                                         *)
(* And about BillingConcurrent, for any number of requests.  With no care  *)
(* taken at all, types hold (OverlapInv), and commits that find the row as *)
(* it was read implement Billing.  They do where clients keep requests     *)
(* apart that write one invoice: what a request has read of it stands      *)
(* until it writes it (ApartInv).  Sales, payments and credit hold no row  *)
(* they read: alone they need no lock.                                     *)
(***************************************************************************)
EXTENDS BillingConcurrent, SequenceTheorems, TLAPS

\* A counter of a customer stays an integer under an increment.
LEMMA AddToType ==
    ASSUME NEW f \in [Customers -> Int], NEW c \in Customers, NEW n \in Int
    PROVE  AddTo(f, c, n) \in [Customers -> Int]
BY DEF AddTo

\* So does the stock of the products.
LEMMA StockType ==
    ASSUME NEW s \in [Products -> Int], NEW items \in [Products -> Nat]
    PROVE  Put(s, items) \in [Products -> Int] /\ Take(s, items) \in [Products -> Int]
BY DEF Put, Take

\* An increment leaves the other customers alone.
LEMMA AddToTouches ==
    ASSUME NEW f \in [Customers -> Int], NEW c \in Customers, NEW n, NEW x \in Customers, x # c
    PROVE  AddTo(f, c, n)[x] = f[x]
BY DEF AddTo

\* Writing the fields of a row, in the combinations the operations use.
LEMMA WithPaidAndStatus ==
    ASSUME NEW v \in Invoice, NEW n \in Nat, NEW st \in {"pending", "partial", "paid"},
           NEW row, row = [v EXCEPT !.paid = n, !.status = st],
           n <= v.total,
           st = "pending" => n = 0,
           st = "partial" => 0 < n /\ n < v.total,
           st = "paid" => n = v.total
    PROVE  row \in Invoice /\ StatusFits(row)
<1>1. row \in Invoice /\ row.total = v.total /\ row.paid = n /\ row.status = st
    BY DEF Invoice, Statuses
<1> QED
    BY <1>1 DEF StatusFits

LEMMA WithItemsAndTotal ==
    ASSUME NEW v \in Invoice, NEW items \in [Products -> Nat], NEW total \in Nat,
           NEW row, row = [v EXCEPT !.items = items, !.total = total],
           v.status = "pending", v.paid = 0
    PROVE  row \in Invoice /\ StatusFits(row)
<1>1. row \in Invoice /\ row.total = total /\ row.paid = v.paid /\ row.status = v.status
    BY DEF Invoice
<1> QED
    BY <1>1 DEF StatusFits

\* An initial payment never books more than the total, and gives a fitting status.
LEMMA BookedFits ==
    ASSUME NEW pay \in Nat, NEW total \in Nat
    PROVE  /\ Booked(pay, total) \in Nat
           /\ Booked(pay, total) <= total
           /\ SaleStatus(pay, total) \in {"pending", "partial", "paid"}
           /\ SaleStatus(pay, total) = "pending" => Booked(pay, total) = 0
           /\ SaleStatus(pay, total) = "partial" => 0 < Booked(pay, total) /\ Booked(pay, total) < total
           /\ SaleStatus(pay, total) = "paid" => Booked(pay, total) = total
BY DEF Booked, SaleStatus, Lesser

\* Rewriting one row with a row that fits keeps all rows fitting.
LEMMA RewriteRow ==
    ASSUME BillingInv, NEW i \in Ids, NEW row \in Invoice, StatusFits(row),
           invoices' = [invoices EXCEPT ![i] = row]
    PROVE  /\ invoices' \in Seq(Invoice)
           /\ Ids' = Ids
           /\ PaidMatchesStatus'
<1>1. invoices \in Seq(Invoice) /\ i \in 1 .. Len(invoices)
    BY DEF BillingInv, TypeOK, Ids
<1>2. /\ invoices' \in Seq(Invoice)
      /\ Len(invoices') = Len(invoices)
      /\ \A j \in 1 .. Len(invoices) : invoices'[j] = IF j = i THEN row ELSE invoices[j]
    BY <1>1, ExceptSeq
<1>3. PaidMatchesStatus'
    BY <1>2 DEF BillingInv, PaidMatchesStatus, StatusFits, Ids
<1> QED
    BY <1>2, <1>3 DEF Ids

\* Appending a row that fits keeps all rows fitting.
LEMMA AppendRow ==
    ASSUME BillingInv, NEW row \in Invoice, StatusFits(row), invoices' = Append(invoices, row)
    PROVE  /\ invoices' \in Seq(Invoice)
           /\ Ids \subseteq Ids'
           /\ PaidMatchesStatus'
<1>1. invoices \in Seq(Invoice)
    BY DEF BillingInv, TypeOK
<1>2. /\ invoices' \in Seq(Invoice)
      /\ Len(invoices') = Len(invoices) + 1
      /\ \A j \in 1 .. Len(invoices) : invoices'[j] = invoices[j]
      /\ invoices'[Len(invoices) + 1] = row
    BY <1>1, AppendProperties
<1>3. Len(invoices) \in Nat
    BY <1>1, LenProperties
<1>4. PaidMatchesStatus'
    <2> SUFFICES ASSUME NEW j \in Ids' PROVE StatusFits(invoices'[j])
        BY DEF PaidMatchesStatus, StatusFits
    <2>1. CASE j = Len(invoices) + 1
        BY <1>2, <2>1
    <2>2. CASE j \in Ids
        BY <1>2, <2>2 DEF BillingInv, PaidMatchesStatus, Ids
    <2> QED
        BY <1>2, <1>3, <2>1, <2>2 DEF Ids
<1> QED
    BY <1>2, <1>3, <1>4 DEF Ids

\* A row is a record of the invoices' type.
LEMMA RowType ==
    ASSUME BillingInv, NEW i \in Ids
    PROVE  invoices[i] \in Invoice /\ StatusFits(invoices[i])
BY ElementOfSeq DEF BillingInv, TypeOK, PaidMatchesStatus, Ids

-----------------------------------------------------------------------------

\* Selling: the new row fits.
LEMMA SellInv ==
    ASSUME BillingInv, NEW c \in Customers, NEW items \in Baskets, NEW total \in Totals,
           NEW pay \in Amounts \cup {0}, Sell(c, items, total, pay)
    PROVE  BillingInv'
<1>1. items \in [Products -> Nat] /\ total \in Nat /\ pay \in Nat
    BY ConstantsAssumption
<1> DEFINE row == [customer |-> c, items |-> items, total |-> total,
                   paid |-> Booked(pay, total), status |-> SaleStatus(pay, total)]
<1>2. row \in Invoice /\ StatusFits(row)
    BY <1>1, BookedFits DEF Invoice, Statuses, StatusFits
<1>3. invoices' = Append(invoices, row)
    BY DEF Sell
<1> HIDE DEF row
<1>4. invoices' \in Seq(Invoice) /\ Ids \subseteq Ids' /\ PaidMatchesStatus'
    BY <1>2, <1>3, AppendRow
<1>5. Booked(pay, total) \in Nat
    BY <1>1, BookedFits
<1>6. total - Booked(pay, total) \in Int
    BY <1>1, <1>5
<1>7. stock' \in [Products -> Int]
    BY <1>1, StockType DEF Sell, BillingInv, TypeOK
<1>8. balance' \in [Customers -> Int]
    BY <1>6, AddToType DEF Sell, BillingInv, TypeOK
<1>9. totalPurchases' \in [Customers -> Int] /\ received' \in [Customers -> Int]
    <2>1. total \in Int /\ Booked(pay, total) \in Int
        BY <1>1, <1>5
    <2>2. totalPurchases' \in [Customers -> Int]
        BY <2>1, AddToType DEF Sell, BillingInv, TypeOK
    <2>3. received' \in [Customers -> Int]
        BY <2>1, AddToType DEF Sell, BillingInv, TypeOK
    <2> QED
        BY <2>2, <2>3
<1>10. TypeOK'
    BY <1>4, <1>7, <1>8, <1>9 DEF Sell, BillingInv, TypeOK
<1> QED
    BY <1>4, <1>10 DEF BillingInv

\* Proposing: a proforma fits, nothing else changes.
LEMMA ProformaInv ==
    ASSUME BillingInv, NEW c \in Customers, NEW items \in Baskets, NEW total \in Totals,
           CreateProforma(c, items, total)
    PROVE  BillingInv'
<1>1. items \in [Products -> Nat] /\ total \in Nat
    BY ConstantsAssumption
<1> DEFINE row == [customer |-> c, items |-> items, total |-> total,
                   paid |-> 0, status |-> "proforma"]
<1>2. row \in Invoice /\ StatusFits(row)
    BY <1>1 DEF Invoice, Statuses, StatusFits
<1>3. invoices' = Append(invoices, row)
    BY DEF CreateProforma
<1> HIDE DEF row
<1>4. invoices' \in Seq(Invoice) /\ Ids \subseteq Ids' /\ PaidMatchesStatus'
    BY <1>2, <1>3, AppendRow
<1>5. TypeOK'
    BY <1>4 DEF CreateProforma, BillingInv, TypeOK
<1> QED
    BY <1>4, <1>5 DEF BillingInv

\* Converting: a proforma has nothing paid, so the booked payment is all.
LEMMA ConvertInv ==
    ASSUME BillingInv, NEW i \in Ids, NEW pay \in Amounts \cup {0}, ConvertProforma(i, pay)
    PROVE  BillingInv'
<1> DEFINE snap == invoices[i]
           paid == Booked(pay, snap.total)
           st == SaleStatus(pay, snap.total)
<1> PICK row : row = [snap EXCEPT !.paid = paid, !.status = st]
    OBVIOUS
<1>1. snap \in Invoice /\ pay \in Nat
    BY RowType, ConstantsAssumption
<1>2. snap.total \in Nat /\ snap.customer \in Customers /\ snap.items \in [Products -> Nat]
    BY <1>1 DEF Invoice
<1>3. row \in Invoice /\ StatusFits(row)
    <2>1. /\ paid \in Nat /\ paid <= snap.total
          /\ st \in {"pending", "partial", "paid"}
          /\ st = "pending" => paid = 0
          /\ st = "partial" => 0 < paid /\ paid < snap.total
          /\ st = "paid" => paid = snap.total
        BY <1>1, <1>2, BookedFits
    <2> HIDE DEF snap, paid, st
    <2> QED
        BY <1>1, <2>1, WithPaidAndStatus
<1>4. invoices' = [invoices EXCEPT ![i] = row]
    BY DEF ConvertProforma, ConvertEffect
<1>5. invoices' \in Seq(Invoice) /\ Ids' = Ids /\ PaidMatchesStatus'
    BY <1>3, <1>4, RewriteRow
<1>6. Booked(pay, snap.total) \in Nat
    BY <1>1, <1>2, BookedFits
<1>7. snap.total - Booked(pay, snap.total) \in Int
    BY <1>2, <1>6
<1>8. stock' \in [Products -> Int]
    BY <1>2, StockType DEF ConvertProforma, ConvertEffect, BillingInv, TypeOK
<1>9. balance' \in [Customers -> Int]
    BY <1>2, <1>7, AddToType DEF ConvertProforma, ConvertEffect, BillingInv, TypeOK
<1>10. totalPurchases' \in [Customers -> Int] /\ received' \in [Customers -> Int]
    <2>1. snap.total \in Int /\ paid \in Int
        BY <1>2, <1>6
    <2>2. totalPurchases' \in [Customers -> Int]
        BY <1>2, <2>1, AddToType DEF ConvertProforma, ConvertEffect, BillingInv, TypeOK
    <2>3. received' \in [Customers -> Int]
        BY <1>2, <2>1, AddToType DEF ConvertProforma, ConvertEffect, BillingInv, TypeOK
    <2> QED
        BY <2>2, <2>3
<1>11. TypeOK'
    BY <1>5, <1>8, <1>9, <1>10 DEF ConvertProforma, ConvertEffect, BillingInv, TypeOK
<1> QED
    BY <1>5, <1>11 DEF BillingInv

\* Editing: a pending invoice has nothing paid, so any new total fits.
LEMMA UpdateInv ==
    ASSUME BillingInv, NEW i \in Ids, NEW items \in Baskets, NEW total \in Totals,
           UpdateInvoice(i, items, total)
    PROVE  BillingInv'
<1> DEFINE snap == invoices[i]
<1> PICK row : row = [snap EXCEPT !.items = items, !.total = total]
    OBVIOUS
<1>1. snap \in Invoice /\ StatusFits(snap) /\ snap.status = "pending"
    BY RowType DEF UpdateInvoice, UpdateEffect
<1>2. items \in [Products -> Nat] /\ total \in Nat
    BY ConstantsAssumption
<1>3. snap.total \in Nat /\ snap.customer \in Customers /\ snap.items \in [Products -> Nat]
    BY <1>1 DEF Invoice
<1>4. row \in Invoice /\ StatusFits(row)
    <2>1. snap.paid = 0
        BY <1>1 DEF StatusFits
    <2> HIDE DEF snap
    <2> QED
        BY <1>1, <1>2, <2>1, WithItemsAndTotal
<1>5. invoices' = [invoices EXCEPT ![i] = row]
    BY DEF UpdateInvoice, UpdateEffect
<1>6. invoices' \in Seq(Invoice) /\ Ids' = Ids /\ PaidMatchesStatus'
    BY <1>4, <1>5, RewriteRow
<1>7. stock' \in [Products -> Int]
    BY <1>2, <1>3, StockType DEF UpdateInvoice, UpdateEffect, BillingInv, TypeOK
<1>8. total - snap.total \in Int
    BY <1>2, <1>3
<1>9. balance' \in [Customers -> Int] /\ totalPurchases' \in [Customers -> Int]
    BY <1>3, <1>8, AddToType DEF UpdateInvoice, UpdateEffect, BillingInv, TypeOK
<1>10. TypeOK'
    BY <1>6, <1>7, <1>9 DEF UpdateInvoice, UpdateEffect, BillingInv, TypeOK
<1> QED
    BY <1>6, <1>10 DEF BillingInv

\* Cancelling: the paid amount stays within the total.
LEMMA CancelInv ==
    ASSUME BillingInv, NEW i \in Ids, CancelInvoice(i)
    PROVE  BillingInv'
<1> DEFINE snap == invoices[i]
           row == [snap EXCEPT !.status = "cancelled"]
<1>1. snap \in Invoice /\ StatusFits(snap)
    BY RowType
<1>2. /\ snap.total \in Nat /\ snap.paid \in Nat
      /\ snap.customer \in Customers /\ snap.items \in [Products -> Nat]
    BY <1>1 DEF Invoice
<1>3. row \in Invoice /\ StatusFits(row)
    BY <1>1 DEF Invoice, Statuses, StatusFits
<1>4. invoices' = [invoices EXCEPT ![i] = row]
    BY DEF CancelInvoice, CancelEffect
<1> HIDE DEF row
<1>5. invoices' \in Seq(Invoice) /\ Ids' = Ids /\ PaidMatchesStatus'
    BY <1>3, <1>4, RewriteRow
<1>6. snap.paid - snap.total \in Int /\ - snap.total \in Int
    BY <1>2
<1>7. /\ stock' \in [Products -> Int]
      /\ balance' \in [Customers -> Int]
      /\ totalPurchases' \in [Customers -> Int]
    <2>1. CASE snap.status = "proforma"
        BY <2>1 DEF CancelInvoice, CancelEffect, BillingInv, TypeOK
    <2>2. CASE snap.status # "proforma"
        <3>1. stock' \in [Products -> Int]
            BY <1>2, <2>2, StockType DEF CancelInvoice, CancelEffect, BillingInv, TypeOK
        <3> DEFINE owed == snap.paid - snap.total
                   total == - snap.total
        <3>2. /\ balance' = AddTo(balance, snap.customer, owed)
              /\ totalPurchases' = AddTo(totalPurchases, snap.customer, total)
            BY <2>2 DEF CancelInvoice, CancelEffect
        <3>3. /\ balance \in [Customers -> Int] /\ totalPurchases \in [Customers -> Int]
              /\ snap.customer \in Customers /\ owed \in Int /\ total \in Int
            BY <1>2, <1>6 DEF BillingInv, TypeOK
        <3> HIDE DEF owed, total, snap
        <3>4. balance' \in [Customers -> Int]
            BY <3>2, <3>3, AddToType
        <3>5. totalPurchases' \in [Customers -> Int]
            BY <3>2, <3>3, AddToType
        <3> QED
            BY <3>1, <3>4, <3>5
    <2> QED
        BY <2>1, <2>2
<1>8. TypeOK'
    BY <1>5, <1>7 DEF CancelInvoice, CancelEffect, BillingInv, TypeOK
<1> QED
    BY <1>5, <1>8 DEF BillingInv

\* Reversing: what remains paid is below the total, and the status follows it.
LEMMA ReverseInv ==
    ASSUME BillingInv, NEW i \in Ids, NEW amount \in Amounts, ReversePayment(i, amount)
    PROVE  BillingInv'
<1> DEFINE snap == invoices[i]
           newPaid == snap.paid - amount
           st == ReverseStatus(newPaid, snap.total)
<1> PICK row : row = [snap EXCEPT !.paid = newPaid, !.status = st]
    OBVIOUS
<1>1. snap \in Invoice /\ StatusFits(snap)
    BY RowType
<1>2. /\ snap.total \in Nat /\ snap.paid \in Nat /\ snap.paid <= snap.total
      /\ snap.customer \in Customers
    BY <1>1 DEF Invoice, StatusFits
<1>3. amount \in Nat /\ amount > 0 /\ amount <= snap.paid
    BY ConstantsAssumption DEF ReversePayment, ReverseEffect
<1>4. newPaid \in Nat /\ newPaid < snap.total
    BY <1>2, <1>3
<1>5. /\ st \in {"pending", "partial"}
      /\ st = "pending" => newPaid = 0
      /\ st = "partial" => 0 < newPaid
    BY <1>2, <1>4 DEF ReverseStatus
<1>6. row \in Invoice /\ StatusFits(row)
    <2>1. newPaid <= snap.total
        BY <1>2, <1>4
    <2> HIDE DEF snap, newPaid, st
    <2> QED
        BY <1>1, <1>4, <1>5, <2>1, WithPaidAndStatus
<1>7. invoices' = [invoices EXCEPT ![i] = row]
    BY DEF ReversePayment, ReverseEffect
<1>8. invoices' \in Seq(Invoice) /\ Ids' = Ids /\ PaidMatchesStatus'
    BY <1>6, <1>7, RewriteRow
<1>9. amount \in Int /\ - amount \in Int
    BY <1>3
<1>10. TypeOK'
    BY <1>2, <1>8, <1>9, AddToType DEF ReversePayment, ReverseEffect, BillingInv, TypeOK
<1> QED
    BY <1>8, <1>10 DEF BillingInv

-----------------------------------------------------------------------------

\* What the settlement loop does to one row keeps it fitting.
LEMMA SettledFits ==
    ASSUME NEW v \in Invoice, StatusFits(v), NEW c, NEW remaining \in Nat
    PROVE  /\ Applied(v, c, remaining) \in Nat
           /\ Settled(v, Applied(v, c, remaining)) \in Invoice
           /\ StatusFits(Settled(v, Applied(v, c, remaining)))
<1> DEFINE a == Applied(v, c, remaining)
<1>1. v.total \in Nat /\ v.paid \in Nat
    BY DEF Invoice
<1>2. CASE a = 0
    BY <1>2 DEF Settled
<1>3. CASE a # 0
    <2>1. Unpaid(v, c) /\ a = Lesser(Due(v), remaining)
        BY <1>3 DEF Applied
    <2>2. a \in Nat /\ 0 < a /\ a <= v.total - v.paid
        BY <1>1, <1>3, <2>1 DEF Lesser, Due, Unpaid
    <2> DEFINE paid == v.paid + a
               st == IF a = Due(v) THEN "paid" ELSE "partial"
    <2> PICK row : row = [v EXCEPT !.paid = paid, !.status = st]
        OBVIOUS
    <2>3. Settled(v, a) = row
        BY <1>3 DEF Settled
    <2>4. /\ paid \in Nat /\ paid <= v.total /\ 0 < paid
          /\ st = "partial" => paid < v.total
          /\ st = "paid" => paid = v.total
        <3> HIDE DEF a
        <3> QED
            BY <1>1, <2>2 DEF Due
    <2>5. st \in {"partial", "paid"}
        OBVIOUS
    <2>6. row \in Invoice /\ StatusFits(row)
        <3> HIDE DEF paid, st
        <3> QED
            BY <2>4, <2>5, WithPaidAndStatus
    <2> QED
        BY <2>2, <2>3, <2>6
<1> QED
    BY <1>2, <1>3

\* A payment keeps every row fitting, however it spreads over them.
LEMMA PayInv ==
    ASSUME BillingInv, NEW c \in Customers, NEW amount \in Nat, Pay(c, amount)
    PROVE  BillingInv'
<1>1. PICK run \in [0 .. Len(invoices) -> 0 .. amount] :
          /\ IsSettlementRun(run, c, amount)
          /\ invoices' = [k \in Ids |-> Settled(invoices[k], run[k - 1] - run[k])]
    BY DEF Pay, Settle
<1>2. Len(invoices) \in Nat
    BY LenProperties DEF BillingInv, TypeOK
<1>3. ASSUME NEW k \in Ids
      PROVE  invoices'[k] \in Invoice /\ StatusFits(invoices'[k])
    <2>1. k \in 1 .. Len(invoices) /\ k \in 0 .. Len(invoices) /\ k - 1 \in 0 .. Len(invoices)
        BY <1>2, <1>3 DEF Ids
    <2>2. run[k] \in Nat /\ run[k - 1] \in Nat
        BY <2>1
    <2>3. invoices[k] \in Invoice /\ StatusFits(invoices[k])
        BY <1>3, RowType
    <2>4. run[k - 1] - run[k] = Applied(invoices[k], c, run[k - 1])
        <3>1. Applied(invoices[k], c, run[k - 1]) \in Nat
            BY <2>2, <2>3, SettledFits
        <3>2. run[k] = run[k - 1] - Applied(invoices[k], c, run[k - 1])
            BY <1>1, <1>3 DEF IsSettlementRun
        <3> QED
            BY <2>2, <3>1, <3>2
    <2>5. invoices'[k] = Settled(invoices[k], Applied(invoices[k], c, run[k - 1]))
        BY <1>1, <1>3, <2>4
    <2> QED
        BY <2>2, <2>3, <2>5, SettledFits
<1>4. invoices' \in [1 .. Len(invoices) -> Invoice]
    BY <1>1, <1>3 DEF Ids
<1>5. invoices' \in Seq(Invoice) /\ Len(invoices') = Len(invoices)
    BY <1>2, <1>4, SeqDef, LenProperties
<1>6. Ids' = Ids
    BY <1>5 DEF Ids
<1>7. PaidMatchesStatus'
    BY <1>3, <1>6 DEF PaidMatchesStatus, StatusFits
<1>8. amount \in Int /\ - amount \in Int
    OBVIOUS
<1>9. TypeOK'
    BY <1>5, <1>6, <1>8, AddToType DEF Pay, BillingInv, TypeOK
<1> QED
    BY <1>7, <1>9 DEF BillingInv

\* Credit touches no invoice.
LEMMA CreditInv ==
    ASSUME BillingInv, NEW c \in Customers, NEW amount \in Amounts, AddCredit(c, amount)
    PROVE  BillingInv'
<1>1. amount \in Int
    BY ConstantsAssumption
<1>2. TypeOK'
    BY <1>1, AddToType DEF AddCredit, BillingInv, TypeOK, Ids
<1>3. PaidMatchesStatus'
    BY DEF AddCredit, BillingInv, PaidMatchesStatus, StatusFits, Ids
<1> QED
    BY <1>2, <1>3 DEF BillingInv

-----------------------------------------------------------------------------

\* The books of an empty shop.
LEMMA InitBillingInv == Init => BillingInv
<1> SUFFICES ASSUME Init PROVE BillingInv
    OBVIOUS
<1>1. invoices \in Seq(Invoice) /\ Ids = {}
    BY EmptySeq DEF Init, Ids
<1> QED
    BY <1>1, ConstantsAssumption DEF Init, BillingInv, TypeOK, PaidMatchesStatus

\* Every request keeps the strengthened invariant.
LEMMA BillingNext ==
    ASSUME BillingInv, [Next]_vars
    PROVE  BillingInv'
<1>1. CASE UNCHANGED vars
    BY <1>1 DEF vars, BillingInv, TypeOK, PaidMatchesStatus, StatusFits, Ids
<1>2. CASE Sale
    <2>1. PICK c \in Customers, items \in Baskets, total \in Totals :
              \/ \E pay \in Amounts \cup {0}, override \in Overrides :
                    CreateInvoice(c, items, total, pay, override)
              \/ \E pay \in Amounts \cup {0} : ConfirmInvoice(c, items, total, pay)
              \/ CreateProforma(c, items, total)
        BY <1>2 DEF Sale
    <2> QED
        BY <2>1, SellInv, ProformaInv DEF CreateInvoice, ConfirmInvoice
<1>3. CASE Change
    BY <1>3, ConvertInv, UpdateInv, CancelInv, ReverseInv DEF Change
<1>4. CASE Khata
    <2>1. PICK c \in Customers, amount \in Amounts :
              \/ RecordPayment(c, amount)
              \/ \E second \in Amounts : RecordMixedPayment(c, amount, second)
              \/ AddCredit(c, amount)
        BY <1>4 DEF Khata
    <2>2. amount \in Nat /\ \A second \in Amounts : amount + second \in Nat
        BY ConstantsAssumption
    <2> QED
        BY <2>1, <2>2, PayInv, CreditInv DEF RecordPayment, RecordMixedPayment
<1> QED
    BY <1>1, <1>2, <1>3, <1>4 DEF Next

\* BillingInv is inductive: one lemma per operation.
THEOREM BillingInvariant == Spec => []BillingInv
BY BillingNext, InitBillingInv, PTL DEF Spec

\* The books stay well typed.
THEOREM BillingTypeOK == Spec => []TypeOK
<1>1. BillingInv => TypeOK
    BY DEF BillingInv
<1> QED
    BY <1>1, BillingInvariant, PTL

\* For every shop: no invoice is overpaid, "paid" means paid in full, "partial"
\* means in part, and a proforma or pending invoice has nothing paid.
THEOREM PaidMatchesStatusAlways == Spec => []PaidMatchesStatus
<1>1. BillingInv => PaidMatchesStatus
    BY DEF BillingInv
<1> QED
    BY <1>1, BillingInvariant, PTL

-----------------------------------------------------------------------------
(* Requests that overlap in any way: a commit may write from a stale row. *)

LEMMA ReadFields ==
    ASSUME NEW q \in ReadRequest
    PROVE  /\ q.op \in {"create", "convert", "update", "cancel", "reverse"}
           /\ q.customer \in Customers
           /\ q.op \in {"create", "update"} => q.items \in Baskets /\ q.total \in Totals
           /\ q.op \in {"create", "convert", "cancel", "reverse"} => q.amount \in Amounts \cup {0}
           /\ q.op = "create" => q.override \in BOOLEAN
BY DEF ReadRequest

\* A row that was read is still a row: invoices are never removed.
OverlapInv ==
    /\ TypeOK
    /\ Len(invoices) <= MaxInvoices
    /\ inflight \in [Requests -> ReadRequest \cup {Idle}]
    /\ unchecked \subseteq Customers
    /\ \A r \in Requests :
          /\ inflight[r].op \in {"convert", "update", "cancel", "reverse"} =>
                inflight[r].i \in Ids /\ inflight[r].snap \in Invoice
          /\ inflight[r].op = "reverse" => inflight[r].amount \in Amounts

\* Rewriting a row leaves as many.
LEMMA RewriteType ==
    ASSUME TypeOK, NEW i \in Ids, NEW row \in Invoice, invoices' = [invoices EXCEPT ![i] = row]
    PROVE  invoices' \in Seq(Invoice) /\ Ids' = Ids
<1>1. invoices \in Seq(Invoice) /\ i \in 1 .. Len(invoices)
    BY DEF TypeOK, Ids
<1>2. invoices' \in Seq(Invoice) /\ Len(invoices') = Len(invoices)
    BY <1>1, ExceptSeq
<1> QED
    BY <1>2 DEF Ids

LEMMA AppendType ==
    ASSUME TypeOK, NEW row \in Invoice, invoices' = Append(invoices, row)
    PROVE  invoices' \in Seq(Invoice) /\ Ids \subseteq Ids'
<1>1. invoices' \in Seq(Invoice) /\ Len(invoices') = Len(invoices) + 1 /\ Len(invoices) \in Nat
    BY AppendProperties, LenProperties DEF TypeOK
<1> QED
    BY <1>1 DEF Ids

LEMMA TypedRow ==
    ASSUME TypeOK, NEW i \in Ids
    PROVE  invoices[i] \in Invoice
BY ElementOfSeq DEF TypeOK, Ids

\* Each effect keeps the types, whatever invoice the request had read.
LEMMA SellTypes ==
    ASSUME TypeOK, NEW c \in Customers, NEW items \in Baskets, NEW total \in Totals,
           NEW pay \in Amounts \cup {0},
           Sell(c, items, total, pay) \/ CreateProforma(c, items, total)
    PROVE  TypeOK' /\ Ids \subseteq Ids'
<1>1. items \in [Products -> Nat] /\ total \in Nat /\ pay \in Nat
    BY ConstantsAssumption
<1>2. /\ Booked(pay, total) \in Nat
      /\ SaleStatus(pay, total) \in {"pending", "partial", "paid"}
    BY <1>1, BookedFits
<1>3. CASE Sell(c, items, total, pay)
    <2> DEFINE row == [customer |-> c, items |-> items, total |-> total,
                       paid |-> Booked(pay, total), status |-> SaleStatus(pay, total)]
    <2>1. row \in Invoice
        BY <1>1, <1>2 DEF Invoice, Statuses
    <2>2. invoices' = Append(invoices, row)
        BY <1>3 DEF Sell
    <2> HIDE DEF row
    <2>3. invoices' \in Seq(Invoice) /\ Ids \subseteq Ids'
        BY <2>1, <2>2, AppendType
    <2> DEFINE booked == Booked(pay, total)
               rest == total - Booked(pay, total)
    <2>4. booked \in Int /\ rest \in Int /\ total \in Int
        BY <1>1, <1>2
    <2>5. /\ stock' = Take(stock, items)
          /\ balance' = AddTo(balance, c, rest)
          /\ totalPurchases' = AddTo(totalPurchases, c, total)
          /\ received' = AddTo(received, c, booked)
          /\ UNCHANGED <<totalPayments, reopened>>
        BY <1>3 DEF Sell
    <2> HIDE DEF booked, rest
    <2> QED
        BY <1>1, <2>3, <2>4, <2>5, StockType, AddToType DEF TypeOK
<1>4. CASE CreateProforma(c, items, total)
    <2> DEFINE row == [customer |-> c, items |-> items, total |-> total,
                       paid |-> 0, status |-> "proforma"]
    <2>1. row \in Invoice
        BY <1>1 DEF Invoice, Statuses
    <2>2. invoices' = Append(invoices, row)
        BY <1>4 DEF CreateProforma
    <2> HIDE DEF row
    <2>3. invoices' \in Seq(Invoice) /\ Ids \subseteq Ids'
        BY <2>1, <2>2, AppendType
    <2> QED
        BY <1>4, <2>3 DEF CreateProforma, TypeOK
<1> QED
    BY <1>3, <1>4

LEMMA ConvertTypes ==
    ASSUME TypeOK, NEW i \in Ids, NEW snap \in Invoice, NEW pay \in Amounts \cup {0},
           ConvertEffect(i, snap, pay)
    PROVE  TypeOK' /\ Ids' = Ids
<1> DEFINE booked == Booked(pay, snap.total)
           rest == snap.total - booked
           st == SaleStatus(pay, snap.total)
<1> PICK row : row = [invoices[i] EXCEPT !.paid = booked, !.status = st]
    OBVIOUS
<1>1. pay \in Nat /\ snap.total \in Nat /\ snap.customer \in Customers /\ snap.items \in [Products -> Nat]
    BY ConstantsAssumption DEF Invoice
<1>2. booked \in Nat /\ st \in Statuses /\ rest \in Int
    BY <1>1, BookedFits DEF Statuses
<1>3. /\ invoices' = [invoices EXCEPT ![i] = row]
      /\ stock' = Take(stock, snap.items)
      /\ balance' = AddTo(balance, snap.customer, rest)
      /\ totalPurchases' = AddTo(totalPurchases, snap.customer, snap.total)
      /\ received' = AddTo(received, snap.customer, booked)
      /\ UNCHANGED <<totalPayments, reopened>>
    BY DEF ConvertEffect
<1> HIDE DEF booked, rest, st
<1>4. row \in Invoice
    BY <1>2, TypedRow DEF Invoice
<1>5. invoices' \in Seq(Invoice) /\ Ids' = Ids
    BY <1>3, <1>4, RewriteType
<1>6. snap.total \in Int /\ booked \in Int
    BY <1>1, <1>2
<1>7. TypeOK'
    BY <1>1, <1>2, <1>3, <1>5, <1>6, StockType, AddToType DEF TypeOK
<1> QED
    BY <1>5, <1>7

LEMMA UpdateTypes ==
    ASSUME TypeOK, NEW i \in Ids, NEW snap \in Invoice, NEW items \in Baskets, NEW total \in Totals,
           UpdateEffect(i, snap, items, total)
    PROVE  TypeOK' /\ Ids' = Ids
<1> DEFINE change == total - snap.total
<1> PICK row : row = [invoices[i] EXCEPT !.items = items, !.total = total]
    OBVIOUS
<1>1. /\ items \in [Products -> Nat] /\ total \in Nat
      /\ snap.total \in Nat /\ snap.customer \in Customers /\ snap.items \in [Products -> Nat]
    BY ConstantsAssumption DEF Invoice
<1>2. change \in Int
    BY <1>1
<1>3. /\ invoices' = [invoices EXCEPT ![i] = row]
      /\ stock' = Take(Put(stock, snap.items), items)
      /\ balance' = AddTo(balance, snap.customer, change)
      /\ totalPurchases' = AddTo(totalPurchases, snap.customer, change)
      /\ UNCHANGED <<totalPayments, received, reopened>>
    BY DEF UpdateEffect
<1> HIDE DEF change
<1>4. row \in Invoice
    BY <1>1, TypedRow DEF Invoice
<1>5. invoices' \in Seq(Invoice) /\ Ids' = Ids
    BY <1>3, <1>4, RewriteType
<1>6. stock' \in [Products -> Int]
    BY <1>1, <1>3, StockType DEF TypeOK
<1>7. TypeOK'
    BY <1>1, <1>2, <1>3, <1>5, <1>6, AddToType DEF TypeOK
<1> QED
    BY <1>5, <1>7

LEMMA CancelTypes ==
    ASSUME TypeOK, NEW i \in Ids, NEW snap \in Invoice, CancelEffect(i, snap)
    PROVE  TypeOK' /\ Ids' = Ids
<1> DEFINE owed == snap.paid - snap.total
           total == - snap.total
<1> PICK row : row = [invoices[i] EXCEPT !.status = "cancelled"]
    OBVIOUS
<1>1. snap.customer \in Customers /\ snap.items \in [Products -> Nat] /\ owed \in Int /\ total \in Int
    BY DEF Invoice
<1>2. /\ invoices' = [invoices EXCEPT ![i] = row]
      /\ \/ UNCHANGED <<stock, balance, totalPurchases>>
         \/ /\ stock' = Put(stock, snap.items)
            /\ balance' = AddTo(balance, snap.customer, owed)
            /\ totalPurchases' = AddTo(totalPurchases, snap.customer, total)
      /\ UNCHANGED <<totalPayments, received, reopened>>
    BY DEF CancelEffect
<1> HIDE DEF owed, total
<1>3. row \in Invoice
    BY TypedRow DEF Invoice, Statuses
<1>4. invoices' \in Seq(Invoice) /\ Ids' = Ids
    BY <1>2, <1>3, RewriteType
<1>5. stock' \in [Products -> Int]
    BY <1>1, <1>2, StockType DEF TypeOK
<1>6. /\ AddTo(balance, snap.customer, owed) \in [Customers -> Int]
      /\ AddTo(totalPurchases, snap.customer, total) \in [Customers -> Int]
    <2>1. balance \in [Customers -> Int] /\ totalPurchases \in [Customers -> Int]
        BY DEF TypeOK
    <2> QED
        BY <1>1, <2>1, AddToType
<1>7. balance' \in [Customers -> Int] /\ totalPurchases' \in [Customers -> Int]
    BY <1>2, <1>6 DEF TypeOK
<1>8. TypeOK'
    BY <1>2, <1>4, <1>5, <1>6, <1>7 DEF TypeOK
<1> QED
    BY <1>4, <1>8

LEMMA ReverseTypes ==
    ASSUME TypeOK, NEW i \in Ids, NEW snap \in Invoice, NEW amount \in Amounts,
           ReverseEffect(i, snap, amount)
    PROVE  TypeOK' /\ Ids' = Ids
<1> DEFINE rest == snap.paid - amount
           less == - amount
           st == ReverseStatus(rest, snap.total)
<1> PICK row : row = [invoices[i] EXCEPT !.paid = rest, !.status = st]
    OBVIOUS
<1>1. /\ amount \in Int /\ less \in Int /\ rest \in Nat
      /\ snap.customer \in Customers
    BY ConstantsAssumption DEF Invoice, ReverseEffect
<1>2. st \in Statuses
    BY DEF ReverseStatus, Statuses
<1>3. /\ invoices' = [invoices EXCEPT ![i] = row]
      /\ balance' = AddTo(balance, snap.customer, amount)
      /\ totalPayments' = AddTo(totalPayments, snap.customer, less)
      /\ received' = AddTo(received, snap.customer, less)
      /\ reopened' \subseteq reopened \cup {i}
      /\ UNCHANGED <<stock, totalPurchases>>
    BY DEF ReverseEffect
<1> HIDE DEF rest, less, st
<1>4. row \in Invoice
    BY <1>1, <1>2, TypedRow DEF Invoice
<1>5. invoices' \in Seq(Invoice) /\ Ids' = Ids
    BY <1>3, <1>4, RewriteType
<1>6. TypeOK'
    BY <1>1, <1>3, <1>5, AddToType DEF TypeOK
<1> QED
    BY <1>5, <1>6

LEMMA PayTypes ==
    ASSUME TypeOK, NEW c \in Customers, NEW amount \in Nat, Pay(c, amount)
    PROVE  TypeOK' /\ Ids' = Ids
<1>1. PICK run \in [0 .. Len(invoices) -> 0 .. amount] :
          /\ IsSettlementRun(run, c, amount)
          /\ invoices' = [k \in Ids |-> Settled(invoices[k], run[k - 1] - run[k])]
    BY DEF Pay, Settle
<1>2. Len(invoices) \in Nat
    BY LenProperties DEF TypeOK
<1>3. ASSUME NEW k \in Ids PROVE invoices'[k] \in Invoice
    <2> DEFINE v == invoices[k]
               a == run[k - 1] - run[k]
    <2>1. k \in 0 .. Len(invoices) /\ k - 1 \in 0 .. Len(invoices)
        BY <1>2, <1>3 DEF Ids
    <2>2. run[k] \in Nat /\ run[k - 1] \in Nat
        BY <2>1
    <2>3. v \in Invoice /\ v.paid \in Nat /\ v.total \in Nat
        BY <1>3, TypedRow DEF Invoice
    <2>4. a \in Nat
        <3> DEFINE b == Applied(v, c, run[k - 1])
        <3>1. run[k] = run[k - 1] - b
            BY <1>1 DEF IsSettlementRun
        <3>2. b \in Nat
            <4> HIDE DEF v
            <4> QED
                BY <2>2, <2>3 DEF Applied, Unpaid, Lesser, Due
        <3> HIDE DEF b
        <3> QED
            BY <2>2, <3>1, <3>2
    <2>5. invoices'[k] = Settled(v, a)
        BY <1>1
    <2> HIDE DEF v, a
    <2>6. v.paid + a \in Nat /\ (IF a = Due(v) THEN "paid" ELSE "partial") \in Statuses
        BY <2>3, <2>4 DEF Statuses
    <2> QED
        BY <2>3, <2>5, <2>6 DEF Settled, Invoice
<1>4. invoices' \in [1 .. Len(invoices) -> Invoice]
    BY <1>1, <1>3 DEF Ids
<1>5. invoices' \in Seq(Invoice) /\ Len(invoices') = Len(invoices)
    BY <1>2, <1>4, SeqDef, LenProperties
<1>6. Ids' = Ids
    BY <1>5 DEF Ids
<1>7. amount \in Int /\ - amount \in Int
    OBVIOUS
<1>8. TypeOK'
    BY <1>5, <1>6, <1>7, AddToType DEF Pay, TypeOK
<1> QED
    BY <1>6, <1>8

LEMMA CreditTypes ==
    ASSUME TypeOK, NEW c \in Customers, NEW amount \in Amounts, AddCredit(c, amount)
    PROVE  TypeOK' /\ Ids' = Ids
<1>1. amount \in Int
    BY ConstantsAssumption
<1> QED
    BY <1>1, AddToType DEF AddCredit, TypeOK, Ids

\* What a request in flight is, for the invariant.
LEMMA OverlapRead ==
    ASSUME OverlapInv, NEW r \in Requests, inflight[r] # Idle
    PROVE  inflight[r] \in ReadRequest
BY DEF OverlapInv

\* A commit keeps the types, and no row disappears.
LEMMA WritesTypes ==
    ASSUME OverlapInv, NEW r \in Requests, inflight[r] # Idle, Writes(inflight[r])
    PROVE  TypeOK' /\ Ids \subseteq Ids'
<1> DEFINE q == inflight[r]
<1>1. /\ TypeOK /\ q \in ReadRequest
      /\ q.op \in {"convert", "update", "cancel", "reverse"} => q.i \in Ids /\ q.snap \in Invoice
      /\ q.op = "reverse" => q.amount \in Amounts
      /\ Writes(q)
    BY OverlapRead DEF OverlapInv
<1> HIDE DEF q
<1>2. q.op = "create" /\ Sell(q.customer, q.items, q.total, q.amount) => TypeOK' /\ Ids \subseteq Ids'
    BY <1>1, ReadFields, SellTypes
<1>3. q.op = "convert" /\ ConvertEffect(q.i, q.snap, q.amount) => TypeOK' /\ Ids \subseteq Ids'
    BY <1>1, ReadFields, ConvertTypes
<1>4. q.op = "update" /\ UpdateEffect(q.i, q.snap, q.items, q.total) => TypeOK' /\ Ids \subseteq Ids'
    BY <1>1, ReadFields, UpdateTypes
<1>5. q.op = "cancel" /\ CancelEffect(q.i, q.snap) => TypeOK' /\ Ids \subseteq Ids'
    BY <1>1, CancelTypes
<1>6. q.op = "reverse" /\ ReverseEffect(q.i, q.snap, q.amount) => TypeOK' /\ Ids \subseteq Ids'
    BY <1>1, ReverseTypes
<1> QED
    BY <1>1, <1>2, <1>3, <1>4, <1>5, <1>6 DEF Writes

\* The requests that are still in flight after a step name rows that are still there.
LEMMA OverlapRest ==
    ASSUME OverlapInv, TypeOK', Ids \subseteq Ids', Len(invoices') <= MaxInvoices, NEW r \in Requests,
           unchecked' \subseteq Customers,
           inflight' = inflight \/ inflight' = [inflight EXCEPT ![r] = Idle]
    PROVE  OverlapInv'
<1>1. inflight' \in [Requests -> ReadRequest \cup {Idle}]
    BY DEF OverlapInv
<1>2. \A s \in Requests : inflight'[s] = inflight[s] \/ inflight'[s] = Idle
    BY DEF OverlapInv
<1>3. Idle.op = "none"
    BY DEF Idle
<1>4. ASSUME NEW s \in Requests
      PROVE  /\ inflight'[s].op \in {"convert", "update", "cancel", "reverse"} =>
                    inflight'[s].i \in Ids' /\ inflight'[s].snap \in Invoice
             /\ inflight'[s].op = "reverse" => inflight'[s].amount \in Amounts
    BY <1>2, <1>3, <1>4 DEF OverlapInv
<1> QED
    BY <1>1, <1>4 DEF OverlapInv

LEMMA OverlapReadStep ==
    ASSUME OverlapInv, NEW r \in Requests, ReadStep(r)
    PROVE  OverlapInv' /\ UNCHANGED vars
<1>1. ASSUME NEW q \in ReadRequest, Start(r, q),
             q.op \in {"convert", "update", "cancel", "reverse"} => q.i \in Ids /\ q.snap \in Invoice,
             q.op = "reverse" => q.amount \in Amounts
      PROVE  OverlapInv' /\ UNCHANGED vars
    <2>1. UNCHANGED <<vars, unchecked>> /\ inflight' = [inflight EXCEPT ![r] = q]
        BY <1>1 DEF Start
    <2>2. TypeOK' /\ Ids' = Ids /\ invoices' = invoices
        BY <2>1 DEF OverlapInv, TypeOK, Ids, vars
    <2>3. inflight' \in [Requests -> ReadRequest \cup {Idle}]
        BY <2>1 DEF OverlapInv
    <2>4. \A s \in Requests : inflight'[s] = IF s = r THEN q ELSE inflight[s]
        BY <2>1 DEF OverlapInv
    <2>5. ASSUME NEW s \in Requests
          PROVE  /\ inflight'[s].op \in {"convert", "update", "cancel", "reverse"} =>
                        inflight'[s].i \in Ids' /\ inflight'[s].snap \in Invoice
                 /\ inflight'[s].op = "reverse" => inflight'[s].amount \in Amounts
        BY <1>1, <2>2, <2>4, <2>5 DEF OverlapInv
    <2> QED
        BY <2>1, <2>2, <2>3, <2>5 DEF OverlapInv
<1>2. ASSUME NEW i \in Ids
      PROVE  /\ invoices[i] \in Invoice /\ invoices[i].customer \in Customers
             /\ i \in 1 .. MaxInvoices
    <2>1. TypeOK /\ Len(invoices) <= MaxInvoices
        BY DEF OverlapInv
    <2>2. Len(invoices) \in Nat /\ MaxInvoices \in Nat
        BY <2>1, LenProperties, ConstantsAssumption DEF TypeOK
    <2>3. invoices[i] \in Invoice
        BY <2>1, TypedRow
    <2> QED
        BY <2>1, <2>2, <2>3 DEF Ids, Invoice
<1> USE DEF ReadRequest
<1>3. CASE \E c \in Customers, items \in Baskets, total \in Totals, pay \in Amounts \cup {0},
              override \in Overrides : ReadForCreate(r, c, items, total, pay, override)
    BY <1>1, <1>3, ConstantsAssumption DEF ReadForCreate
<1>4. ASSUME NEW i \in Ids, NEW pay \in Amounts \cup {0}, ReadForConvert(r, i, pay)
      PROVE  OverlapInv' /\ UNCHANGED vars
    BY <1>1, <1>2, <1>4 DEF ReadForConvert
<1>5. ASSUME NEW i \in Ids, NEW items \in Baskets, NEW total \in Totals,
             ReadForUpdate(r, i, items, total)
      PROVE  OverlapInv' /\ UNCHANGED vars
    BY <1>1, <1>2, <1>5 DEF ReadForUpdate
<1>6. ASSUME NEW i \in Ids, ReadForCancel(r, i)
      PROVE  OverlapInv' /\ UNCHANGED vars
    BY <1>1, <1>2, <1>6 DEF ReadForCancel
<1>7. ASSUME NEW i \in Ids, NEW amount \in Amounts, ReadForReverse(r, i, amount)
      PROVE  OverlapInv' /\ UNCHANGED vars
    BY <1>1, <1>2, <1>7 DEF ReadForReverse
<1> QED
    BY <1>3, <1>4, <1>5, <1>6, <1>7 DEF ReadStep

LEMMA OneStepTypes ==
    ASSUME TypeOK, OneStep
    PROVE  /\ TypeOK' /\ Ids \subseteq Ids' /\ inflight' = inflight /\ (Sale \/ Khata)
           /\ unchecked' = unchecked \cup Raised
<1>1. PICK c \in Customers :
          \/ \E items \in Baskets, total \in Totals :
                ConfirmInvoice(c, items, total, 0) \/ CreateProforma(c, items, total)
          \/ \E amount \in Amounts : RecordPayment(c, amount) \/ AddCredit(c, amount)
    BY DEF OneStep
<1>2. Sale \/ Khata
    BY <1>1 DEF Sale, Khata
<1>3. TypeOK' /\ Ids \subseteq Ids'
    BY <1>1, SellTypes, PayTypes, CreditTypes, ConstantsAssumption DEF ConfirmInvoice, RecordPayment
<1> QED
    BY <1>2, <1>3 DEF OneStep

LEMMA OverlapNext ==
    ASSUME OverlapInv, [ConcurrentNext]_allVars
    PROVE  OverlapInv'
<1>1. TypeOK
    BY DEF OverlapInv
<1>2. CASE OneStep /\ WithinBounds'
    <2>1. /\ TypeOK' /\ Ids \subseteq Ids' /\ Len(invoices') <= MaxInvoices /\ inflight' = inflight
          /\ unchecked' \subseteq Customers
        BY <1>1, <1>2, OneStepTypes DEF WithinBounds, OverlapInv, Raised
    <2> QED
        BY <1>1, <2>1 DEF OverlapInv
<1>3. ASSUME NEW r \in Requests, ReadStep(r) PROVE OverlapInv'
    BY <1>3, OverlapReadStep
<1>4. ASSUME NEW r \in Requests, CommitRequest(r), WithinBounds' PROVE OverlapInv'
    <2>1. unchecked' \subseteq Customers
        BY <1>4 DEF CommitRequest, OverlapInv, Raised
    <2> QED
        BY <1>4, <2>1, WritesTypes, OverlapRest DEF CommitRequest, WithinBounds
<1>5. ASSUME NEW r \in Requests, AbortRequest(r) PROVE OverlapInv'
    <2>1. /\ TypeOK' /\ Ids' = Ids /\ Len(invoices') <= MaxInvoices
          /\ unchecked' \subseteq Customers
        BY <1>5 DEF AbortRequest, vars, OverlapInv, TypeOK, Ids
    <2> QED
        BY <1>5, <2>1, OverlapRest DEF AbortRequest
<1>6. CASE UNCHANGED allVars
    BY <1>6 DEF allVars, vars, OverlapInv, TypeOK, Ids
<1> QED
    BY <1>2, <1>3, <1>4, <1>5, <1>6 DEF ConcurrentNext

LEMMA OverlapInit == ConcurrentInit => OverlapInv
<1> SUFFICES ASSUME ConcurrentInit PROVE OverlapInv
    OBVIOUS
<1>1. BillingInv /\ Len(invoices) <= MaxInvoices
    BY InitBillingInv, ConstantsAssumption DEF ConcurrentInit, Init
<1> QED
    BY <1>1 DEF BillingInv, ConcurrentInit, OverlapInv, Idle

\* However requests overlap, on one customer and on one invoice too: the books and the
\* requests in flight are well typed, nothing that was paid is negative, and no request
\* writes a row that is not there.
THEOREM OverlapInvariant == ConcurrentSpec => []OverlapInv
BY OverlapInit, OverlapNext, PTL DEF ConcurrentSpec

\* So the types hold with no lock and no care of the clients.
THEOREM ConcurrentTypeOKAlways == ConcurrentSpec => []ConcurrentTypeOK
<1>1. OverlapInv => ConcurrentTypeOK
    BY DEF OverlapInv, ConcurrentTypeOK
<1> QED
    BY <1>1, OverlapInvariant, PTL

-----------------------------------------------------------------------------
(* What goes wrong goes wrong through a stale row and nothing else. *)

\* This step's commits find the row as they read it.
FreshCommits ==
    \A r \in Requests :
        /\ CommitRequest(r)
        /\ inflight[r].op \in {"convert", "update", "cancel", "reverse"}
        => inflight[r].snap = invoices[inflight[r].i]

LEMMA FreshNext ==
    ASSUME OverlapInv, [ConcurrentNext]_allVars, FreshCommits
    PROVE  [Next]_vars
<1>1. TypeOK
    BY DEF OverlapInv
<1>2. CASE OneStep /\ WithinBounds'
    BY <1>1, <1>2, OneStepTypes DEF Next
<1>3. ASSUME NEW r \in Requests, ReadStep(r) PROVE [Next]_vars
    BY <1>3, OverlapReadStep
<1>4. ASSUME NEW r \in Requests, CommitRequest(r), WithinBounds' PROVE [Next]_vars
    <2> DEFINE q == inflight[r]
    <2>1. /\ q \in ReadRequest /\ Writes(q)
          /\ q.op \in {"convert", "update", "cancel", "reverse"} =>
                q.i \in Ids /\ q.snap = invoices[q.i]
          /\ q.op = "reverse" => q.amount \in Amounts
        BY <1>4, OverlapRead DEF OverlapInv, FreshCommits, CommitRequest
    <2> HIDE DEF q
    <2>2. q.op = "create" /\ Sell(q.customer, q.items, q.total, q.amount) => Sale
        BY <2>1, ReadFields DEF Sale, ConfirmInvoice
    <2>3. q.op = "convert" /\ ConvertEffect(q.i, q.snap, q.amount) => Change
        BY <2>1, ReadFields DEF Change, ConvertProforma
    <2>4. q.op = "update" /\ UpdateEffect(q.i, q.snap, q.items, q.total) => Change
        BY <2>1, ReadFields DEF Change, UpdateInvoice
    <2>5. q.op = "cancel" /\ CancelEffect(q.i, q.snap) => Change
        BY <2>1 DEF Change, CancelInvoice
    <2>6. q.op = "reverse" /\ ReverseEffect(q.i, q.snap, q.amount) => Change
        BY <2>1 DEF Change, ReversePayment
    <2> QED
        BY <1>4, <2>1, <2>2, <2>3, <2>4, <2>5, <2>6 DEF Writes, Next
<1>5. ASSUME NEW r \in Requests, AbortRequest(r) PROVE [Next]_vars
    BY <1>5 DEF AbortRequest
<1>6. CASE UNCHANGED allVars
    BY <1>6 DEF allVars
<1> QED
    BY <1>2, <1>3, <1>4, <1>5, <1>6 DEF ConcurrentNext

\* If every commit found the row as it was read (as under a row lock or a check of the row's
\* version), overlapping requests would do what Billing does one by one.  A create may commit
\* on a stale balance: that bears on the credit limit alone, which Billing does not promise.
THEOREM FreshCommitsImplementBilling == ConcurrentSpec /\ [][FreshCommits]_allVars => ImplementsBilling
<1>1. ConcurrentInit => Init
    BY DEF ConcurrentInit
<1>2. OverlapInv /\ [ConcurrentNext]_allVars /\ [FreshCommits]_allVars => [Next]_vars
    <2>1. UNCHANGED allVars => UNCHANGED vars
        BY DEF allVars
    <2> QED
        BY <2>1, FreshNext
<1> QED
    BY <1>1, <1>2, OverlapInvariant, PTL DEF ConcurrentSpec, ImplementsBilling, Spec

-----------------------------------------------------------------------------
(* Clients that keep two requests apart that write one invoice. *)

\* What a request has read of an invoice stands until it writes it.
ApartInv ==
    /\ \A r \in Requests : OnRow(inflight[r]) =>
          /\ inflight[r].snap = invoices[inflight[r].i]
          /\ inflight[r].customer = inflight[r].snap.customer
    /\ \A r, s \in Requests :
          OnRow(inflight[r]) /\ OnRow(inflight[s]) /\ inflight[r].i = inflight[s].i => r = s

\* The rows that requests in flight have read survive a step, if it leaves their requests
\* in flight and their rows alone.
LEMMA ApartRest ==
    ASSUME ApartInv,
           \A s \in Requests : OnRow(inflight'[s]) =>
              /\ inflight'[s] = inflight[s]
              /\ invoices'[inflight[s].i] = invoices[inflight[s].i]
    PROVE  ApartInv'
BY DEF ApartInv

\* A sale, a proforma and credit rewrite no row.
LEMMA SaleKeepsRows ==
    ASSUME TypeOK, NEW c, NEW items, NEW total, NEW pay, NEW amount,
           Sell(c, items, total, pay) \/ CreateProforma(c, items, total) \/ AddCredit(c, amount)
    PROVE  \A k \in Ids : invoices'[k] = invoices[k]
<1>1. CASE AddCredit(c, amount)
    BY <1>1 DEF AddCredit
<1>2. CASE Sell(c, items, total, pay) \/ CreateProforma(c, items, total)
    <2>1. PICK row : invoices' = Append(invoices, row)
        BY <1>2 DEF Sell, CreateProforma
    <2>2. invoices \in Seq(Invoice)
        BY DEF TypeOK
    <2> QED
        BY <2>1, <2>2 DEF Ids
<1> QED
    BY <1>1, <1>2

\* A payment rewrites no row of another customer.
LEMMA PayKeepsRows ==
    ASSUME TypeOK, NEW c \in Customers, NEW amount \in Nat, Pay(c, amount)
    PROVE  \A k \in Ids : invoices[k].customer # c => invoices'[k] = invoices[k]
<1>1. PICK run \in [0 .. Len(invoices) -> 0 .. amount] :
          /\ IsSettlementRun(run, c, amount)
          /\ invoices' = [k \in Ids |-> Settled(invoices[k], run[k - 1] - run[k])]
    BY DEF Pay, Settle
<1>2. Len(invoices) \in Nat
    BY LenProperties DEF TypeOK
<1>3. ASSUME NEW k \in Ids, invoices[k].customer # c
      PROVE  invoices'[k] = invoices[k]
    <2>1. k \in 0 .. Len(invoices) /\ k - 1 \in 0 .. Len(invoices)
        BY <1>2, <1>3 DEF Ids
    <2>2. run[k] \in Nat /\ run[k - 1] \in Nat
        BY <2>1
    <2>3. Applied(invoices[k], c, run[k - 1]) = 0
        BY <1>3 DEF Applied, Unpaid
    <2>4. run[k - 1] - run[k] = 0
        BY <1>1, <2>2, <2>3 DEF IsSettlementRun
    <2> QED
        BY <1>1, <2>4 DEF Settled
<1> QED
    BY <1>3

\* A request that writes an invoice rewrites no other.
LEMMA WritesKeepRows ==
    ASSUME OverlapInv, NEW r \in Requests, OnRow(inflight[r]), Writes(inflight[r])
    PROVE  \A k \in Ids : k # inflight[r].i => invoices'[k] = invoices[k]
<1> DEFINE q == inflight[r]
<1>1. invoices \in Seq(Invoice)
    BY DEF OverlapInv, TypeOK
<1>2. Writes(q) /\ q.op # "create"
    BY DEF OnRow
<1> HIDE DEF q
<1> DEFINE Kept == \A k \in Ids : k # q.i => invoices'[k] = invoices[k]
<1>3. ConvertEffect(q.i, q.snap, q.amount) => Kept
    BY <1>1 DEF ConvertEffect, Ids
<1>4. UpdateEffect(q.i, q.snap, q.items, q.total) => Kept
    BY <1>1 DEF UpdateEffect, Ids
<1>5. CancelEffect(q.i, q.snap) => Kept
    BY <1>1 DEF CancelEffect, Ids
<1>6. ReverseEffect(q.i, q.snap, q.amount) => Kept
    BY <1>1 DEF ReverseEffect, Ids
<1> QED
    BY <1>2, <1>3, <1>4, <1>5, <1>6 DEF Writes, q

\* A read finds the row as it is, and no other request about to write it.
LEMMA ApartRead ==
    ASSUME OneAtATime, OverlapInv, ApartInv, NEW r \in Requests, ReadStep(r)
    PROVE  ApartInv'
<1>1. ASSUME NEW q, Start(r, q),
             OnRow(q) => /\ q.snap = invoices[q.i] /\ q.customer = q.snap.customer
                         /\ \A s \in Requests : OnRow(inflight[s]) => inflight[s].i # q.i
      PROVE  ApartInv'
    <2>1. UNCHANGED invoices /\ \A s \in Requests : inflight'[s] = IF s = r THEN q ELSE inflight[s]
        BY <1>1 DEF Start, vars, OverlapInv
    <2>2. ASSUME NEW s \in Requests, OnRow(inflight'[s])
          PROVE  /\ inflight'[s].snap = invoices[inflight'[s].i]
                 /\ inflight'[s].customer = inflight'[s].snap.customer
        BY <1>1, <2>1, <2>2 DEF ApartInv
    <2>3. ASSUME NEW s \in Requests, NEW t \in Requests, OnRow(inflight'[s]), OnRow(inflight'[t]),
                 inflight'[s].i = inflight'[t].i
          PROVE  s = t
        BY <1>1, <2>1, <2>3 DEF ApartInv
    <2> QED
        BY <2>1, <2>2, <2>3 DEF ApartInv, OnRow
<1>2. CASE \E c \in Customers, items \in Baskets, total \in Totals, pay \in Amounts \cup {0},
              override \in Overrides : ReadForCreate(r, c, items, total, pay, override)
    BY <1>1, <1>2 DEF ReadForCreate, OnRow
<1>3. ASSUME NEW i \in Ids, NEW pay \in Amounts \cup {0}, ReadForConvert(r, i, pay)
      PROVE  ApartInv'
    BY <1>1, <1>3 DEF ReadForConvert, MayChange
<1>4. ASSUME NEW i \in Ids, NEW items \in Baskets, NEW total \in Totals,
             ReadForUpdate(r, i, items, total)
      PROVE  ApartInv'
    BY <1>1, <1>4 DEF ReadForUpdate, MayChange
<1>5. ASSUME NEW i \in Ids, ReadForCancel(r, i)
      PROVE  ApartInv'
    BY <1>1, <1>5 DEF ReadForCancel, MayChange
<1>6. ASSUME NEW i \in Ids, NEW amount \in Amounts, ReadForReverse(r, i, amount)
      PROVE  ApartInv'
    BY <1>1, <1>6 DEF ReadForReverse, MayChange
<1> QED
    BY <1>2, <1>3, <1>4, <1>5, <1>6 DEF ReadStep

\* A request of one step changes no row that another has read.
LEMMA ApartOneStep ==
    ASSUME OneAtATime, OverlapInv, ApartInv, OneStep
    PROVE  ApartInv'
<1>1. PICK c \in Customers :
          \/ \E items \in Baskets, total \in Totals :
                ConfirmInvoice(c, items, total, 0) \/ CreateProforma(c, items, total)
          \/ \E amount \in Amounts : MayPay(c) /\ RecordPayment(c, amount)
          \/ \E amount \in Amounts : AddCredit(c, amount)
    BY DEF OneStep
<1>2. TypeOK /\ inflight' = inflight
    BY DEF OverlapInv, OneStep
<1>3. \A k \in Ids : invoices'[k] = invoices[k] \/ (MayPay(c) /\ invoices[k].customer = c)
    <2>1. ASSUME NEW items, NEW total, ConfirmInvoice(c, items, total, 0) \/ CreateProforma(c, items, total)
          PROVE  \A k \in Ids : invoices'[k] = invoices[k]
        BY <1>2, <2>1, SaleKeepsRows DEF ConfirmInvoice
    <2>2. ASSUME NEW amount, AddCredit(c, amount)
          PROVE  \A k \in Ids : invoices'[k] = invoices[k]
        BY <2>2 DEF AddCredit
    <2>3. ASSUME NEW amount \in Amounts, RecordPayment(c, amount)
          PROVE  \A k \in Ids : invoices[k].customer # c => invoices'[k] = invoices[k]
        <3>1. amount \in Nat /\ Pay(c, amount)
            BY <2>3, ConstantsAssumption DEF RecordPayment
        <3> QED
            BY <1>2, <3>1, PayKeepsRows
    <2> QED
        BY <1>1, <2>1, <2>2, <2>3
<1>4. ASSUME NEW s \in Requests, OnRow(inflight[s])
      PROVE  invoices'[inflight[s].i] = invoices[inflight[s].i]
    <2>1. inflight[s].i \in Ids
        BY <1>4 DEF OverlapInv, OnRow
    <2>2. inflight[s].customer = invoices[inflight[s].i].customer
        BY <1>4 DEF ApartInv
    <2>3. MayPay(c) => inflight[s].customer # c
        BY <1>4 DEF MayPay
    <2> QED
        BY <1>3, <2>1, <2>2, <2>3
<1> QED
    BY <1>2, <1>4, ApartRest

\* Every step keeps the rows that others have read.
LEMMA ApartNext ==
    ASSUME OneAtATime, OverlapInv, ApartInv, [ConcurrentNext]_allVars
    PROVE  ApartInv' /\ FreshCommits
<1>1. FreshCommits
    BY DEF FreshCommits, ApartInv, OnRow
<1>2. CASE OneStep
    BY <1>1, <1>2, ApartOneStep
<1>3. ASSUME NEW r \in Requests, ReadStep(r) PROVE ApartInv'
    BY <1>3, ApartRead
<1>4. ASSUME NEW r \in Requests, CommitRequest(r) PROVE ApartInv'
    <2>1. inflight[r] # Idle /\ Writes(inflight[r])
        BY <1>4 DEF CommitRequest
    <2>2. \A s \in Requests : inflight'[s] = IF s = r THEN Idle ELSE inflight[s]
        BY <1>4 DEF CommitRequest, OverlapInv
    <2>3. \A k \in Ids : invoices'[k] = invoices[k] \/ (OnRow(inflight[r]) /\ k = inflight[r].i)
        <3>1. CASE OnRow(inflight[r])
            BY <2>1, <3>1, WritesKeepRows
        <3>2. CASE ~OnRow(inflight[r])
            <4>1. Sell(inflight[r].customer, inflight[r].items, inflight[r].total, inflight[r].amount)
                BY <2>1, <3>2 DEF Writes, OnRow
            <4> QED
                BY <4>1, SaleKeepsRows DEF OverlapInv
        <3> QED
            BY <3>1, <3>2
    <2>4. ASSUME NEW s \in Requests, OnRow(inflight'[s])
          PROVE  /\ inflight'[s] = inflight[s]
                 /\ invoices'[inflight[s].i] = invoices[inflight[s].i]
        <3>1. s # r /\ inflight'[s] = inflight[s]
            BY <2>2, <2>4 DEF OnRow, Idle
        <3>2. inflight[s].i \in Ids
            BY <2>4, <3>1 DEF OverlapInv, OnRow
        <3>3. OnRow(inflight[r]) => inflight[s].i # inflight[r].i
            BY <2>4, <3>1 DEF ApartInv
        <3> QED
            BY <2>3, <3>1, <3>2, <3>3
    <2> QED
        BY <2>4, ApartRest
<1>5. ASSUME NEW r \in Requests, AbortRequest(r) PROVE ApartInv'
    <2>1. /\ UNCHANGED invoices
          /\ \A s \in Requests : inflight'[s] = IF s = r THEN Idle ELSE inflight[s]
        BY <1>5 DEF AbortRequest, vars, OverlapInv
    <2>2. \A s \in Requests : OnRow(inflight'[s]) => inflight'[s] = inflight[s]
        BY <2>1 DEF OnRow, Idle
    <2> QED
        BY <2>1, <2>2, ApartRest
<1>6. CASE UNCHANGED allVars
    BY <1>1, <1>6 DEF allVars, vars, ApartInv
<1> QED
    BY <1>1, <1>2, <1>3, <1>4, <1>5, <1>6 DEF ConcurrentNext

\* "Read, check, write" without a lock is as good as one step as long as no two requests
\* write one invoice, however many are about one customer and whatever products they share.
THEOREM ImplementsBillingAlways == OneAtATime /\ ConcurrentSpec => ImplementsBilling
<1>1. ConcurrentInit => ApartInv
    BY DEF ConcurrentInit, ApartInv, OnRow, Idle
<1>2. CASE OneAtATime
    <2>1. ApartInv /\ OverlapInv /\ [ConcurrentNext]_allVars => ApartInv' /\ [FreshCommits]_allVars
        BY <1>2, ApartNext
    <2>2. ConcurrentSpec => [][FreshCommits]_allVars
        BY <1>1, <2>1, OverlapInvariant, PTL DEF ConcurrentSpec
    <2> QED
        BY <2>2, FreshCommitsImplementBilling
<1> QED
    BY <1>2

-----------------------------------------------------------------------------
(* Sales and payments alone: no request computes what it writes from a row. *)

SalesAlone == Operations \cap {"convert", "update", "cancel", "reverse"} = {}

SalesInv ==
    /\ inflight \in [Requests -> ReadRequest \cup {Idle}]
    /\ \A r \in Requests : inflight[r].op \in {"create", "none"}

LEMMA SalesNext ==
    ASSUME SalesAlone, SalesInv, OverlapInv, [ConcurrentNext]_allVars
    PROVE  SalesInv' /\ FreshCommits
<1>1. FreshCommits
    BY DEF SalesInv, FreshCommits
<1>2. inflight' \in [Requests -> ReadRequest \cup {Idle}]
    BY OverlapNext DEF OverlapInv
<1>3. ASSUME NEW r \in Requests, ReadStep(r) PROVE SalesInv'
    <2>1. PICK q : Start(r, q) /\ q.op = "create"
        <3>1. CASE \E c \in Customers, items \in Baskets, total \in Totals, pay \in Amounts \cup {0},
                      override \in Overrides : ReadForCreate(r, c, items, total, pay, override)
            BY <3>1 DEF ReadForCreate
        <3>2. ASSUME NEW i \in Ids,
                     \/ \E pay \in Amounts \cup {0} : ReadForConvert(r, i, pay)
                     \/ \E items \in Baskets, total \in Totals : ReadForUpdate(r, i, items, total)
                     \/ ReadForCancel(r, i)
                     \/ \E amount \in Amounts : ReadForReverse(r, i, amount)
              PROVE  FALSE
            BY <3>2 DEF SalesAlone, MayChange, ReadForConvert, ReadForUpdate, ReadForCancel,
               ReadForReverse
        <3> QED
            BY <1>3, <3>1, <3>2 DEF ReadStep
    <2>2. \A s \in Requests : inflight'[s] = IF s = r THEN q ELSE inflight[s]
        BY <2>1 DEF Start, SalesInv
    <2> QED
        BY <1>2, <2>1, <2>2 DEF SalesInv
<1>4. ASSUME NEW r \in Requests, CommitRequest(r) \/ AbortRequest(r) PROVE SalesInv'
    <2>1. \A s \in Requests : inflight'[s] = IF s = r THEN Idle ELSE inflight[s]
        BY <1>4 DEF CommitRequest, AbortRequest, SalesInv
    <2> QED
        BY <1>2, <2>1 DEF SalesInv, Idle
<1>5. CASE UNCHANGED inflight
    BY <1>1, <1>5 DEF SalesInv
<1> QED
    BY <1>1, <1>3, <1>4, <1>5 DEF ConcurrentNext, OneStep, allVars

\* Where clients only sell, propose, take payments and give credit, no lock is needed:
\* requests that overlap in any order, on one customer too, do what Billing does one by one.
THEOREM SalesNeedNoLock == SalesAlone /\ ConcurrentSpec => ImplementsBilling
<1>1. ConcurrentInit => SalesInv
    BY DEF ConcurrentInit, SalesInv, Idle
<1>2. CASE SalesAlone
    <2>1. SalesInv /\ OverlapInv /\ [ConcurrentNext]_allVars => SalesInv' /\ [FreshCommits]_allVars
        BY <1>2, SalesNext
    <2>2. ConcurrentSpec => [][FreshCommits]_allVars
        BY <1>1, <2>1, OverlapInvariant, PTL DEF ConcurrentSpec
    <2> QED
        BY <2>2, FreshCommitsImplementBilling
<1> QED
    BY <1>2
=============================================================================
