-------------------------- MODULE BillingConcurrent --------------------------
(***************************************************************************)
(* The requests of Billing as the database runs them: transactions at READ *)
(* COMMITTED, none of whose reads locks the row it reads.                  *)
(*                                                                         *)
(* A request that first reads an invoice (or a balance) and then writes    *)
(* what it computed from it is two steps: Read, which takes the snapshot   *)
(* and makes the request's checks, and Commit, which applies the effect    *)
(* with that snapshot to whatever the rows are by then.  The writes are    *)
(* one step: each updates a row it thereby locks until the commit, and     *)
(* between two requests of one customer the customer row is the lock.      *)
(*                                                                         *)
(* A payment reads the invoices it settles only after its increment of     *)
(* customer.balance has locked the customer row, and every other writer of *)
(* those invoices needs that row too: it is one step, and so is what       *)
(* writes without reading.                                                 *)
(***************************************************************************)
EXTENDS Billing

CONSTANTS
    Requests,       \* requests that may be in flight at once
    Operations,     \* the operations clients use, of {"create", "confirm", "convert",
                    \* "update", "cancel", "reverse", "pay", "credit", "proforma"}
    OneAtATime      \* do clients keep two requests that write one invoice apart?

\* A server has finitely many requests in flight, and an amount column a largest value.
ASSUME ConcurrentAssumption ==
    /\ IsFiniteSet(Requests) /\ Requests # {}
    /\ \E most \in Totals : \A total \in Totals : total <= most
    /\ OneAtATime \in BOOLEAN

VARIABLES
    inflight,       \* [Requests -> Idle or a request that has read and not written]
    unchecked       \* history: customers whose balance something else has raised
                    \* than a sale that was held to the credit limit

allVars == <<vars, inflight, unchecked>>

Idle == [op |-> "none"]
ReadRequest ==
    [op : {"create"}, customer : Customers, items : Baskets, total : Totals,
     amount : Amounts \cup {0}, override : BOOLEAN]
    \cup [op : {"convert", "cancel", "reverse"}, i : 1 .. MaxInvoices, snap : Invoice,
          customer : Customers, amount : Amounts \cup {0}]
    \cup [op : {"update"}, i : 1 .. MaxInvoices, snap : Invoice, customer : Customers,
          items : Baskets, total : Totals]

\* The books are well-formed, and a request in flight holds what it has read; one
\* that ended holds nothing.
ConcurrentTypeOK ==
    /\ TypeOK
    /\ inflight \in [Requests -> ReadRequest \cup {Idle}]
    /\ unchecked \subseteq Customers

ConcurrentInit == Init /\ inflight = [r \in Requests |-> Idle] /\ unchecked = {}

\* The requests in flight that have read an invoice and will write it.
OnRow(q) == q.op \in {"convert", "update", "cancel", "reverse"}

\* Where clients keep requests apart, no other is about to write the invoice ...
MayChange(op, i) ==
    /\ op \in Operations
    /\ OneAtATime => \A q \in Requests : OnRow(inflight[q]) => inflight[q].i # i

\* ... or, for a payment, any that it might settle.
MayPay(c) ==
    /\ "pay" \in Operations
    /\ OneAtATime => \A q \in Requests : OnRow(inflight[q]) => inflight[q].customer # c

Start(r, request) ==
    /\ inflight[r] = Idle
    /\ inflight' = [inflight EXCEPT ![r] = request]
    /\ UNCHANGED <<vars, unchecked>>

-----------------------------------------------------------------------------
(* First steps: the reads, and the checks on what was read. *)

ReadForCreate(r, c, items, total, pay, override) ==
    /\ "create" \in Operations
    /\ override \/ WithinLimit(c, total, balance[c])
    /\ Start(r, [op |-> "create", customer |-> c, items |-> items, total |-> total,
                 amount |-> pay, override |-> override])

ReadForConvert(r, i, pay) ==
    /\ MayChange("convert", i)
    /\ invoices[i].status = "proforma"
    /\ Start(r, [op |-> "convert", i |-> i, snap |-> invoices[i],
                 customer |-> invoices[i].customer, amount |-> pay])

ReadForUpdate(r, i, items, total) ==
    /\ MayChange("update", i)
    /\ invoices[i].status = "pending"
    /\ Start(r, [op |-> "update", i |-> i, snap |-> invoices[i],
                 customer |-> invoices[i].customer, items |-> items, total |-> total])

ReadForCancel(r, i) ==
    /\ MayChange("cancel", i)
    /\ invoices[i].status # "cancelled"
    /\ Start(r, [op |-> "cancel", i |-> i, snap |-> invoices[i],
                 customer |-> invoices[i].customer, amount |-> 0])

ReadForReverse(r, i, amount) ==
    /\ MayChange("reverse", i)
    /\ amount <= invoices[i].paid
    /\ Start(r, [op |-> "reverse", i |-> i, snap |-> invoices[i],
                 customer |-> invoices[i].customer, amount |-> amount])

-----------------------------------------------------------------------------
(* Second steps: the writes, computed from what was read. *)

Writes(q) ==
    \/ q.op = "create" /\ Sell(q.customer, q.items, q.total, q.amount)
    \/ q.op = "convert" /\ ConvertEffect(q.i, q.snap, q.amount)
    \/ q.op = "update" /\ UpdateEffect(q.i, q.snap, q.items, q.total)
    \/ q.op = "cancel" /\ CancelEffect(q.i, q.snap)
    \/ q.op = "reverse" /\ ReverseEffect(q.i, q.snap, q.amount)

Raised == {c \in Customers : balance'[c] > balance[c]}
HeldToLimit(q) == q.op = "create" /\ ~q.override

CommitRequest(r) ==
    /\ inflight[r] # Idle
    /\ Writes(inflight[r])
    /\ inflight' = [inflight EXCEPT ![r] = Idle]
    /\ unchecked' = IF HeldToLimit(inflight[r]) THEN unchecked ELSE unchecked \cup Raised

\* Mutants: no transaction around the writes, so that the stock a failed request
\* had already moved stays moved; a failed request leaves its snapshot behind.
AbortKeepsStock(r) ==
    /\ inflight[r] # Idle
    /\ inflight' = [inflight EXCEPT ![r] = Idle]
    /\ stock' = IF inflight[r].op = "create" THEN Take(stock, inflight[r].items) ELSE stock
    /\ UNCHANGED <<invoices, balance, totalPurchases, totalPayments, received, reopened, unchecked>>

AbortKeepsSnapshot(r) ==
    /\ inflight[r] # Idle
    /\ inflight' = [inflight EXCEPT ![r].op = "none"]
    /\ UNCHANGED <<vars, unchecked>>

\* A failed statement, a deadlock victim, a lost connection: no effect.
AbortRequest(r) ==
    /\ inflight[r] # Idle
    /\ inflight' = [inflight EXCEPT ![r] = Idle]
    /\ UNCHANGED <<vars, unchecked>>

-----------------------------------------------------------------------------
(* Requests of one step. *)

OneStep ==
    /\ \E c \in Customers :
          \/ /\ "confirm" \in Operations
             /\ \E items \in Baskets, total \in Totals : ConfirmInvoice(c, items, total, 0)
          \/ /\ "proforma" \in Operations
             /\ \E items \in Baskets, total \in Totals : CreateProforma(c, items, total)
          \/ /\ MayPay(c)
             /\ \E amount \in Amounts : RecordPayment(c, amount)
          \/ /\ "credit" \in Operations
             /\ \E amount \in Amounts : AddCredit(c, amount)
    /\ unchecked' = unchecked \cup Raised
    /\ UNCHANGED inflight

ReadStep(r) ==
    \/ \E c \in Customers, items \in Baskets, total \in Totals, pay \in Amounts \cup {0},
          override \in Overrides : ReadForCreate(r, c, items, total, pay, override)
    \/ \E i \in Ids :
          \/ \E pay \in Amounts \cup {0} : ReadForConvert(r, i, pay)
          \/ \E items \in Baskets, total \in Totals : ReadForUpdate(r, i, items, total)
          \/ ReadForCancel(r, i)
          \/ \E amount \in Amounts : ReadForReverse(r, i, amount)

ConcurrentNext ==
    /\ \/ OneStep
       \/ \E r \in Requests : ReadStep(r) \/ CommitRequest(r) \/ AbortRequest(r)
    /\ WithinBounds'

ConcurrentSpec == ConcurrentInit /\ [][ConcurrentNext]_allVars

-----------------------------------------------------------------------------

\* The concurrent program implements the one of Billing: every commit is a
\* Billing request made at the moment of the commit, and reads are stutters.
ImplementsBilling == Spec

LargestTotal == CHOOSE most \in Totals : \A total \in Totals : total <= most

\* What the sales to c that have passed the check may still add to its balance.
Passed(c) ==
    MapThenSumSet(LAMBDA r : inflight[r].total,
                  {r \in Requests : HeldToLimit(inflight[r]) /\ inflight[r].customer = c})

\* "Block new sales if customer exceeds credit limit": the balance is checked in one
\* step and raised in another, so sales that overlap may pass the limit together, but
\* never by more than the other requests in flight can sell.  It does not add up over
\* rounds of such sales, whatever is paid, cancelled or aborted in between.
CreditExposure ==
    \A c \in Customers \ unchecked :
        CreditLimit[c] > 0 =>
            balance[c] + Passed(c) <= CreditLimit[c] + (Cardinality(Requests) - 1) * LargestTotal
=============================================================================
