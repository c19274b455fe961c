--------------------------- MODULE PurchaseOrders ---------------------------
(***************************************************************************)
(* One purchase order: created, edited, received in parts, cancelled.      *)
(*                                                                         *)
(* Every request reads the order first and writes later, at PostgreSQL's   *)
(* READ COMMITTED and without locking what it read.  A receipt writes in a *)
(* transaction: it raises the lines it names and the stock of their        *)
(* products, which locks those rows, then reads the order again to compute *)
(* its status, then writes the status and commits.                         *)
(*                                                                         *)
(* Orders share nothing but product.stock, which all of them increment, so *)
(* one order with a product of its own on every line stands for any.       *)
(***************************************************************************)
EXTENDS Integers

CONSTANTS
    Lines,         \* the lines an order may have
    Requests,      \* requests in flight at once
    Orders,        \* what a client may order: the quantity of each line, 0 for none
    MaxNamed,      \* bound: how often a receipt names one line
    MaxEdits,      \* bound: the edits of a behaviour
    EditsAlone     \* does the shop edit an order only when nobody else uses it?

ASSUME PurchaseOrdersAssumption ==
    /\ Orders \subseteq [Lines -> Nat]
    /\ \A q \in Orders : \E i \in Lines : q[i] > 0
    /\ MaxNamed \in Nat \ {0}
    /\ MaxEdits \in Nat
    /\ EditsAlone \in BOOLEAN

VARIABLES
    status,      \* purchaseOrder.status, "none" before it is created
    quantity,    \* item.quantity by line; 0 is a line the order does not have
    received,    \* item.receivedQuantity by line
    edition,     \* how often the lines were replaced: an edit gives them new ids
    stock,       \* product.stock of the line's product, less what it was at first
    inflight     \* [Requests -> Idle or a request that has read]

vars == <<status, quantity, received, edition, stock, inflight>>

Status == {"none", "draft", "pending", "partial", "received", "cancelled"}

Idle == [op |-> "idle"]
(* A receipt: what it will add to each line, computed from the lines as read; what *)
(* it has seen as received on those it adds to, and which of them it names more    *)
(* than once; and, once decided, the status it will write.                         *)
Receipt == [op : {"receive"}, step : {"read", "applied", "decided"}, again : SUBSET Lines,
            qty : [Lines -> Nat], seen : [Lines -> Nat], edition : 0 .. MaxEdits, status : Status]
Request == {Idle} \cup [op : {"update", "cancel"}] \cup Receipt

\* Every row and request has the shape the schema and the service give it; a
\* receipt never takes anything off a line.
TypeOK ==
    /\ status \in Status
    /\ quantity \in [Lines -> Nat]
    /\ received \in [Lines -> Nat]
    /\ edition \in 0 .. MaxEdits
    /\ stock \in [Lines -> Nat]
    /\ inflight \in [Requests -> Request]

Init ==
    /\ status = "none"
    /\ quantity = [i \in Lines |-> 0]
    /\ received = [i \in Lines |-> 0]
    /\ edition = 0
    /\ stock = [i \in Lines |-> 0]
    /\ inflight = [r \in Requests |-> Idle]

-----------------------------------------------------------------------------

Editing == \E r \in Requests : inflight[r].op = "update"
Quiet == \A r \in Requests : inflight[r] = Idle

Start(r, request) ==
    /\ status # "none"
    /\ inflight[r] = Idle
    /\ inflight' = [inflight EXCEPT ![r] = request]
    /\ UNCHANGED <<status, quantity, received, edition, stock>>

Finish(r) == inflight' = [inflight EXCEPT ![r] = Idle]

CreatePurchaseOrder(q, s) ==
    /\ status = "none"
    /\ status' = s
    /\ quantity' = q
    /\ UNCHANGED <<received, edition, stock, inflight>>

-----------------------------------------------------------------------------
(* receivePurchaseOrder *)

Open(i) == quantity[i] - received[i]

\* Mutants: what has been received before is forgotten; a line with more received
\* than ordered is corrected.
AddableWhole(i, n) == 0 .. n * quantity[i]
AddableSigned(i, n) == IF Open(i) <= 0 THEN {n * Open(i)} ELSE 0 .. n * Open(i)

\* What n entries of a receipt may add to the line they name.  Each is capped by what
\* was open when the order was read, and none by the entries before it.
Addable(i, n) == IF Open(i) <= 0 THEN {0} ELSE 0 .. n * Open(i)

ReadForReceive(r, named) ==
    /\ status # "cancelled"
    /\ EditsAlone => ~Editing
    /\ \E qty \in [Lines -> UNION {Addable(i, named[i]) : i \in Lines}] :
          /\ \A i \in Lines : qty[i] \in Addable(i, named[i])
          /\ Start(r, [op |-> "receive", step |-> "read", again |-> {i \in Lines : named[i] > 1 /\ qty[i] > 0},
                       qty |-> qty, seen |-> [i \in Lines |-> IF qty[i] > 0 THEN received[i] ELSE 0],
                       edition |-> edition, status |-> "none"])

Touches(q, i) == q.op = "receive" /\ q.step # "read" /\ q.qty[i] > 0
Locked(i) == \E q \in Requests : Touches(inflight[q], i)
Empty(q) == \A i \in Lines : q.qty[i] = 0

\* The increments: wait for the lines another receipt has locked.  Lines that an
\* edit has replaced are not found, and the receipt fails (see Fail).
ApplyReceipts(r) ==
    LET q == inflight[r] IN
    /\ q.op = "receive" /\ q.step = "read"
    /\ Empty(q) \/ q.edition = edition
    /\ \A i \in Lines : q.qty[i] > 0 => ~Locked(i)
    /\ inflight' = [inflight EXCEPT ![r].step = "applied"]
    /\ UNCHANGED <<status, quantity, received, edition, stock>>

Full(q, i) == received[i] + q.qty[i] >= quantity[i]
Some(q, i) == received[i] + q.qty[i] > 0

\* Mutant: one full line makes the order received.
AnyFull(q) ==
    IF \E i \in Lines : quantity[i] > 0 /\ Full(q, i) THEN "received"
    ELSE IF \E i \in Lines : Some(q, i) THEN "partial" ELSE status

\* The status of the order as the transaction sees it: what is committed, with its
\* own increments.
NewStatus(q) ==
    IF \A i \in Lines : Full(q, i) THEN "received"
    ELSE IF \E i \in Lines : Some(q, i) THEN "partial" ELSE status

DecideStatus(r) ==
    /\ inflight[r].op = "receive" /\ inflight[r].step = "applied"
    /\ inflight' = [inflight EXCEPT ![r].step = "decided", ![r].status = NewStatus(inflight[r])]
    /\ UNCHANGED <<status, quantity, received, edition, stock>>

\* Mutant: the stock is set from the level that was read.
CommitAbsolute(r) ==
    LET q == inflight[r] IN
    /\ q.op = "receive" /\ q.step = "decided"
    /\ status' = q.status
    /\ received' = [i \in Lines |-> received[i] + q.qty[i]]
    /\ stock' = [i \in Lines |-> IF q.qty[i] > 0 THEN q.seen[i] + q.qty[i] ELSE stock[i]]
    /\ Finish(r)
    /\ UNCHANGED <<quantity, edition>>

\* The status overwrites whatever it is by now.
CommitReceipt(r) ==
    LET q == inflight[r] IN
    /\ q.op = "receive" /\ q.step = "decided"
    /\ status' = q.status
    /\ received' = [i \in Lines |-> received[i] + q.qty[i]]
    /\ stock' = [i \in Lines |-> stock[i] + q.qty[i]]
    /\ Finish(r)
    /\ UNCHANGED <<quantity, edition>>

\* A missing line, a failed statement (the failed upsert of a batch too: the
\* transaction accepts nothing after it), a deadlock, a crash: no effect.
Fail(r) ==
    /\ inflight[r] # Idle
    /\ Finish(r)
    /\ UNCHANGED <<status, quantity, received, edition, stock>>

-----------------------------------------------------------------------------
(* updatePurchaseOrder and cancelPurchaseOrder *)

ReadForUpdate(r) ==
    /\ status \notin {"received", "cancelled"}
    /\ EditsAlone => Quiet
    /\ Start(r, [op |-> "update"])

\* An edit that leaves the lines alone may set the status ...
UpdateStatus(r, s) ==
    /\ inflight[r].op = "update"
    /\ status' = s
    /\ Finish(r)
    /\ UNCHANGED <<quantity, received, edition, stock>>

\* ... and one that names lines replaces all of them by new ones, once no receipt
\* holds any; what was received on the old ones goes with them.
ReplaceLines(r, q, s) ==
    /\ edition < MaxEdits
    /\ inflight[r].op = "update"
    /\ \A i \in Lines : ~Locked(i)
    /\ status' = s
    /\ quantity' = q
    /\ received' = [i \in Lines |-> 0]
    /\ edition' = edition + 1
    /\ Finish(r)
    /\ UNCHANGED stock

ReadForCancel(r) ==
    /\ status # "received"
    /\ EditsAlone => ~Editing
    /\ Start(r, [op |-> "cancel"])

WriteCancel(r) ==
    /\ inflight[r].op = "cancel"
    /\ status' = "cancelled"
    /\ Finish(r)
    /\ UNCHANGED <<quantity, received, edition, stock>>

Entry == {"draft", "pending"}   \* the statuses the API lets a client set

Receive(r) ==
    \/ \E named \in [Lines -> 0 .. MaxNamed] : ReadForReceive(r, named)
    \/ ApplyReceipts(r) \/ DecideStatus(r) \/ CommitReceipt(r)

Update(r) ==
    \/ ReadForUpdate(r)
    \/ \E s \in Entry \cup {status} :
          UpdateStatus(r, s) \/ \E q \in Orders : ReplaceLines(r, q, s)

Next ==
    \/ \E q \in Orders, s \in Entry : CreatePurchaseOrder(q, s)
    \/ \E r \in Requests :
          Receive(r) \/ Update(r) \/ ReadForCancel(r) \/ WriteCancel(r) \/ Fail(r)

Spec == Init /\ [][Next]_vars

-----------------------------------------------------------------------------
(* What the receipts promise. *)

\* An order shown as received has all of every line, however receipts of parts
\* of it, failures and cancellations overlap: nothing is still to come.
ReceivedIsComplete ==
    status = "received" => \A i \in Lines : received[i] >= quantity[i]

\* Stock and lines move together: what is on the lines is in stock, and as long
\* as no edit has replaced the lines, nothing else is.
StockFollowsReceipts ==
    \A i \in Lines : received[i] <= stock[i] /\ (edition = 0 => received[i] = stock[i])

\* Every commit of a receipt leaves each line within its quantity, unless another
\* receipt for the line was committed after this one had read it, or this one names
\* the line more than once.
OnlyOverlapOrRepeatExceeds ==
    [][\A r \in Requests, i \in Lines :
          /\ inflight[r].op = "receive" /\ inflight'[r] = Idle /\ i \notin inflight[r].again
          /\ received'[i] > received[i] /\ inflight[r].seen[i] = received[i]
          => received'[i] <= quantity[i]]_vars

(* What makes them inductive.  A receipt in flight fits the lines it has read and *)
(* names once, as long as these are the lines; once it has locked one of them,    *)
(* they are.  A receipt that will mark the order received completes it.  An edit  *)
(* is alone.                                                                      *)
Fits(q) ==
    /\ q.step = "decided" => q.status # "none"
    /\ q.edition <= edition
    /\ q.edition = edition =>
          \A i \in Lines \ q.again : q.qty[i] > 0 => q.seen[i] + q.qty[i] <= quantity[i]
    /\ q.step # "read" /\ ~Empty(q) => q.edition = edition

Completes(q) ==
    q.step = "decided" /\ q.status = "received" => \A i \in Lines : Full(q, i)

ReceiptsFit == \A r \in Requests : inflight[r].op = "receive" => Fits(inflight[r])
ReceiptsComplete == \A r \in Requests : inflight[r].op = "receive" => Completes(inflight[r])
EditIsAlone ==
    /\ \A r, x \in Requests : inflight[r].op = "update" /\ x # r => inflight[x] = Idle
    /\ Editing => status # "received"

NoneIsQuiet == status = "none" => Quiet

PurchaseInv == TypeOK /\ StockFollowsReceipts /\ ReceiptsFit /\ NoneIsQuiet
CompletionInv == ReceivedIsComplete /\ ReceiptsComplete /\ EditIsAlone

\* "Cannot receive cancelled PO": no goods of a cancelled order reach the stock.
CancelledIsNotReceived ==
    [][status = "cancelled" => status' = "cancelled" /\ stock' = stock]_vars
=============================================================================
