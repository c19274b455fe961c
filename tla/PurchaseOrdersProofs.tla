------------------------ MODULE PurchaseOrdersProofs ------------------------
(***************************************************************************)
(* Proofs about PurchaseOrders, for any lines, requests and quantities:    *)
(* stock follows the receipts, whatever overlaps; a line is exceeded only  *)
(* by receipts that overlap or that name it more than once; and where      *)
(* edits are made alone, an order shown as received is complete.           *)
(***************************************************************************)
EXTENDS PurchaseOrders, TLAPS

\* What is in flight with op "receive" is a receipt.
LEMMA IsReceipt ==
    ASSUME TypeOK, NEW r \in Requests, inflight[r].op = "receive"
    PROVE  inflight[r] \in Receipt
BY DEF TypeOK, Request, Idle

\* The fields of a receipt.
LEMMA ReceiptFields ==
    ASSUME NEW q \in Receipt
    PROVE  /\ q.op = "receive" /\ q.step \in {"read", "applied", "decided"}
           /\ q.again \in SUBSET Lines /\ q.qty \in [Lines -> Nat] /\ q.seen \in [Lines -> Nat]
           /\ q.edition \in Nat /\ q.status \in Status
           /\ \A i \in Lines : q.qty[i] \in Nat /\ q.seen[i] \in Nat
BY PurchaseOrdersAssumption DEF Receipt

\* What a receipt may add to a line is never negative, and fits what the line, as it
\* is now, has room for if the receipt names it once.
LEMMA AddableFits ==
    ASSUME TypeOK, NEW i \in Lines, NEW n \in Nat, NEW d \in Addable(i, n)
    PROVE  /\ d \in Nat
           /\ n <= 1 /\ d > 0 => received[i] + d <= quantity[i]
<1>1. quantity[i] \in Nat /\ received[i] \in Nat
    BY DEF TypeOK
<1>2. CASE Open(i) <= 0
    BY <1>2 DEF Addable
<1>3. CASE ~(Open(i) <= 0)
    <2>1. n * Open(i) \in Int /\ d \in 0 .. n * Open(i)
        BY <1>1, <1>3 DEF Addable, Open
    <2>2. n <= 1 => n * Open(i) <= Open(i)
        <3>1. n <= 1 => n = 0 \/ n = 1
            OBVIOUS
        <3> QED
            BY <1>1, <1>3, <3>1 DEF Open
    <2> QED
        BY <1>1, <2>1, <2>2 DEF Open
<1> QED
    BY <1>2, <1>3

\* A receipt that has read is one, and fits the lines as they are now.
LEMMA ReadIsReceipt ==
    ASSUME TypeOK, NEW r \in Requests, NEW named \in [Lines -> 0 .. MaxNamed],
           ReadForReceive(r, named)
    PROVE  \E q \in Receipt :
              /\ inflight' = [inflight EXCEPT ![r] = q]
              /\ q.step = "read" /\ q.op = "receive" /\ Fits(q)
<1>1. PICK qty \in [Lines -> UNION {Addable(i, named[i]) : i \in Lines}] :
          /\ \A i \in Lines : qty[i] \in Addable(i, named[i])
          /\ Start(r, [op |-> "receive", step |-> "read",
                       again |-> {i \in Lines : named[i] > 1 /\ qty[i] > 0},
                       qty |-> qty, seen |-> [i \in Lines |-> IF qty[i] > 0 THEN received[i] ELSE 0],
                       edition |-> edition, status |-> "none"])
    BY DEF ReadForReceive
<1>2. \A i \in Lines : named[i] \in Nat
    BY PurchaseOrdersAssumption
<1>3. \A i \in Lines :
          qty[i] \in Nat /\ (named[i] <= 1 /\ qty[i] > 0 => received[i] + qty[i] <= quantity[i])
    BY <1>1, <1>2, AddableFits
<1>4. qty \in [Lines -> Nat]
    BY <1>3
<1>5. received \in [Lines -> Nat] /\ edition \in 0 .. MaxEdits /\ edition \in Nat
    BY PurchaseOrdersAssumption DEF TypeOK
<1> DEFINE seen == [i \in Lines |-> IF qty[i] > 0 THEN received[i] ELSE 0]
<1> DEFINE q == [op |-> "receive", step |-> "read",
                 again |-> {i \in Lines : named[i] > 1 /\ qty[i] > 0},
                 qty |-> qty, seen |-> seen, edition |-> edition, status |-> "none"]
<1>6. seen \in [Lines -> Nat]
    BY <1>5
<1>7. q \in Receipt
    BY <1>4, <1>5, <1>6 DEF Receipt, Status
<1>8. Fits(q)
    BY <1>2, <1>3, <1>5 DEF Fits
<1>9. inflight' = [inflight EXCEPT ![r] = q]
    BY <1>1 DEF Start
<1> QED
    BY <1>7, <1>8, <1>9

\* The status a receipt decides on is one.
LEMMA NewStatusIsStatus ==
    ASSUME TypeOK, NEW q, status # "none"
    PROVE  NewStatus(q) \in Status \ {"none"}
BY DEF TypeOK, NewStatus, Status

\* The initial state satisfies the inductive invariant.
LEMMA InitPurchaseInv == Init => PurchaseInv
BY PurchaseOrdersAssumption
   DEF Init, PurchaseInv, TypeOK, Status, Request, Idle, StockFollowsReceipts,
       ReceiptsFit, NoneIsQuiet, Quiet

\* While a request is in flight, the order exists.
LEMMA InFlightExists ==
    ASSUME PurchaseInv, NEW r \in Requests, inflight[r] # Idle
    PROVE  status # "none"
BY DEF PurchaseInv, NoneIsQuiet, Quiet

\* A request that ends, leaving all rows but the order's status alone, preserves
\* the invariant.
LEMMA FinishInv ==
    ASSUME PurchaseInv, NEW r \in Requests, Finish(r),
           UNCHANGED <<quantity, received, edition, stock>>,
           status' \in Status \ {"none"}
    PROVE  PurchaseInv'
<1>1. inflight' \in [Requests -> Request]
    BY DEF PurchaseInv, TypeOK, Finish, Request
<1>2. \A x \in Requests : inflight'[x].op = "receive" => inflight'[x] = inflight[x]
    BY DEF PurchaseInv, TypeOK, Finish, Idle
<1>3. ReceiptsFit'
    BY <1>2 DEF PurchaseInv, ReceiptsFit, Fits, Empty
<1> QED
    BY <1>1, <1>3 DEF PurchaseInv, TypeOK, StockFollowsReceipts, NoneIsQuiet

\* A request that goes on without writing preserves the invariant.
LEMMA StepInv ==
    ASSUME PurchaseInv, NEW r \in Requests, NEW q \in Request,
           inflight' = [inflight EXCEPT ![r] = q],
           UNCHANGED <<status, quantity, received, edition, stock>>, status # "none",
           q.op = "receive" => Fits(q)
    PROVE  PurchaseInv'
<1>1. inflight' \in [Requests -> Request]
    BY DEF PurchaseInv, TypeOK
<1>2. \A x \in Requests : inflight'[x] = q \/ inflight'[x] = inflight[x]
    BY DEF PurchaseInv, TypeOK
<1>3. \A x \in Requests : inflight'[x].op = "receive" => Fits(inflight'[x])
    BY <1>2 DEF PurchaseInv, ReceiptsFit
<1>4. ReceiptsFit'
    BY <1>3 DEF ReceiptsFit, Fits
<1> QED
    BY <1>1, <1>4 DEF PurchaseInv, TypeOK, StockFollowsReceipts, NoneIsQuiet

\* The reads, the increments and the choice of a status preserve the invariant.
LEMMA ReceiveInv ==
    ASSUME PurchaseInv, NEW r \in Requests,
           \/ \E named \in [Lines -> 0 .. MaxNamed] : ReadForReceive(r, named)
           \/ ApplyReceipts(r) \/ DecideStatus(r)
    PROVE  PurchaseInv'
<1>0. TypeOK /\ status # "none"
    BY InFlightExists DEF PurchaseInv, ReadForReceive, Start, ApplyReceipts, DecideStatus, Idle
<1>1. CASE \E named \in [Lines -> 0 .. MaxNamed] : ReadForReceive(r, named)
    BY <1>0, <1>1, ReadIsReceipt, StepInv DEF ReadForReceive, Start, Request
<1>2. CASE ApplyReceipts(r)
    <2> DEFINE p == inflight[r]
    <2> DEFINE q == [p EXCEPT !.step = "applied"]
    <2>1. p \in Receipt /\ Fits(p) /\ (Empty(p) \/ p.edition = edition)
        BY <1>0, <1>2, IsReceipt DEF ApplyReceipts, PurchaseInv, ReceiptsFit
    <2>2. /\ q \in Receipt /\ q.again = p.again /\ q.qty = p.qty /\ q.seen = p.seen
          /\ q.edition = p.edition
        BY <2>1 DEF Receipt
    <2>5. q.step = "applied"
        BY <2>1 DEF Receipt
    <2>3. inflight' = [inflight EXCEPT ![r] = q]
        BY <1>2 DEF ApplyReceipts
    <2> HIDE DEF p, q
    <2>4. Fits(q)
        BY <2>1, <2>2, <2>5 DEF Fits, Empty
    <2> QED
        BY <1>0, <1>2, <2>2, <2>3, <2>4, StepInv DEF ApplyReceipts, Request
<1>3. CASE DecideStatus(r)
    <2> DEFINE p == inflight[r]
    <2> DEFINE q == [p EXCEPT !.step = "decided", !.status = NewStatus(p)]
    <2>1. p \in Receipt /\ Fits(p) /\ p.step = "applied"
        BY <1>0, <1>3, IsReceipt DEF DecideStatus, PurchaseInv, ReceiptsFit
    <2>2. /\ q \in Receipt /\ q.again = p.again /\ q.qty = p.qty /\ q.seen = p.seen
          /\ q.edition = p.edition
        BY <1>0, <2>1, NewStatusIsStatus DEF Receipt
    <2>5. q.status # "none"
        BY <1>0, <2>1, NewStatusIsStatus DEF Receipt
    <2>3. inflight' = [inflight EXCEPT ![r] = q]
        BY <1>3 DEF DecideStatus
    <2> HIDE DEF p, q
    <2>4. Fits(q)
        BY <2>1, <2>2, <2>5 DEF Fits, Empty
    <2> QED
        BY <1>0, <1>3, <2>2, <2>3, <2>4, StepInv DEF DecideStatus, Request
<1> QED
    BY <1>1, <1>2, <1>3

\* The commit of a receipt raises lines and stock alike.
LEMMA CommitInv ==
    ASSUME PurchaseInv, NEW r \in Requests, CommitReceipt(r)
    PROVE  PurchaseInv'
<1> DEFINE q == inflight[r]
<1>1. q \in Receipt
    BY IsReceipt DEF CommitReceipt, PurchaseInv
<1>2. /\ q.status \in Status \ {"none"}
      /\ \A i \in Lines : q.qty[i] \in Nat
    BY <1>1, ReceiptFields DEF CommitReceipt, PurchaseInv, ReceiptsFit, Fits
<1>3. /\ status' = q.status
      /\ received' = [i \in Lines |-> received[i] + q.qty[i]]
      /\ stock' = [i \in Lines |-> stock[i] + q.qty[i]]
      /\ Finish(r) /\ UNCHANGED <<quantity, edition>>
    BY DEF CommitReceipt
<1> HIDE DEF q
<1>4. received' \in [Lines -> Nat] /\ stock' \in [Lines -> Nat]
    BY <1>2, <1>3 DEF PurchaseInv, TypeOK
<1>5. StockFollowsReceipts'
    BY <1>2, <1>3, PurchaseOrdersAssumption DEF PurchaseInv, TypeOK, StockFollowsReceipts
<1>6. inflight' \in [Requests -> Request]
    BY <1>3 DEF PurchaseInv, TypeOK, Finish, Request
<1>7. \A x \in Requests : inflight'[x].op = "receive" => inflight'[x] = inflight[x]
    BY <1>3 DEF PurchaseInv, TypeOK, Finish, Idle
<1>8. ReceiptsFit'
    BY <1>3, <1>7 DEF PurchaseInv, ReceiptsFit, Fits, Empty
<1> QED
    BY <1>2, <1>3, <1>4, <1>5, <1>6, <1>8 DEF PurchaseInv, TypeOK, NoneIsQuiet

\* New lines find only receipts in flight that have locked nothing: they are of
\* an older edition, and those that would add something will fail.
LEMMA ReplaceInv ==
    ASSUME PurchaseInv, NEW r \in Requests, NEW s \in Entry \cup {status}, NEW q \in Orders,
           ReplaceLines(r, q, s)
    PROVE  PurchaseInv'
<1>1. /\ edition \in Nat /\ edition' = edition + 1 /\ edition < MaxEdits
      /\ quantity' = q /\ received' = [i \in Lines |-> 0] /\ stock' = stock /\ status' = s
    BY PurchaseOrdersAssumption DEF ReplaceLines, PurchaseInv, TypeOK
<1>2. TypeOK'
    <2>1. status' \in Status
        BY <1>1 DEF PurchaseInv, TypeOK, Entry, Status
    <2>2. inflight' \in [Requests -> Request]
        BY DEF ReplaceLines, Finish, PurchaseInv, TypeOK, Request
    <2> QED
        BY <1>1, <2>1, <2>2, PurchaseOrdersAssumption DEF PurchaseInv, TypeOK
<1>3. StockFollowsReceipts'
    BY <1>1 DEF PurchaseInv, TypeOK, StockFollowsReceipts
<1>4. ASSUME NEW x \in Requests, inflight'[x].op = "receive"
      PROVE  Fits(inflight[x])'
    <2>1. inflight'[x] = inflight[x]
        BY <1>4 DEF ReplaceLines, Finish, PurchaseInv, TypeOK, Idle
    <2>2. inflight[x] \in Receipt /\ Fits(inflight[x])
        BY <1>4, <2>1, IsReceipt DEF PurchaseInv, ReceiptsFit
    <2>3. inflight[x].step = "read" \/ Empty(inflight[x])
        <3>1. \A i \in Lines : ~Touches(inflight[x], i)
            BY DEF ReplaceLines, Locked
        <3>2. \A i \in Lines : inflight[x].qty[i] \in Nat
            BY <2>2, ReceiptFields
        <3> QED
            BY <2>2, <3>1, <3>2, ReceiptFields DEF Touches, Empty
    <2>4. inflight[x].edition \in Nat /\ inflight[x].edition <= edition
        BY <2>2, ReceiptFields DEF Fits
    <2> QED
        BY <1>1, <2>1, <2>2, <2>3, <2>4 DEF Fits, Empty
<1>5. status' # "none"
    BY <1>1, InFlightExists DEF ReplaceLines, Idle, Entry
<1> QED
    BY <1>2, <1>3, <1>4, <1>5 DEF PurchaseInv, ReceiptsFit, NoneIsQuiet

\* Edits and cancellations preserve the invariant.
LEMMA ChangeInv ==
    ASSUME PurchaseInv, NEW r \in Requests,
           Update(r) \/ ReadForCancel(r) \/ WriteCancel(r) \/ Fail(r)
    PROVE  PurchaseInv'
<1>1. CASE ReadForUpdate(r)
    BY <1>1, StepInv DEF ReadForUpdate, Start, Request
<1>2. CASE \E s \in Entry \cup {status} : UpdateStatus(r, s)
    <2>1. status # "none" /\ status \in Status
        BY <1>2, InFlightExists DEF UpdateStatus, Idle, PurchaseInv, TypeOK
    <2> QED
        BY <1>2, <2>1, FinishInv DEF UpdateStatus, Entry, Status
<1>3. CASE \E s \in Entry \cup {status}, q \in Orders : ReplaceLines(r, q, s)
    BY <1>3, ReplaceInv
<1>4. CASE ReadForCancel(r)
    BY <1>4, StepInv DEF ReadForCancel, Start, Request
<1>5. CASE WriteCancel(r)
    BY <1>5, FinishInv DEF WriteCancel, Status
<1>6. CASE Fail(r)
    BY <1>6, FinishInv, InFlightExists DEF Fail, PurchaseInv, TypeOK
<1> QED
    BY <1>1, <1>2, <1>3, <1>4, <1>5, <1>6 DEF Update

\* Every step preserves the invariant.
LEMMA NextPurchaseInv == PurchaseInv /\ [Next]_vars => PurchaseInv'
<1> SUFFICES ASSUME PurchaseInv, [Next]_vars PROVE PurchaseInv'
    OBVIOUS
<1>1. ASSUME NEW q \in Orders, NEW s \in Entry, CreatePurchaseOrder(q, s)
      PROVE  PurchaseInv'
    <2>1. \A x \in Requests : inflight[x] = Idle
        BY <1>1 DEF CreatePurchaseOrder, PurchaseInv, NoneIsQuiet, Quiet
    <2> QED
        BY <1>1, <2>1, PurchaseOrdersAssumption
           DEF CreatePurchaseOrder, PurchaseInv, TypeOK, Entry, Status,
               StockFollowsReceipts, ReceiptsFit, Idle, NoneIsQuiet
<1>2. ASSUME NEW r \in Requests, Receive(r) PROVE PurchaseInv'
    BY <1>2, ReceiveInv, CommitInv DEF Receive
<1>3. CASE UNCHANGED vars
    BY <1>3 DEF vars, PurchaseInv, TypeOK, StockFollowsReceipts, ReceiptsFit, Fits, Empty,
                NoneIsQuiet, Quiet
<1> QED
    BY <1>1, <1>2, <1>3, ChangeInv DEF Next

\* The invariant holds of every behaviour.
THEOREM PurchaseInvariant == Spec => []PurchaseInv
BY InitPurchaseInv, NextPurchaseInv, PTL DEF Spec

\* Type correctness, for any lines, requests and quantities: what a receipt adds
\* to a line is never negative.
THEOREM PurchaseTypeOK == Spec => []TypeOK
<1>1. PurchaseInv => TypeOK
    BY DEF PurchaseInv
<1> QED
    BY <1>1, PurchaseInvariant, PTL

\* Stock and lines move together through receivePurchaseOrder and the edits, for any
\* lines and requests.
THEOREM StockFollowsAlways == Spec => []StockFollowsReceipts
<1>1. PurchaseInv => StockFollowsReceipts
    BY DEF PurchaseInv
<1> QED
    BY <1>1, PurchaseInvariant, PTL

\* A line is exceeded only by a receipt whose read another commit has made stale or
\* that names the line more than once, however many requests there are.
THEOREM OnlyOverlapOrRepeatExceedsAlways == Spec => OnlyOverlapOrRepeatExceeds
<1>1. ASSUME PurchaseInv, Next, NEW r \in Requests, NEW i \in Lines,
             inflight[r].op = "receive", inflight'[r] = Idle,
             i \notin inflight[r].again,
             received'[i] > received[i], inflight[r].seen[i] = received[i]
      PROVE  received'[i] <= quantity[i]
    <2>1. inflight[r] \in Receipt /\ Fits(inflight[r])
        BY <1>1, IsReceipt DEF PurchaseInv, ReceiptsFit
    <2>2. received[i] \in Nat /\ \A x \in Requests : inflight[x] \in Request
        BY <1>1 DEF PurchaseInv, TypeOK
    <2>3. PICK x \in Requests : CommitReceipt(x)
        <3>1. ASSUME NEW x \in Requests, NEW q \in Orders, NEW s, ReplaceLines(x, q, s)
              PROVE  FALSE
            BY <1>1, <2>2, <3>1 DEF ReplaceLines
        <3>2. ASSUME UNCHANGED received
              PROVE  FALSE
            BY <1>1, <2>2, <3>2
        <3> QED
            BY <1>1, <3>1, <3>2
               DEF Next, Receive, Update, CreatePurchaseOrder, ReadForReceive, ApplyReceipts,
                   DecideStatus, ReadForUpdate, UpdateStatus, ReadForCancel, WriteCancel,
                   Fail, Start
    <2>4. x = r
        BY <1>1, <2>2, <2>3 DEF CommitReceipt, Finish, Idle, PurchaseInv, TypeOK
    <2>5. received' = [k \in Lines |-> received[k] + inflight[r].qty[k]]
        BY <2>3, <2>4 DEF CommitReceipt
    <2>6. inflight[r].qty[i] > 0 /\ inflight[r].qty[i] \in Nat
        BY <1>1, <2>1, <2>2, <2>5, ReceiptFields
    <2>7. inflight[r].edition = edition
        BY <2>1, <2>3, <2>4, <2>6 DEF CommitReceipt, Fits, Empty
    <2> QED
        BY <1>1, <2>1, <2>5, <2>6, <2>7 DEF Fits
<1>2. PurchaseInv /\ [Next]_vars =>
          [\A r \in Requests, i \in Lines :
              /\ inflight[r].op = "receive" /\ inflight'[r] = Idle /\ i \notin inflight[r].again
              /\ received'[i] > received[i] /\ inflight[r].seen[i] = received[i]
              => received'[i] <= quantity[i]]_vars
    BY <1>1
<1> QED
    BY <1>2, PurchaseInvariant, PTL DEF Spec, OnlyOverlapOrRepeatExceeds

-----------------------------------------------------------------------------
(* Where edits are made alone, an order shown as received is complete. *)

\* The initial state satisfies the stronger invariant.
LEMMA InitCompletionInv == Init => CompletionInv
BY DEF Init, CompletionInv, ReceivedIsComplete, ReceiptsComplete, EditIsAlone, Editing, Idle

\* A step that moves no line and starts no edit keeps the invariant, if the receipt
\* it leaves in flight and the status it writes are right.
LEMMA SameLinesInv ==
    ASSUME PurchaseInv, CompletionInv, NEW r \in Requests, NEW q \in Request,
           inflight' = [inflight EXCEPT ![r] = q],
           UNCHANGED <<quantity, received>>,
           status' = "received" => ReceivedIsComplete',
           q.op = "receive" => Completes(q),
           q # Idle => inflight[r].op = "receive" \/ ~Editing,
           q.op = "update" => Quiet /\ status' # "received",
           status' = "received" => ~Editing \/ status = "received"
    PROVE  CompletionInv'
<1>1. \A x \in Requests : x # r => inflight'[x] = inflight[x]
    BY DEF PurchaseInv, TypeOK
<1>2. inflight'[r] = q
    BY DEF PurchaseInv, TypeOK
<1>3. \A x \in Requests : inflight'[x].op = "receive" => Completes(inflight'[x])
    BY <1>1, <1>2 DEF CompletionInv, ReceiptsComplete
<1>4. ReceiptsComplete'
    BY <1>3 DEF ReceiptsComplete, Completes, Full
<1>5. EditIsAlone'
    <2>1. \A x \in Requests : x # r /\ inflight'[r] # Idle => inflight[x].op # "update"
        BY <1>2 DEF CompletionInv, EditIsAlone, Editing, Idle
    <2>2. \A x \in Requests : q.op = "update" => inflight[x] = Idle
        BY DEF Quiet
    <2>3. \A x, y \in Requests : inflight'[x].op = "update" /\ y # x => inflight'[y] = Idle
        BY <1>1, <1>2, <2>1, <2>2 DEF CompletionInv, EditIsAlone
    <2>4. Editing' => status' # "received"
        BY <1>1, <1>2 DEF CompletionInv, EditIsAlone, Editing
    <2> QED
        BY <2>3, <2>4 DEF EditIsAlone
<1> QED
    BY <1>4, <1>5 DEF CompletionInv, ReceivedIsComplete

\* A committed receipt completes the order if it says so, and leaves every other
\* receipt as complete as it was: lines only grow.
LEMMA CommitCompletes ==
    ASSUME PurchaseInv, CompletionInv, NEW r \in Requests, CommitReceipt(r)
    PROVE  CompletionInv'
<1> DEFINE q == inflight[r]
<1>1. q \in Receipt /\ Completes(q) /\ q.step = "decided"
    BY IsReceipt DEF CommitReceipt, PurchaseInv, CompletionInv, ReceiptsComplete
<1>2. /\ status' = q.status /\ quantity' = quantity
      /\ \A i \in Lines : received'[i] = received[i] + q.qty[i]
    BY DEF CommitReceipt
<1>3. /\ \A i \in Lines : received[i] \in Nat /\ q.qty[i] \in Nat /\ quantity[i] \in Nat
    BY <1>1, ReceiptFields DEF PurchaseInv, TypeOK
<1>4. \A x \in Requests : inflight'[x] = Idle \/ inflight'[x] = inflight[x]
    BY DEF CommitReceipt, Finish, PurchaseInv, TypeOK
<1> HIDE DEF q
<1>5. ReceivedIsComplete'
    BY <1>1, <1>2, <1>3 DEF ReceivedIsComplete, Completes, Full
<1>6. ASSUME NEW x \in Requests, inflight'[x].op = "receive"
      PROVE  Completes(inflight[x])'
    <2>1. inflight'[x] = inflight[x]
        BY <1>4, <1>6 DEF Idle
    <2>2. inflight[x] \in Receipt /\ Completes(inflight[x])
        BY <1>6, <2>1, IsReceipt DEF PurchaseInv, CompletionInv, ReceiptsComplete
    <2> QED
        BY <1>2, <1>3, <2>1, <2>2, ReceiptFields DEF Completes, Full
<1>7. EditIsAlone'
    <2>1. ~Editing
        BY <1>1, ReceiptFields DEF q, CompletionInv, EditIsAlone, Editing, Idle
    <2> QED
        BY <1>4, <2>1 DEF EditIsAlone, Editing, Idle
<1> QED
    BY <1>5, <1>6, <1>7 DEF CompletionInv, ReceiptsComplete

\* An edit that replaces the lines finds nothing else in flight, and leaves the order
\* with a status that is not "received".
LEMMA ReplaceCompletes ==
    ASSUME PurchaseInv, CompletionInv, NEW r \in Requests, NEW q \in Orders,
           NEW s \in Entry \cup {status}, ReplaceLines(r, q, s)
    PROVE  CompletionInv'
<1>1. \A x \in Requests : inflight'[x] = Idle
    BY DEF ReplaceLines, Finish, CompletionInv, EditIsAlone, PurchaseInv, TypeOK
<1>2. status' # "received"
    BY DEF ReplaceLines, Entry, CompletionInv, EditIsAlone, Editing
<1> QED
    BY <1>1, <1>2
       DEF CompletionInv, ReceivedIsComplete, ReceiptsComplete, EditIsAlone, Editing, Idle

\* Where edits are made alone, every step preserves the stronger invariant.
LEMMA NextCompletionInv ==
    ASSUME EditsAlone, PurchaseInv, CompletionInv, [Next]_vars
    PROVE  CompletionInv'
<1>0. TypeOK
    BY DEF PurchaseInv
<1>1. ASSUME NEW q \in Orders, NEW s \in Entry, CreatePurchaseOrder(q, s)
      PROVE  CompletionInv'
    <2>1. \A x \in Requests : inflight[x] = Idle
        BY <1>1 DEF CreatePurchaseOrder, PurchaseInv, NoneIsQuiet, Quiet
    <2> QED
        BY <1>1, <2>1
           DEF CreatePurchaseOrder, Entry, CompletionInv, ReceivedIsComplete, ReceiptsComplete,
               EditIsAlone, Editing, Idle
<1>2. ASSUME NEW r \in Requests, NEW named \in [Lines -> 0 .. MaxNamed],
             ReadForReceive(r, named)
      PROVE  CompletionInv'
    <2>1. PICK q \in Receipt : /\ inflight' = [inflight EXCEPT ![r] = q]
                               /\ q.step = "read" /\ q.op = "receive"
        BY <1>0, <1>2, ReadIsReceipt
    <2>2. Completes(q)
        BY <2>1 DEF Completes
    <2>3. UNCHANGED <<status, quantity, received>> /\ ~Editing
        BY <1>2 DEF ReadForReceive, Start
    <2> QED
        BY <2>1, <2>2, <2>3, SameLinesInv DEF Request, CompletionInv, ReceivedIsComplete, Idle
<1>3. ASSUME NEW r \in Requests, ApplyReceipts(r)
      PROVE  CompletionInv'
    <2> DEFINE q == [inflight[r] EXCEPT !.step = "applied"]
    <2>1. inflight[r] \in Receipt
        BY <1>0, <1>3, IsReceipt DEF ApplyReceipts
    <2>2. q \in Receipt /\ q.step = "applied" /\ q.op = "receive"
        BY <2>1 DEF Receipt
    <2>3. inflight' = [inflight EXCEPT ![r] = q]
        BY <1>3 DEF ApplyReceipts
    <2> HIDE DEF q
    <2>4. Completes(q)
        BY <2>2 DEF Completes
    <2> QED
        BY <1>3, <2>2, <2>3, <2>4, SameLinesInv
           DEF ApplyReceipts, Request, CompletionInv, ReceivedIsComplete
<1>4. ASSUME NEW r \in Requests, DecideStatus(r)
      PROVE  CompletionInv'
    <2> DEFINE p == inflight[r]
    <2> DEFINE q == [p EXCEPT !.step = "decided", !.status = NewStatus(p)]
    <2>1. p \in Receipt /\ status # "none"
        BY <1>0, <1>4, IsReceipt, InFlightExists DEF DecideStatus, Idle
    <2>2. /\ q \in Receipt /\ q.op = "receive" /\ q.qty = p.qty /\ q.status = NewStatus(p)
        BY <1>0, <2>1, NewStatusIsStatus DEF Receipt
    <2>3. inflight' = [inflight EXCEPT ![r] = q]
        BY <1>4 DEF DecideStatus
    <2>4. \A i \in Lines : received[i] \in Nat /\ p.qty[i] \in Nat /\ quantity[i] \in Nat
        BY <1>0, <2>1, ReceiptFields DEF TypeOK
    <2> HIDE DEF p, q
    <2>5. NewStatus(p) = "received" => \A i \in Lines : Full(p, i)
        BY <2>4 DEF NewStatus, CompletionInv, ReceivedIsComplete, Full
    <2>6. Completes(q)
        BY <2>2, <2>5 DEF Completes, Full
    <2>7. p.op = "receive"
        BY <1>4 DEF DecideStatus, p
    <2> QED
        BY <1>4, <2>2, <2>3, <2>6, <2>7, SameLinesInv
           DEF DecideStatus, Request, CompletionInv, ReceivedIsComplete, p
<1>5. ASSUME NEW r \in Requests, CommitReceipt(r)
      PROVE  CompletionInv'
    BY <1>5, CommitCompletes
<1>6. ASSUME NEW r \in Requests, Update(r)
      PROVE  CompletionInv'
    <2>1. CASE ReadForUpdate(r)
        BY <2>1, SameLinesInv
           DEF ReadForUpdate, Start, Request, CompletionInv, ReceivedIsComplete, Quiet, Editing,
               Idle
    <2>2. CASE \E s \in Entry \cup {status} : UpdateStatus(r, s)
        <3>1. status # "received"
            BY <2>2 DEF UpdateStatus, CompletionInv, EditIsAlone, Editing
        <3> QED
            BY <2>2, <3>1, SameLinesInv
               DEF UpdateStatus, Finish, Entry, Request, CompletionInv, ReceivedIsComplete, Idle
    <2>3. CASE \E s \in Entry \cup {status}, q \in Orders : ReplaceLines(r, q, s)
        BY <2>3, ReplaceCompletes
    <2> QED
        BY <1>6, <2>1, <2>2, <2>3 DEF Update
<1>7. ASSUME NEW r \in Requests, ReadForCancel(r)
      PROVE  CompletionInv'
    BY <1>7, SameLinesInv
       DEF ReadForCancel, Start, Request, CompletionInv, ReceivedIsComplete
<1>8. ASSUME NEW r \in Requests, WriteCancel(r) \/ Fail(r)
      PROVE  CompletionInv'
    BY <1>8, SameLinesInv
       DEF WriteCancel, Fail, Finish, Request, CompletionInv, ReceivedIsComplete, Idle
<1>9. CASE UNCHANGED vars
    BY <1>9 DEF vars, CompletionInv, ReceivedIsComplete, ReceiptsComplete, Completes, Full,
                EditIsAlone, Editing
<1> QED
    BY <1>1, <1>2, <1>3, <1>4, <1>5, <1>6, <1>7, <1>8, <1>9 DEF Next, Receive

\* If the shop edits an order only when nobody else uses it, what is shown as
\* received is complete, for any lines and requests.
THEOREM ReceivedIsCompleteAlways ==
    ASSUME EditsAlone
    PROVE  Spec => []ReceivedIsComplete
<1>1. PurchaseInv /\ CompletionInv /\ [Next]_vars => CompletionInv'
    BY NextCompletionInv
<1>2. CompletionInv => ReceivedIsComplete
    BY DEF CompletionInv
<1> QED
    BY <1>1, <1>2, InitCompletionInv, PurchaseInvariant, PTL DEF Spec
=============================================================================
