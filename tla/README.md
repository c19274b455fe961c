# A verification project for Execora

Execora runs a shop's books: invoices, payments, stock, purchases, reminders, and a
voice assistant that drives all of them. Its server is TypeScript on Node.js, with
PostgreSQL (through Prisma), and BullMQ queues on Redis. This directory holds TLA+ models of the parts
of it whose order of steps matters, the TLC configurations that check them, and
theorems about them that TLAPS checks.

Paths below are relative to the repository; `M/` stands for `src/packages/modules/src/`.

## The system

### Components, their state and operations

| component | code | state | operations | modelled in |
| --- | --- | --- | --- | --- |
| invoice numbering | `M/sales/invoice.ts` | `invoice_counters`, one row per shop and financial year; the unique index on `invoices.invoice_no` | draw a number inside the transaction of an invoice | InvoiceCounter |
| invoicing | `M/sales/invoice.ts`, `M/modules/invoice/invoice.service.ts` | invoices and items, `product.stock`, `customer.balance`, `totalPurchases` | create, create a proforma, confirm (voice), convert, update, cancel | Billing, BillingConcurrent |
| payments and ledger | `M/accounting/payment.ts`, `M/accounting/ledger/ledger.service.ts` | payments, `invoice.paidAmount` and `status`, `customer.balance`, `totalPayments` | record, record mixed, settle, add credit, reverse | Billing, BillingConcurrent |
| reminders | `M/modules/reminder/reminder.service.ts`, `M/infra/reminder-ops.ts`, `M/workers.ts`, `src/packages/core/src/queue.ts` | reminder rows, delayed jobs in BullMQ | schedule, move, cancel; deliver, retry, give up, repeat | Reminders |
| purchase orders | `M/purchases/purchase/purchase-order.ts` | orders and lines, `product.stock` | create, update, receive, cancel | PurchaseOrders |
| voice session | `src/packages/api/src/ws/enhanced-handler.ts` | `session.pendingIntent`, the suspended handlers of transcripts | hear a transcript, understand, ask, execute | VoiceConfirmation |
| voice engine drafts | `M/modules/voice/engine/invoice.handler.ts`, `M/modules/voice/conversation.ts` | the shop's list of drafted bills and the context of each session, both values in Redis | draft, edit, select, confirm, cancel, cancel all | VoiceDrafts |
| drafts | `M/sales/pos/cart-session/draft.ts`, `src/packages/api/src/api/routes/draft.routes.ts` | draft rows | create, update, confirm, discard | Drafts |
| webhooks | `src/packages/api/src/api/routes/webhook.routes.ts` | webhook events, payments | a payment notice; delivery notices (not modelled) | UpiWebhook |
| bill scanning | `M/workers.ts`, `src/packages/api/src/api/routes/ai.routes.ts` | rows and jobs of photos, purchase orders, stock, product drafts | upload, read, enter the lines or the drafts, retry | OcrImport |
| web application | `src/apps/web/src/lib/offline-outbox.ts`, `src/apps/web/src/lib/api.ts` | the outbox in IndexedDB | send, queue, replay | WebOutbox |
| mobile application | `src/apps/mobile/src/lib/offlineQueue.ts`, `src/apps/mobile/src/shared/hooks/useOffline.ts`, `src/apps/mobile/src/features/billing/screens/BillingScreen.tsx` | the queue of bills on the phone | submit, queue, synchronise | MobileQueue |
| credit notes | `M/accounting/credit-notes/credit-note.ts` | credit notes | draft, issue, cancel, delete | not modelled |

`PROJECT.json` lists the rest (customers' records, catalogue, taxes and reports,
authentication, the screens of the clients, adapters of outside services) with the reason each is left
out: they are pure functions of the books, plain records, or input and output.

### How they interact

The web application, the mobile application and the voice engine, and the channels that
deliver to the books without a user in front of them (webhooks, drafts, scanned bills), call the same
functions, invoicing and payments, each of which runs one database transaction. Node.js
interleaves requests at every `await`, so what one request read before its transaction
may be stale when it writes. Invoicing, payments and receipts share two kinds of rows:
the customer's and the products'. They change those by increments, which PostgreSQL
serialises by row locks, but the checks before them (status, credit limit, paid amount,
received quantity) are on values read earlier. Reminders live in two stores, the
database and the queue, which no transaction spans. A voice session is state in memory,
touched by the handlers of several transcripts between their awaits.

Five channels hand work to the books over something that can fail: the outbox of the web
application, the queue of the mobile application, the notices of a payment provider, drafts
awaiting a confirmation, and photos in a job queue. Each marks an item as dealt with in one store after it took effect in
another, or in a second transaction. They share no state that matters to that.

### What is hard in it

`PROJECT.json` lists the hazards by line. The kinds that recur:

- *stale reads*: check first, write later, no lock in between (`invoice.ts:594`, `:786`,
  `:877`, `:1070`, `payment.ts:239`, `purchase-order.ts:167`, `:173`, `draft.ts:172`,
  `webhook.routes.ts:66`), and values loaded, changed and saved as a whole (`conversation.ts:553`);
- *two stores*: a row without its job, a job without its row (`reminder.service.ts:206`,
  `:334`);
- *retry after partial success*: sent but not marked (`workers.ts:144`), entered but not
  finished (`workers.ts:481`), executed but not answered (`offline-outbox.ts:145`), booked
  but not removed (`useOffline.ts:59`, `invoice.handler.ts:160`);
- *second deliveries that overlap*: two replays, two synchronisations, two notices
  (`offline-outbox.ts:145`, `useOffline.ts:74`, `webhook.routes.ts:66`);
- *progress*: one item that blocks those behind it, a photo nobody answers (`useOffline.ts:59`,
  `workers.ts:357`);
- *long sequences*: edits, payments, reversals and cancellations of one invoice
  (`invoice.ts:887`, `:1094`, `payment.ts:243`);
- *awaits in the middle of a dialogue* (`enhanced-handler.ts:590`, `:975`).

### What makes each component correct

- Numbering: no gap and no duplicate, whatever fails or overlaps.
- Invoicing and payments: stock is what was there less what live invoices hold; the
  balance is what live invoices lack, plus credit, less advances; the status of an
  invoice says how much of it is paid; payments settle oldest first and become an
  advance only when nothing is due; what is shown as paid was received.
- Concurrency: requests that do not write the same invoice behave as if each were
  atomic; overlapping sales pass the credit limit by no more than those in flight can sell.
- Reminders: what is pending is queued and in the end served; a job gives up only after
  its last attempt; no occurrence is sent more often than its attempts allow.
- Purchases: stock rises by what the lines show as received; an order shown as received
  is complete; only receipts of a line that overlap, or that name it twice, may exceed it.
- Voice: a risky command runs once and only after its own question was answered with yes; a
  drafted bill becomes one invoice.
- Channels: what is marked as done has taken effect, and once, unless its delivery was
  disturbed; a draft is booked as it is shown; a queued bill is booked, a queued photo answered.

## The modules

| module | what it is | proofs |
| --- | --- | --- |
| `InvoiceCounter` | requests of several shops inside the numbering transaction | `InvoiceCounterProofs` |
| `Billing` | every operation on invoices, payments, stock and balances, each in one step: what the API promises | `BillingProofs` (types, status), `BooksProofs` (stock, money, settlement) |
| `BillingConcurrent` | extends Billing: the same requests as a read and a commit, overlapping | `BillingProofs`, `BooksProofs` |
| `Reminders` | rows, jobs, the worker, exceptions and crashes | `RemindersProofs` |
| `PurchaseOrders` | one order, overlapping receipts, edits and cancellations | `PurchaseOrdersProofs` |
| `VoiceConfirmation` | the transcripts of one session and the pending command | `VoiceWorkProofs` |
| `VoiceDrafts` | the bills drafted by voice: one list, a context per session, overlapping turns | `VoiceWorkProofs` |
| `VoiceWork` | the two above | `VoiceWorkProofs` |
| `Delivery` | what a channel into the books promises: the abstract specification of the next five and of `VoiceDrafts` | in the module itself, for its instances to cite |
| `WebOutbox` | mutations of the web application, the outbox, its replays | `DeliveryChannelsProofs` |
| `MobileQueue` | bills of the mobile application, the queue, its synchronisations | `DeliveryChannelsProofs` |
| `UpiWebhook` | the notices of a payment provider | `DeliveryChannelsProofs` |
| `Drafts` | drafts and the requests that edit, confirm and discard them | `DeliveryChannelsProofs` |
| `OcrImport` | photos of bills and shelves, the job queue, the attempts of the worker | `DeliveryChannelsProofs` |
| `DeliveryChannels` | the five above | `DeliveryChannelsProofs` |

`VoiceWork` and `DeliveryChannels` put modules that share no variable beside each other: a behaviour chooses one of
them at its start (`part`, `channel`, which never change) and follows it. Interleaving them would multiply
the states and show nothing more.

Each `MC...` module gives a specification its finite values. Names follow the code:
an action is called after the function it models, with `ReadFor...`/`Write...` where a
function is split at its awaits. `PROJECT.json` maps every definition to its lines.
Definitions commented "Mutant:" stand next to the operator they distort; each is a
plausible slip in the code, and the property named for it in `PROJECT.json` is violated
when it takes the operator's place.

### InvoiceCounter

`counter[t][y]` is the row of `invoice_counters`, `owner` who holds its lock,
`GenerateInvoiceNo` the upsert (which waits for the lock), `InsertInvoice`, `Reject` and
`Commit` what follows in the transaction, `Fail` an exception anywhere in it, `Rollback` its undoing, `NewYear`
the first of April. `Reject` is the unique index: numbers do not name the shop but the index
spans all shops.

### Billing

`invoices` is the table in order of date; a row has customer, items, total, paid amount
and status. Taxes, discounts and rounding decide only which total a basket has, so a
request carries any total of `Totals`. Money is in whole units, and the comparisons with a
tolerance of a paisa become exact ones. The settlement loop (`payment.ts:50-78`) is not written as a loop:
`IsSettlementRun` says what a run of it is, a sequence of remaining amounts each made from
the one before, and `Settle` takes the one there is; that keeps the module free of
recursion. An edit may lower the total of an invoice and a reversal may follow a
cancellation: both are as in the code. `reopened` is history only, the cancelled invoices whose
payments were reversed; `StockConserved` and `KhataBalance` except them, because those
invoices are live again without their items (see the findings).

### BillingConcurrent

A request that decides on what it has read is two steps, `ReadFor...` and
`CommitRequest`; the second applies the effect of Billing to the rows as they are by then
with the snapshot taken by the first. One step for all the writes of a transaction is
enough: each update locks its row until the commit; two requests of one customer meet at the
customer's row, which all but the creation of a proforma update, and requests of different customers meet only at
products, which they change by increments that commute. Payments read the invoices they
settle after their increment has locked the customer, so they are one step. A deadlock that
PostgreSQL resolves by aborting one request is `AbortRequest`.

With `OneAtATime` clients keep two requests apart that write one invoice: none reads an invoice that another is about
to write (`MayChange`), and no payment is made while one of the customer's invoices is about to be written (`MayPay`). No code
enforces that. Sales, proformas and credit overlap with everything all the same, and requests on different invoices of one
customer with each other, so what a sale has read of the balance may be stale when it commits. The check of the credit limit
(`invoice.ts:594`) is such a read, and two sales that fit the limit each may exceed it together. `CreditExposure` says how far:
the balance and the sales that have passed the check (`Passed`) exceed the limit by at most one sale for every request in flight but one.
`unchecked` is history: customers whose balance something raised that the
code does not hold to the limit (a sale by voice, one that overrides it, a conversion, an edit, credit, the reversal of a payment); about
them the property says nothing.

### Reminders

A job is identified by reminder and time, as in the code. `job[j].step` says between which two
awaits of the worker's handler the job is; `Throws` is an exception there, `WorkerCrash` the end
of the worker's process, after which BullMQ takes a stalled job up once more. Time is slots; the
slot `Later` stands for every time after the bound, so a recurring reminder leaves the horizon rather than stopping.
Predictive reminders are rows no job is ever added for.

### PurchaseOrders

A receipt reads, computes what to add, raises the lines and the stock in a transaction (which
locks those lines), reads the order again, decides its status and commits. `edition` counts how often the lines
were replaced: their ids change, so a receipt that knows the old ones fails. One order is enough:
orders share nothing but stock, which they increment.

The route takes a list of entries and does not ask that they name different lines
(`src/packages/api/src/api/routes/purchase-order.routes.ts:197-212`). The loop caps each entry by what was open when the order was read, whatever the
entries before it added (`purchase-order.ts:170-176`), so a receipt that names a line `n` times may add up to `n` times what is open
(`Addable`), with no other request around. `again` are the lines for which that may be so. The web application's form names each line once
(`src/apps/web/src/pages/PurchaseOrders.tsx:513-518`). A receipt in flight keeps what it has seen (`seen`) of the lines it adds to only,
as nothing depends on the rest.

### VoiceConfirmation

A turn is a call of `processFinalTranscript`; its step is the await it stands at. What the language
model makes of a transcript, and whether the engine succeeds, is a choice; the engine is assumed to
fail without effect, as its operations are transactions. `risky`, `answer`, `lastAsked` and `runs`
are history about each command. The same sentence delivered twice is two turns.

### VoiceDrafts

The bills a shop has drafted by voice are one JSON value in Redis, `shopList`; the context of each session remembers
the draft it made, edited or chose last. A turn is one command; its steps are the awaits of the handler: `BookDraft` (the
invoice), `LoadDrafts` and `SaveDrafts` (the list as a whole, `conversation.ts:541-613`), `SetContext`. Drafts for one customer replace each
other (`Alike`). Failures of Redis are swallowed by the code and modelled as it does: a list that
cannot be loaded is empty (`LoadDrafts`), one that cannot be saved is lost (`SaveLost`). Lists and contexts expire.
`ConfirmDraft` does not look whether the draft is still in the list, nor does the code. A turn that saves over what others
saved since it loaded disturbs the drafts that differ.

### Delivery

The abstract specification has, for each item, where it is (`absent`, `offered` by a user who still waits, `held`
by the channel, `done`, `dropped`), how often it has taken effect, and whether its delivery was disturbed. A step moves each
item by one of a few moves; `done` is reached only with an effect, a second effect only if something disturbed the
delivery. What may disturb one is named in each channel, by a history variable that
nothing else reads: an answer lost after the effect, a process that stops between the effect and the note of it,
a second delivery that overlaps with the first. Without one of these each channel delivers exactly once, however
often it retries; with one the code may deliver twice, and no channel has a key that would prevent it.

### WebOutbox

`call[r]` is the fetch of `request()`; a network error queues the request (`AddToOutbox`), whether or not the server had
executed it. `StartReplay` is the `online` event in some tab: `replayOutbox` reads the list once and sends what it read,
also what another replay has removed since. A refused request stays (`NotSent`). The stored Authorization header
ages (`Expire`); nothing renews it, so such a request stays in the outbox.

### MobileQueue

`bill[b]` is the form, `queue` the bills in MMKV, `ahead` their order. Every NetInfo event that reports a connection starts
a synchronisation (`Connected`), whether or not one is running. It finds or makes the walk-in customer
for bills that need one (`SearchWalkIn`, `CreateWalkIn`), books (`BookQueued`), removes (`RemoveFromQueue`), and ends at the first error
(`SyncBreaks`). `AppEnds` ends the process; the queue survives.

### UpiWebhook

Each delivery of a notice is a request of its own: stored, checked against the payments (`CheckDuplicate`), recorded or not,
answered. The provider repeats what it has no answer to and may repeat what it has. A notice whose phone number matches no customer
is answered without a payment; `NoticeIsDelivered` is about the others.

### Drafts

A request reads the draft (`BeginUpdate`, `BeginConfirm`, `BeginDiscard`), a confirmation makes the
change (`ExecuteDraft`), and then the row is written without looking at its status again. Only an update and a confirmation
check that the draft is pending; a discard does not. `changes[d]` is what the draft said whenever it was carried out.

### OcrImport

`photo[p]` is the row the application polls, `job[p]` and `tries[p]` what the queue knows, `attempt[p].step` the await of the
handler an attempt stands at. A bill becomes an order whose lines, stock and movements are written one by one,
outside a transaction; a second attempt starts with a new order. A shelf becomes drafts of products, one per name that has none
waiting (`CheckPendingDraft`). `FailSilently` is a failure before the `try`, or in its `catch`; `WorkerStops` the
end of the process, after which the queue hands the stalled job out again.

## The runs

| run | module | result |
| --- | --- | --- |
| `counter_numbers` | MCInvoiceCounter | `Gapless`, `NumbersUnique`: 2 shops, 3 requests, 2 years, numbers up to 3 |
| `counter_clash` | MCInvoiceCounter | violation of `NumberIsFresh` |
| `billing_books` | MCBilling | all properties of Billing: 1 customer with a limit of 2, sales that override it, 1 product, 2 invoices, totals 0 and 2, amounts 1 and 2 |
| `billing_cancelled_final` | MCBilling | violation of `CancelledIsFinal` |
| `concurrent_disjoint` | MCBillingConcurrent | `ImplementsBilling`, `CreditExposure`, `ConcurrentTypeOK`, `StockConserved`, `PaidWasReceived`: 2 customers with a limit of 1, 1 product they share, 2 invoices of a total of 1, 2 requests of every operation |
| `concurrent_cancel` | MCBillingConcurrent | violation of `StockConserved` |
| `reminders_delivery` | MCReminders | safety and `PendingIsServed`: 1 reminder, 2 attempts, 1 move, 1 fault |
| `reminders_cancelled` | MCReminders | violation of `CancelledIsNotPicked` |
| `purchase_receipts` | MCPurchaseOrders | all properties of PurchaseOrders: 2 lines, 2 requests, orders of up to 2 units, up to 2 entries for a line, 1 edit |
| `purchase_cancelled` | MCPurchaseOrders | violation of `CancelledIsNotReceived` |
| `voice_work` | MCVoiceWork | all properties of VoiceConfirmation and VoiceDrafts: 5 transcripts; 3 drafts of 2 customers, 2 sessions, 2 turns at once, 4 commands, 1 failure |
| `delivery_channels` | MCDeliveryChannels | the five refinements of Delivery, `ConfirmedAsShown`, `OrderIsStocked`, `OneDraftPerName`, and under fairness `QueuedIsBooked` and `PhotoIsAnswered`: bounds below |

### The bounds, and why they are enough

- *Numbering.* Three requests let one hold a row while two wait, or two wait on different
  rows; three numbers let a number be given back and drawn again. The proofs lift the bounds.
- *Billing.* Two invoices are what "older" needs; a total of 2 with amounts 1 and 2 gives an
  unpaid, a partly paid, a fully paid and an overpaid invoice, and a total of 0 the boundary of
  line 56. `MaxMoney` bounds what a customer bought or paid, so that every sum stays finite; 3 leaves
  room for one advance after both kinds of payment. `MaxSurplus` bounds the stock above the
  opening one: 0 does not cut off correct behaviour, in which stock never exceeds the opening, and
  `concurrent_cancel` raises it, as its violation needs.
- *Concurrency.* Conflicts are between two requests. `concurrent_disjoint` keeps two
  requests that write one invoice apart (`OneAtATime`), the case in which the code is
  meant to work without locks; with `OneAtATime = FALSE` `concurrent_cancel` shows what happens without
  that. With a limit of 1, two sales of 1 that both pass the check reach the bound of `CreditExposure` exactly; its proof is
  for any limits, totals and number of requests, with and without `OneAtATime`.
- *Reminders.* Reminders share nothing: job and row are both keyed by reminder. The code allows three
  attempts; two have a first, a last and a retry, and the proofs are for any number. One move
  leaves an old and a new job; one fault is any single crash or exception at any await. Two faults, or
  three attempts, multiply the states; what they could add to the safety properties is covered by the proofs.
- *Purchases.* Two lines for "some but not all", two requests for an overlap, a quantity of two for a part, two entries for a repeat.
  Orders of more units multiply the states; the proofs are for any orders and any number of entries.
- *Voice.* Five transcripts hold a command, its question, a second command whose question replaces the
  first, an unclear answer in progress and an answer. Three drafts, two of one customer, are what replacing needs; two
  turns overlap; four commands draft two bills and confirm or cancel twice. The proofs are for any number.
- *Channels* (`MaxWebFaults`, `MaxOutages`, `MaxMobileFaults`, `MaxDraftFaults`, `MaxStops`: how often each is disturbed).
  Two requests and two replays: a replay
  that sends what the other has removed. Three bills, one a walk-in and one refused by the server, and two synchronisations: a
  bill before and one behind the refused one, and a bill on two lists; two outages let a bill be queued while another is sent. Two payments, one of them without a customer, and
  two handlers. One draft with two contents and three requests: a confirmation, an update and a discard at once. A bill of up to three
  lines, two photos of a shelf with one product, two attempts, as `queue.ts` gives them, and one stop: BullMQ hands a stalled job out once
  more by default and then fails it, so a `MaxStops` above 1 would not be this queue. Overlaps need no fault and are
  not bounded by one. The proofs of the safety properties are for any number.

`CHECK_DEADLOCK FALSE` stands in the runs in which a bound (numbers, invoices, money, time, transcripts, commands)
ends every behaviour, or everything that was handed over may be done with (`delivery_channels`). `purchase_receipts` and `purchase_cancelled` check deadlock.

### Fairness

Reminders and DeliveryChannels state some. *Reminders:* weak fairness of the clock, and of the worker on each job. The worker is
a process that takes up whatever job is due and runs its handler to the end (`workers.ts:44-203`); BullMQ
re-delivers what a crash cut off, and the moderate concurrency of the worker starves no job as every handler
ends. Nothing is assumed of clients, of messaging succeeding, or of exceptions being rare: how many
exceptions and crashes there are is bounded by `MaxFaults`. `PendingIsServed` ends at the
horizon, when the next occurrence lies beyond the last slot (`BeyondBound`), and excepts what was cancelled or has
run out of attempts.

*DeliveryChannels* (`ChannelsFairness`): weak fairness of each synchronisation of the phone, its start included, and of each
photo's job. A phone reports a connection again and again (NetInfo reports every change, and once to
every new listener), and JavaScript that has been started runs on; BullMQ hands a waiting job to the worker. Nothing is
assumed of users, servers or the network: a bill is booked because outages and errors are bounded, and `QueuedIsBooked` excepts
a bill that waits behind one the server refuses (`Blocked`); `PhotoIsAnswered` excepts a photo whose last attempt failed without a note in its row
(`unnoted`). Both exceptions are behaviours of the code. A photo whose server stopped before the job was added is never
queued, and the property says nothing of it.

## The findings

Each is a property that a comment, a test or a requirement states and the code does not
keep; the run gives the shortest behaviour.

1. `counter_clash`: the number of an invoice restarts for every shop, while the unique index on it
   spans all shops; the second shop to reach a number
   is refused, its counter rolled back, and its next attempt gets the same number, although
   `invoice.service.ts:17` calls the upsert safe under concurrent requests.
2. `billing_cancelled_final`: reversing a payment of a cancelled invoice makes it pending or partial,
   against the requirements' state machine.
3. `concurrent_cancel`: two overlapping cancellations of one invoice return its items and its
   balance twice.
4. `reminders_cancelled`: cancelling a reminder does not remove its job, and the job is delivered.
5. `purchase_cancelled`: a receipt that read an order before it was cancelled receives it afterwards.

Behaviours the models contain, which no comment or test of the repository speaks of, and which the properties therefore name as exceptions:

- two sales to one customer that overlap may exceed the credit limit together, by at most one sale for each other request;
- a receipt that names a line twice adds up to twice what is open, and so may receive more than was ordered;
- a voice draft confirmed from two sessions is booked twice, and an edit appends a draft that was removed meanwhile;
- a photo whose image cannot be read stays `processing`; one shown as `failed` may be tried again and completed;
- when IndexedDB does not take a request, the user is told all the same that it was queued;
- a queued request is replayed with the Authorization header it was queued with;
- a bill the server refuses keeps every bill behind it in the queue of the phone;
- the numbers of purchase orders and credit notes are unique over all shops but derived per shop;
- a routine voice command that arrives from the browser and from the speech service runs twice;
- a predictive reminder is a pending row without a job.

## The proofs

TLAPS checks the theorems for every value of the constants, from the assumptions named
in the modules (`ConstantsAssumption`, `RemindersAssumption`, `PurchaseOrdersAssumption`, and so on):
bounds are numbers, amounts are positive, baskets are functions. TLC evaluates the same assumptions in every run.

- **Numbering** (`GaplessAlways`, `NumbersUniqueAlways`, `CounterTypeOK`). `CounterInv` adds that whoever drew
  a number and has not ended holds the row's lock (`OwnsRow`), and that between the insert and
  the commit nobody else inserted that number (`InsertExcludes`). Without the first, a roll back could take back another request's number;
  without the second, a commit could publish it twice. `FreshWithOneShop` shows that finding 1 needs a second shop.
- **Billing** (`BillingTypeOK`, `PaidMatchesStatusAlways`). `BillingInv` is inductive as it stands; the work is in the settlement loop,
  whose steps keep what an invoice shows as paid between zero and its total, and in edits that change a
  total under a status.
- **The books** (`StockConservedAlways`, `KhataBalanceAlways`, `PaidWasReceivedAlways`). The laws compare a counter with a sum over the rows.
  The sum is the recursive function `MapThenSumSet` folds with; `BooksProofs` first proves what sums need (the order of the terms does not matter,
  changing one term, adding one, adding two sums), each by taking a smallest finite set without the property, which well-foundedness gives. Then each
  law is put in the form that is inductive: `OnShelf` for the stock; for the money `Owes`, in which what a
  cancelled invoice still shows as paid is a term of its own. A sale, change or credit writes one row and a payment the rows of one customer
  (`BalancedMove`), and each moves the counters by as much as the sum. That a payment does needs the settlement run: what it applies to the rows
  is its amount less what remains. Both laws except reopened invoices, and the proof shows where: a reversal is the one operation that makes a
  cancelled row live.
- **Settlement** (`OldestFirstAlways`, `AdvanceOnlyWhenSettledAlways`): a run only falls and is zero from the first invoice on that it leaves unpaid, so
  whatever it reaches has nothing unpaid before it, and what remains after it has nothing unpaid at all.
- **Overlapping requests, with care** (`ImplementsBillingAlways`), assuming `OneAtATime`: no two requests in flight are about to write one
  invoice. `ApartInv` says so, and that the invoice a request will write is as it was read; sales, proformas, credit and requests on other
  invoices of the customer change around it. Every commit then finds its row as it was read, which is the assumption of
  `FreshCommitsImplementBilling` below.
- **The credit limit** (`CreditExposureAlways`), assuming nothing of the clients. The invariant counts the sales that have passed the check
  with the balance: one more passes only if the balance leaves room for it, and then every
  other request adds the largest total at most (`SumAtMost`); a commit moves a total from `Passed` to the balance; whatever else raises a
  balance makes its customer `unchecked`.
- **Overlapping requests, without** (`ConcurrentTypeOKAlways`, `FreshCommitsImplementBilling`, `SalesNeedNoLock`), assuming nothing of the clients.
  `OverlapInv` says that an invoice a request has read is still a row, if not the same; the types hold with stale reads too. If every
  commit finds the row as it was read, the commits are steps of Billing in any overlap: a row lock or a check of a version would be enough, and
  nothing else than a stale row breaks the books (`concurrent_cancel` shows one that does). Clients that only sell, propose, take payments and give
  credit never write from a row they read, so they implement Billing as they are; for these and for those who keep the writers of an invoice apart
  `ConcurrentStockConserved`, `ConcurrentKhataBalance`, `ConcurrentPaidWasReceived` and `ConcurrentPaidMatchesStatus` follow. The credit limit is
  not among the promises of Billing: two overlapping sales to one customer may pass it together.
- **Reminders** (`RemindersTypeOK`, `GivesUpAtLastAlways`, `SendsBoundedAlways`). `GoodJob` relates attempts, stalls and
  messages of a job: a job may have sent once per failed or crashed attempt, and once in an attempt past
  its delivery. The bound alone is not inductive, because a retry forgets where the attempt before it stood.
- **No reminder is forgotten** (`PendingIsQueuedAlways`). The jobs of a reminder form a chain. `Follows` says of each job that has passed
  (completed, or about to be marked so) that the next one, at a later time, was added, or that the reminder is a one-time one, which is then not pending,
  or that somebody asked to cancel it; and of a job about to write or add the next one that its reminder recurs. The last job of a pending
  reminder nobody cancelled can therefore not have passed. TLC finds `QueueInv` kept on the instance of `reminders_delivery`, too.
- **Purchases** (`StockFollowsAlways`, `OnlyOverlapOrRepeatExceedsAlways`, `ReceivedIsCompleteAlways`). `PurchaseInv` says what a receipt in
  flight knows: the quantities it adds to lines it names once fit what it had read (`ReceiptsFit`). `CompletionInv` says what the
  status it decided rests on. The last theorem assumes `EditsAlone`: an edit overlaps with no other request. Without it
  an edit that read the order before a receipt completed it resets the lines of a received order.
- **Voice** (`VoiceTypeOK`, `RiskyWasApprovedAlways`, `PendingIsLastAskedAlways`, `DroppedStaysDroppedAlways`).
  `RiskyWasApproved` says nothing of handlers about to execute; `VoiceInv` adds that at most one handler holds a command, that none holds the
  pending one, and that none holds a risky one without its yes.
- **Voice drafts** (`VoiceDraftIsBookedOnceAlways`, `WorkTypeOKAlways`, `WorkIsSafe`). `VoiceDraftsInv` adds that a turn confirming an undisturbed draft is
  alone with it (`ConfirmedAlone`), and that an undisturbed draft that is booked is in the hands of the turn that booked it or of nobody
  (`BookedIsGone`). Without it nothing rules out that another turn saves a list that still has the draft. `BookedAtMostOnceAlways` draws from the
  refinement what it means for the drafts, those still in the list included.
- **Delivery** (`DoneTookEffectAlways`): what is done has taken effect, and once unless disturbed. Each channel is proved to implement it:
  `RequestIsDeliveredAlways`, `BillIsDeliveredAlways`, `NoticeIsDeliveredAlways`, `DraftIsDeliveredAlways`, `ScanIsOrderedAlways`. The
  invariants say who holds an item: an undisturbed one is on at most one list of those who could deliver it, its effects are zero until that holder
  has reached the step after the effect, and what has left the channel is on no list. A step that lets go of an item between its effect and
  the note of it is one that disturbs it. `NothingIsLostAlways` carries `DoneTookEffect` through the five refinements back into the terms of the
  channels: a request out of the outbox was executed, a bill out of the phone's queue is booked, an answered notice has its payment, a confirmed draft
  its change, a completed photo its order, and each once unless disturbed.
- **Channels** (`ConfirmedAsShownAlways`, `OrderIsStockedAlways`, `OneDraftPerNameAlways`, `ChannelsTypeOKAlways`): a confirmation that is alone executes what the
  row says; the attempt in progress is the only one short of a line; a name found without a draft by one attempt has none until that attempt writes it.

Every invariant and every action property that a passing run checks, and every refinement, is proved. Only model-checked are the liveness
properties `PendingIsServed`, `QueuedIsBooked` and `PhotoIsAnswered`, which are beyond TLAPS, as is `ENABLED`; and the violations, which are
counterexamples of an instance.

## Not modelled, and why

- Taxes, discounts, rounding, formatting: pure functions; their result is a choice.
- Batches of products and their expiry: records kept beside the stock, changed best effort.
- `setOpeningBalance` and `syncBalance`, which overwrite a balance: no caller in the program.
- Stock corrections by hand (`inventory/product.ts:288`), which check the stock and then decrement it: sales decrement without a check.
- Credit notes: each operation is a check and a write of one row and moves neither stock nor balance.
- The statuses of messages (`webhook.routes.ts:193`): each notice overwrites one, and nothing depends on it.
- Audio, speech services, the language model: their outcome is a choice.
- The numbers of purchase orders and credit notes: a request that loses the race is refused and changes nothing.
- The task queue of the voice engine: nothing queues a task.
- Pages, screens and reports, which are most of the repository: forms and views over the books, without
  state of their own that outlives them. What they send are the inputs of the models.
- PostgreSQL, BullMQ and Redis are modelled from how the code uses them and marked external.

## The plan

What was planned is modelled, in the order of importance: numbering, the books, overlapping requests, reminders, purchases, voice, and the channels
into the books. What is left:

1. Pairs of requests on one invoice in `BillingConcurrent`: which laws survive which race. `ImplementsBillingAlways` settles the others.
2. Hand-made stock corrections beside the sales of Billing.
3. Credit notes, should issuing one come to move stock or balance.
4. Delivery notices of messages, should something come to depend on their order.

## Running it

    tlc -workers 2 -config billing_books.cfg MCBilling
    tlc -workers 2 -config delivery_channels.cfg MCDeliveryChannels
    tlapm BillingProofs.tla
