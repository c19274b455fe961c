------------------------------ MODULE OcrImport ------------------------------
(***************************************************************************)
(* Photos of purchase bills and of shelves: stored, queued, read by a      *)
(* vision model in a worker, and turned into a received purchase order     *)
(* with its stock, or into drafts of products.                             *)
(*                                                                         *)
(* No transaction holds the writes of an attempt together.  The queue      *)
(* tries a photo twice; a second attempt reads it afresh and starts again  *)
(* from nothing.  The items of a photo are taken in any order.             *)
(***************************************************************************)
EXTENDS Naturals

CONSTANTS
    BillPhotos, ShelfPhotos,
    BillLines,    \* the lines of bills that name a product of the shop
    ShelfNames,   \* the names of products on shelves
    MaxTries,     \* how often the queue tries a photo
    MaxStops      \* bound: how often a worker stops in the middle of an attempt; BullMQ hands
                  \* a stalled job out once more and then fails it, so runs use 1 at most

ASSUME OcrAssumption ==
    MaxTries \in Nat \ {0} /\ MaxStops \in Nat /\ BillPhotos \cap ShelfPhotos = {}

Photos == BillPhotos \cup ShelfPhotos
Seen == BillLines \cup ShelfNames

VARIABLES
    photo,        \* the status of the row of each photo
    job,          \* what the queue does with it
    tries,        \* its attempts that have ended
    attempt,      \* the attempt in progress: its step, what is left, what it is at
    orders,       \* how many orders were made from each bill
    order,        \* of the last of them: the lines written, those whose stock is
                  \* raised, those with a stock movement
    pendingDrafts,  \* how many drafts of a product wait for review
    unnoted,      \* history: photos whose last attempt ended without a note in the row
    scanDisturbed,  \* history: see Delivery
    draftRaces,   \* history: names two attempts found without a draft at the same time
    stops

ocrVars == <<photo, job, tries, attempt, orders, order, pendingDrafts, unnoted,
             scanDisturbed, draftRaces, stops>>

NoAttempt == [step |-> "none", left |-> {}]
Attempt ==
    [step : {"mark", "image", "extract", "order", "next", "finished"}, left : SUBSET Seen]
    \cup [step : {"stock", "movement", "draft"}, left : SUBSET Seen, at : Seen]
Order == [lines : SUBSET BillLines, raised : SUBSET BillLines, moved : SUBSET BillLines]
EmptyOrder == [lines |-> {}, raised |-> {}, moved |-> {}]

OcrTypeOK ==
    /\ photo \in [Photos -> {"none", "pending", "processing", "completed", "failed"}]
    /\ job \in [Photos -> {"none", "waiting", "active", "over"}]
    /\ tries \in [Photos -> 0 .. MaxTries]
    /\ attempt \in [Photos -> Attempt \cup {NoAttempt}]
    /\ orders \in [BillPhotos -> Nat]
    /\ order \in [BillPhotos -> Order]
    /\ pendingDrafts \in [ShelfNames -> Nat]
    /\ unnoted \subseteq Photos
    /\ scanDisturbed \subseteq BillPhotos
    /\ draftRaces \subseteq ShelfNames
    /\ stops \in 0 .. MaxStops

OcrInit ==
    /\ photo = [p \in Photos |-> "none"]
    /\ job = [p \in Photos |-> "none"]
    /\ tries = [p \in Photos |-> 0]
    /\ attempt = [p \in Photos |-> NoAttempt]
    /\ orders = [b \in BillPhotos |-> 0]
    /\ order = [b \in BillPhotos |-> EmptyOrder]
    /\ pendingDrafts = [x \in ShelfNames |-> 0]
    /\ unnoted = {}
    /\ scanDisturbed = {}
    /\ draftRaces = {}
    /\ stops = 0

-----------------------------------------------------------------------------
(* The upload *)

StorePhoto(p) ==
    /\ photo[p] = "none"
    /\ photo' = [photo EXCEPT ![p] = "pending"]
    /\ UNCHANGED <<job, tries, attempt, orders, order, pendingDrafts, unnoted,
                   scanDisturbed, draftRaces, stops>>

\* Not if the server stops before: the row then waits for a job that is not there.
EnqueuePhoto(p) ==
    /\ photo[p] = "pending" /\ job[p] = "none"
    /\ job' = [job EXCEPT ![p] = "waiting"]
    /\ UNCHANGED <<photo, tries, attempt, orders, order, pendingDrafts, unnoted,
                   scanDisturbed, draftRaces, stops>>

-----------------------------------------------------------------------------
(* An attempt *)

AttemptAt(p, step) == attempt[p].step = step
Turn(p, step, left) == attempt' = [attempt EXCEPT ![p] = [step |-> step, left |-> left]]
TurnTo(p, step, x) ==
    attempt' = [attempt EXCEPT ![p] = [step |-> step, left |-> @.left \ {x}, at |-> x]]
UnchangedQueue == UNCHANGED <<job, tries, stops, unnoted, scanDisturbed>>
UnchangedBooks == UNCHANGED <<orders, order, pendingDrafts, draftRaces>>

TakeJob(p) ==
    /\ job[p] = "waiting"
    /\ job' = [job EXCEPT ![p] = "active"]
    /\ Turn(p, "mark", {})
    /\ UnchangedBooks /\ UNCHANGED <<photo, tries, unnoted, scanDisturbed, stops>>

MarkProcessing(p) ==
    /\ AttemptAt(p, "mark")
    /\ photo' = [photo EXCEPT ![p] = "processing"]
    /\ Turn(p, "image", {})
    /\ UnchangedQueue /\ UnchangedBooks

ReadImage(p) ==
    /\ AttemptAt(p, "image")
    /\ Turn(p, "extract", {})
    /\ UnchangedQueue /\ UnchangedBooks /\ UNCHANGED photo

\* Mutant: a bill on which nothing is found is completed there and then.
ExtractOrComplete(p, found) ==
    /\ AttemptAt(p, "extract")
    /\ IF found = {}
       THEN photo' = [photo EXCEPT ![p] = "completed"] /\ Turn(p, "finished", {})
       ELSE UNCHANGED photo /\ Turn(p, IF p \in BillPhotos THEN "order" ELSE "next", found)
    /\ UnchangedQueue /\ UnchangedBooks

\* What the vision model finds; on a bill, only lines that match a product count.
Extract(p, found) ==
    /\ AttemptAt(p, "extract")
    /\ Turn(p, IF p \in BillPhotos THEN "order" ELSE "next", found)
    /\ UnchangedQueue /\ UnchangedBooks /\ UNCHANGED photo

Completed(p) ==
    /\ AttemptAt(p, "next") /\ attempt[p].left = {}
    /\ photo' = [photo EXCEPT ![p] = "completed"]
    /\ Turn(p, "finished", {})
    /\ UnchangedQueue /\ UnchangedBooks

(* A purchase bill *)

CreateOrder(p) ==
    /\ AttemptAt(p, "order")
    /\ orders' = [orders EXCEPT ![p] = @ + 1]
    /\ order' = [order EXCEPT ![p] = EmptyOrder]
    /\ Turn(p, "next", attempt[p].left)
    /\ UnchangedQueue /\ UNCHANGED <<photo, pendingDrafts, draftRaces>>

OrderStep(p) ==
    /\ p \in BillPhotos
    /\ UnchangedQueue /\ UNCHANGED <<photo, orders, pendingDrafts, draftRaces>>

\* Mutant: the line is written, its stock is left for later.
CreateLineOnly(p, x) ==
    /\ OrderStep(p)
    /\ AttemptAt(p, "next") /\ x \in attempt[p].left
    /\ order' = [order EXCEPT ![p].lines = @ \cup {x}]
    /\ Turn(p, "next", attempt[p].left \ {x})

CreateLine(p, x) ==
    /\ OrderStep(p)
    /\ AttemptAt(p, "next") /\ x \in attempt[p].left
    /\ order' = [order EXCEPT ![p].lines = @ \cup {x}]
    /\ TurnTo(p, "stock", x)

RaiseStock(p) ==
    /\ OrderStep(p)
    /\ AttemptAt(p, "stock")
    /\ order' = [order EXCEPT ![p].raised = @ \cup {attempt[p].at}]
    /\ TurnTo(p, "movement", attempt[p].at)

RecordMovement(p) ==
    /\ OrderStep(p)
    /\ AttemptAt(p, "movement")
    /\ order' = [order EXCEPT ![p].moved = @ \cup {attempt[p].at}]
    /\ Turn(p, "next", attempt[p].left)

(* A shelf *)

DraftStep(p) == p \in ShelfPhotos /\ UnchangedQueue /\ UNCHANGED <<photo, orders, order>>

\* Mutant: a draft for every product, whether or not one waits for review.
CheckNothing(p, x) ==
    /\ DraftStep(p)
    /\ AttemptAt(p, "next") /\ x \in attempt[p].left
    /\ TurnTo(p, "draft", x)
    /\ UNCHANGED <<pendingDrafts, draftRaces>>

CheckPendingDraft(p, x) ==
    /\ DraftStep(p)
    /\ AttemptAt(p, "next") /\ x \in attempt[p].left
    /\ IF pendingDrafts[x] > 0 THEN Turn(p, "next", attempt[p].left \ {x})
                               ELSE TurnTo(p, "draft", x)
    /\ draftRaces' = IF pendingDrafts[x] = 0
                        /\ \E q \in ShelfPhotos : AttemptAt(q, "draft") /\ attempt[q].at = x
                     THEN draftRaces \cup {x} ELSE draftRaces
    /\ UNCHANGED pendingDrafts

CreateProductDraft(p) ==
    /\ DraftStep(p)
    /\ AttemptAt(p, "draft")
    /\ pendingDrafts' = [pendingDrafts EXCEPT ![attempt[p].at] = @ + 1]
    /\ Turn(p, "next", attempt[p].left)
    /\ UNCHANGED draftRaces

\* Somebody confirms or discards a draft.
Reviewed(x) ==
    /\ pendingDrafts[x] > 0
    /\ pendingDrafts' = [pendingDrafts EXCEPT ![x] = @ - 1]
    /\ UNCHANGED <<photo, job, tries, attempt, orders, order, unnoted, scanDisturbed,
                   draftRaces, stops>>

(* The end of an attempt *)

\* The bill whose order the attempt has begun and not finished, or has finished while
\* the queue does not know it yet.
OrderOpen(p) ==
    IF p \in BillPhotos /\ attempt[p].step \in {"next", "stock", "movement", "finished"}
    THEN {p} ELSE {}

\* Mutant: one attempt too many.
EndAttemptTooLate(p) ==
    /\ tries' = [tries EXCEPT ![p] = @ + 1]
    /\ job' = [job EXCEPT ![p] = IF tries[p] < MaxTries THEN "waiting" ELSE "over"]
    /\ attempt' = [attempt EXCEPT ![p] = NoAttempt]
    /\ scanDisturbed' = scanDisturbed \cup OrderOpen(p)
    /\ UnchangedBooks /\ UNCHANGED stops

EndAttempt(p) ==
    /\ tries' = [tries EXCEPT ![p] = @ + 1]
    /\ job' = [job EXCEPT ![p] = IF tries[p] + 1 < MaxTries THEN "waiting" ELSE "over"]
    /\ attempt' = [attempt EXCEPT ![p] = NoAttempt]
    /\ scanDisturbed' = scanDisturbed \cup OrderOpen(p)
    /\ UnchangedBooks /\ UNCHANGED stops

FinishJob(p) ==
    /\ AttemptAt(p, "finished")
    /\ job' = [job EXCEPT ![p] = "over"]
    /\ attempt' = [attempt EXCEPT ![p] = NoAttempt]
    /\ unnoted' = unnoted \ {p}
    /\ UnchangedBooks /\ UNCHANGED <<photo, tries, scanDisturbed, stops>>

\* Mutant: the error is logged and thrown on, and the row left as it is.
FailUnnoted(p) ==
    /\ attempt[p].step \in {"extract", "order", "next", "stock", "movement", "draft"}
    /\ unnoted' = unnoted \ {p}
    /\ EndAttempt(p) /\ UNCHANGED photo

\* The catch: the row says "failed", even if the queue will try again.
FailAttempt(p) ==
    /\ attempt[p].step \in {"extract", "order", "next", "stock", "movement", "draft"}
    /\ photo' = [photo EXCEPT ![p] = "failed"]
    /\ unnoted' = unnoted \ {p}
    /\ EndAttempt(p)

\* The row or the image cannot be read, which is before the try; or the catch cannot
\* write the row either.
FailSilently(p) ==
    /\ attempt[p].step \notin {"none", "finished"}
    /\ unnoted' = unnoted \cup {p}
    /\ EndAttempt(p) /\ UNCHANGED photo

\* The worker stops; the queue finds the job stalled and gives it to another.
WorkerStops(p) ==
    /\ job[p] = "active"
    /\ stops < MaxStops /\ stops' = stops + 1
    /\ job' = [job EXCEPT ![p] = "waiting"]
    /\ attempt' = [attempt EXCEPT ![p] = NoAttempt]
    /\ scanDisturbed' = scanDisturbed \cup OrderOpen(p)
    /\ UnchangedBooks /\ UNCHANGED <<photo, tries, unnoted>>

Work(p) ==
    \/ TakeJob(p) \/ MarkProcessing(p) \/ ReadImage(p)
    \/ \E found \in SUBSET (IF p \in BillPhotos THEN BillLines ELSE ShelfNames) : Extract(p, found)
    \/ CreateOrder(p) \/ RaiseStock(p) \/ RecordMovement(p) \/ CreateProductDraft(p)
    \/ \E x \in BillLines : CreateLine(p, x)
    \/ \E x \in ShelfNames : CheckPendingDraft(p, x)
    \/ Completed(p) \/ FinishJob(p) \/ FailAttempt(p) \/ FailSilently(p)

ScanPhoto(p) == StorePhoto(p) \/ EnqueuePhoto(p) \/ Work(p) \/ WorkerStops(p)
BillNext == \E p \in BillPhotos : ScanPhoto(p)
ShelfNext == (\E p \in ShelfPhotos : ScanPhoto(p)) \/ (\E x \in ShelfNames : Reviewed(x))
OcrNext == BillNext \/ ShelfNext

OcrSpec == OcrInit /\ [][OcrNext]_ocrVars

-----------------------------------------------------------------------------

ScanState == [b \in BillPhotos |->
    CASE photo[b] = "none" -> "absent"
      [] photo[b] = "completed" -> "done"
      [] OTHER -> "held"]

ScanDelivery == INSTANCE Delivery WITH
    Items <- BillPhotos, Droppable <- {}, state <- ScanState,
    effects <- orders, disturbed <- scanDisturbed

\* A photo of a bill is completed only after an order was made from it, and one order is
\* made, unless an attempt ends between the order and the end of its job.
ScanIsOrdered == ScanDelivery!Spec

\* Safety: wherever its attempt is cut off, the order of a bill is short of the stock or
\* the movement of at most one line, and of nothing once the photo is completed.
OrderIsStocked ==
    \A b \in BillPhotos :
        LET short == order[b].lines \ (order[b].raised \cap order[b].moved) IN
        /\ \A x, y \in short : x = y
        /\ photo[b] = "completed" => short = {}

\* Safety: retries and further photos leave at most one draft of a product to review,
\* unless two attempts looked for one at the same time.
OneDraftPerName == \A x \in ShelfNames \ draftRaces : pendingDrafts[x] <= 1

\* Liveness: a queued photo is done with, and the application that polls its row is told,
\* unless its last attempt failed before the image was read (or could not note it).
PhotoIsAnswered ==
    \A p \in Photos : job[p] = "waiting" ~>
        job[p] = "over" /\ (photo[p] \in {"completed", "failed"} \/ p \in unnoted)
=============================================================================
