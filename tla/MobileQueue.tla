----------------------------- MODULE MobileQueue -----------------------------
(***************************************************************************)
(* The bills of the mobile application: sent to the server when the phone  *)
(* is connected, kept in a queue on the phone when it is not, and sent     *)
(* from there when it is again.                                            *)
(*                                                                         *)
(* Every NetInfo event that reports a connection starts a synchronisation, *)
(* whether or not one is running.  A synchronisation works on the queue as *)
(* it was at its start, oldest bill first, and ends at the first error.    *)
(* The queue itself is read and written in one go (MMKV is synchronous).   *)
(***************************************************************************)
EXTENDS Naturals

CONSTANTS
    Bills,
    WalkIns,          \* bills made offline without a customer
    Refused,          \* bills the server will not accept
    Syncs,            \* synchronisations in progress at once
    MaxOutages,       \* bound: how often the connection is lost
    MaxMobileFaults   \* bound: errors, and ends of the application, while connected

ASSUME MobileAssumption == {MaxOutages, MaxMobileFaults} \subseteq Nat

VARIABLES
    online,           \* the last NetInfo event reported a connection
    bill,             \* where each bill is: in its form, on its way, queued
    queue,            \* the bills in the queue
    ahead,            \* the bills that were in the queue when a bill was put there
    sync,             \* what each synchronisation has still to send, what it is at, its step
    booked,           \* how many invoices the server has made of each bill
    mobileDisturbed,  \* history: see Delivery
    outages, mobileFaults

mobileVars == <<online, bill, queue, ahead, sync, booked, mobileDisturbed, outages, mobileFaults>>

NoSync == [step |-> "idle", todo |-> {}]
Syncing == [step : {"search", "customer", "book", "booked"}, todo : SUBSET Bills, of : Bills]

MobileTypeOK ==
    /\ online \in BOOLEAN
    /\ bill \in [Bills -> {"form", "flight", "executed", "done", "queued"}]
    /\ queue \subseteq Bills
    /\ ahead \in [Bills -> SUBSET Bills]
    /\ sync \in [Syncs -> Syncing \cup {NoSync}]
    /\ booked \in [Bills -> Nat]
    /\ mobileDisturbed \subseteq Bills
    /\ outages \in 0 .. MaxOutages
    /\ mobileFaults \in 0 .. MaxMobileFaults

MobileInit ==
    /\ online = TRUE
    /\ bill = [b \in Bills |-> "form"]
    /\ queue = {}
    /\ ahead = [b \in Bills |-> {}]
    /\ sync = [s \in Syncs |-> NoSync]
    /\ booked = [b \in Bills |-> 0]
    /\ mobileDisturbed = {}
    /\ outages = 0
    /\ mobileFaults = 0

MobileFault == mobileFaults < MaxMobileFaults /\ mobileFaults' = mobileFaults + 1

-----------------------------------------------------------------------------
(* createInvoice: what the form does with a bill *)

Moves(b, from, to) ==
    /\ bill[b] = from
    /\ bill' = [bill EXCEPT ![b] = to]
    /\ UNCHANGED <<online, sync, outages>>

\* The form takes no other bill while one is on its way.
NoneInFlight == \A b \in Bills : bill[b] \notin {"flight", "executed"}

SubmitOnline(b) ==
    /\ online
    /\ NoneInFlight
    /\ Moves(b, "form", "flight")
    /\ UNCHANGED <<queue, ahead, booked, mobileDisturbed, mobileFaults>>

BookDirectly(b) ==
    /\ b \notin Refused
    /\ Moves(b, "flight", "executed")
    /\ booked' = [booked EXCEPT ![b] = @ + 1]
    /\ UNCHANGED <<queue, ahead, mobileDisturbed, mobileFaults>>

BookedDirectly(b) ==
    /\ Moves(b, "executed", "done")
    /\ UNCHANGED <<queue, ahead, booked, mobileDisturbed, mobileFaults>>

\* An alert; the bill is still in its form, and may be submitted again.
NotBooked(b) ==
    /\ Moves(b, "flight", "form")
    /\ UNCHANGED <<queue, ahead, booked, mobileDisturbed, mobileFaults>>

\* The same alert, but the server has made the invoice.
AnswerToFormLost(b) ==
    /\ MobileFault
    /\ Moves(b, "executed", "form")
    /\ mobileDisturbed' = mobileDisturbed \cup {b}
    /\ UNCHANGED <<queue, ahead, booked>>

EnqueueInvoice(b) ==
    /\ ~online
    /\ NoneInFlight
    /\ Moves(b, "form", "queued")
    /\ queue' = queue \cup {b}
    /\ ahead' = [ahead EXCEPT ![b] = queue]
    /\ UNCHANGED <<booked, mobileDisturbed, mobileFaults>>

-----------------------------------------------------------------------------
(* sync() *)

\* The oldest bill of a list, and the request a synchronisation begins with for it.
Oldest(S) == CHOOSE b \in S : ahead[b] \cap S = {}
StartOn(S) ==
    IF S = {} THEN NoSync
    ELSE [step |-> IF Oldest(S) \in WalkIns THEN "search" ELSE "book", todo |-> S, of |-> Oldest(S)]

Current(s) == sync[s].of
SyncAt(s, step) == sync[s].step = step
Goes(s, step) == sync' = [sync EXCEPT ![s].step = step]

\* NetInfo reports a connection: a synchronisation starts on what the queue holds.
Connected(s) ==
    /\ SyncAt(s, "idle")
    /\ queue # {}
    /\ online' = TRUE
    /\ sync' = [sync EXCEPT ![s] = StartOn(queue)]
    /\ mobileDisturbed' = mobileDisturbed \cup (queue \cap UNION {sync[x].todo : x \in Syncs})
    /\ UNCHANGED <<bill, queue, ahead, booked, outages, mobileFaults>>

ConnectedEmpty ==
    /\ ~online
    /\ queue = {}
    /\ online' = TRUE
    /\ UNCHANGED <<bill, queue, ahead, sync, booked, mobileDisturbed, outages, mobileFaults>>

Disconnected ==
    /\ online
    /\ outages < MaxOutages /\ outages' = outages + 1
    /\ online' = FALSE
    /\ UNCHANGED <<bill, queue, ahead, sync, booked, mobileDisturbed, mobileFaults>>

\* Is there a walk-in customer on the server?  If not, one is made.
SearchWalkIn(s) ==
    /\ SyncAt(s, "search")
    /\ Goes(s, "book") \/ Goes(s, "customer")
    /\ UNCHANGED <<online, bill, queue, ahead, booked, mobileDisturbed, outages, mobileFaults>>

\* Mutant: the customer just made is searched for again.
SearchAgain(s) ==
    /\ SyncAt(s, "customer")
    /\ Goes(s, "search")
    /\ UNCHANGED <<online, bill, queue, ahead, booked, mobileDisturbed, outages, mobileFaults>>

CreateWalkIn(s) ==
    /\ SyncAt(s, "customer")
    /\ Goes(s, "book")
    /\ UNCHANGED <<online, bill, queue, ahead, booked, mobileDisturbed, outages, mobileFaults>>

BookQueued(s) ==
    /\ SyncAt(s, "book")
    /\ Current(s) \notin Refused
    /\ Goes(s, "booked")
    /\ booked' = [booked EXCEPT ![Current(s)] = @ + 1]
    /\ UNCHANGED <<online, bill, queue, ahead, mobileDisturbed, outages, mobileFaults>>

\* Mutant: a bill is removed before it is sent.
RemoveFirst(s) ==
    /\ SyncAt(s, "book") \/ SyncAt(s, "booked")
    /\ queue' = queue \ {Current(s)}
    /\ sync' = [sync EXCEPT ![s] = StartOn(@.todo \ {Current(s)})]
    /\ UNCHANGED <<online, bill, ahead, booked, mobileDisturbed, outages, mobileFaults>>

RemoveFromQueue(s) ==
    /\ SyncAt(s, "booked")
    /\ queue' = queue \ {Current(s)}
    /\ sync' = [sync EXCEPT ![s] = StartOn(@.todo \ {Current(s)})]
    /\ UNCHANGED <<online, bill, ahead, booked, mobileDisturbed, outages, mobileFaults>>

\* Any error ends it: a refusal, no connection, or a fault.  What it was sending
\* stays in the queue, even if the server has just made the invoice.
SyncBreaks(s) ==
    /\ ~SyncAt(s, "idle")
    /\ \/ UNCHANGED mobileFaults /\ SyncAt(s, "book") /\ Current(s) \in Refused
       \/ UNCHANGED mobileFaults /\ ~online
       \/ MobileFault
    /\ sync' = [sync EXCEPT ![s] = NoSync]
    /\ mobileDisturbed' = IF SyncAt(s, "booked") THEN mobileDisturbed \cup {Current(s)}
                                                 ELSE mobileDisturbed
    /\ UNCHANGED <<online, bill, queue, ahead, booked, outages>>

\* The application is ended; the queue survives, and so does the form.
AppEnds ==
    /\ MobileFault
    /\ sync' = [s \in Syncs |-> NoSync]
    /\ bill' = [b \in Bills |-> IF bill[b] \in {"flight", "executed"} THEN "form" ELSE bill[b]]
    /\ mobileDisturbed' = mobileDisturbed
          \cup {b \in Bills : bill[b] = "executed"}
          \cup {Current(s) : s \in {x \in Syncs : SyncAt(x, "booked")}}
    /\ UNCHANGED <<online, queue, ahead, booked, outages>>

Form(b) ==
    \/ SubmitOnline(b) \/ BookDirectly(b) \/ BookedDirectly(b) \/ NotBooked(b)
    \/ AnswerToFormLost(b) \/ EnqueueInvoice(b)
Synchronise(s) ==
    SearchWalkIn(s) \/ CreateWalkIn(s) \/ BookQueued(s) \/ RemoveFromQueue(s) \/ SyncBreaks(s)

MobileNext ==
    \/ \E b \in Bills : Form(b)
    \/ \E s \in Syncs : Connected(s) \/ Synchronise(s)
    \/ ConnectedEmpty \/ Disconnected \/ AppEnds

MobileSpec == MobileInit /\ [][MobileNext]_mobileVars

-----------------------------------------------------------------------------

BillState == [b \in Bills |->
    CASE bill[b] = "form" -> "absent"
      [] bill[b] \in {"flight", "executed"} -> "offered"
      [] bill[b] = "done" -> "done"
      [] OTHER -> IF b \in queue THEN "held" ELSE "done"]

BillDelivery == INSTANCE Delivery WITH
    Items <- Bills, Droppable <- {}, state <- BillState,
    effects <- booked, disturbed <- mobileDisturbed

\* A bill leaves the queue only after the server has made an invoice of it, and one is
\* made, unless an answer is lost, the application ends at the wrong moment, or two
\* synchronisations have the bill on their lists at the same time.
BillIsDelivered == BillDelivery!Spec

\* Does a bill the server refuses block b?
Blocked(b) == \E c \in queue \cap Refused : c = b \/ c \in ahead[b]

\* Liveness: a bill in the queue leaves it, and so is booked, unless the server refuses it or
\* a bill that was there before it.
QueuedIsBooked == \A b \in Bills : b \in queue ~> b \notin queue \/ Blocked(b)
=============================================================================
