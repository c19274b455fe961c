----------------------------- MODULE UpiWebhook -----------------------------
(***************************************************************************)
(* The notices of a payment provider: delivered until they are answered,   *)
(* perhaps again afterwards, perhaps several at a time; each is checked    *)
(* against the payments recorded so far, and recorded.                     *)
(*                                                                         *)
(* Every await of processUpiPayment is a step.  The recording of a payment *)
(* is one transaction, RecordPayment of Billing; here it only counts.      *)
(***************************************************************************)
EXTENDS Naturals

CONSTANTS
    Refs,       \* payments of customers, by the reference of the provider
    Matched,    \* those whose phone number is a customer's
    Handlers    \* deliveries in progress at once

ASSUME UpiAssumption == Matched \subseteq Refs

VARIABLES
    notice,      \* what the provider knows of each payment: unpaid, sent, answered
    handler,     \* where the request of each delivery stands
    payments,    \* how many payment rows have the reference
    overlapped   \* history: references two deliveries checked before either recorded

upiVars == <<notice, handler, payments, overlapped>>

UpiIdle == [step |-> "idle"]
Processing == [step : {"received", "checked", "recorded"}, ref : Refs, dup : BOOLEAN]

UpiTypeOK ==
    /\ notice \in [Refs -> {"unpaid", "sent", "answered"}]
    /\ handler \in [Handlers -> {UpiIdle} \cup Processing]
    /\ payments \in [Refs -> Nat]
    /\ overlapped \subseteq Refs

UpiInit ==
    /\ notice = [r \in Refs |-> "unpaid"]
    /\ handler = [h \in Handlers |-> UpiIdle]
    /\ payments = [r \in Refs |-> 0]
    /\ overlapped = {}

At(h, step) == handler[h].step = step

-----------------------------------------------------------------------------

CustomerPays(r) ==
    /\ notice[r] = "unpaid"
    /\ notice' = [notice EXCEPT ![r] = "sent"]
    /\ UNCHANGED <<handler, payments, overlapped>>

\* A delivery is stored as an event of its own, whatever was delivered before.
StoreEvent(h, r) ==
    /\ notice[r] # "unpaid"
    /\ At(h, "idle")
    /\ handler' = [handler EXCEPT ![h] = [step |-> "received", ref |-> r, dup |-> FALSE]]
    /\ UNCHANGED <<notice, payments, overlapped>>

\* Who else has found no payment for r, and has yet to record it?
AboutToRecord(r) == {x \in Handlers : At(x, "checked") /\ handler[x].ref = r /\ ~handler[x].dup}

CheckDuplicate(h) ==
    LET r == handler[h].ref IN
    /\ At(h, "received")
    /\ handler' = [handler EXCEPT ![h] = [step |-> "checked", ref |-> r, dup |-> payments[r] > 0]]
    /\ overlapped' = IF payments[r] = 0 /\ AboutToRecord(r) # {}
                     THEN overlapped \cup {r} ELSE overlapped
    /\ UNCHANGED <<notice, payments>>

\* Mutant: the check is made and its result forgotten.
RecordAgain(h) ==
    LET r == handler[h].ref IN
    /\ At(h, "checked")
    /\ payments' = IF r \in Matched THEN [payments EXCEPT ![r] = @ + 1] ELSE payments
    /\ handler' = [handler EXCEPT ![h].step = "recorded"]
    /\ UNCHANGED <<notice, overlapped>>

RecordUnlessDuplicate(h) ==
    LET r == handler[h].ref IN
    /\ At(h, "checked")
    /\ payments' = IF r \in Matched /\ ~handler[h].dup
                   THEN [payments EXCEPT ![r] = @ + 1] ELSE payments
    /\ handler' = [handler EXCEPT ![h].step = "recorded"]
    /\ UNCHANGED <<notice, overlapped>>

\* The event is marked as processed and the provider answered.
AnswerNotice(h) ==
    /\ At(h, "recorded")
    /\ notice' = [notice EXCEPT ![handler[h].ref] = "answered"]
    /\ handler' = [handler EXCEPT ![h] = UpiIdle]
    /\ UNCHANGED <<payments, overlapped>>

\* An exception, a restart of the server or a lost answer: the provider will try again.
NoticeFails(h) ==
    /\ ~At(h, "idle")
    /\ handler' = [handler EXCEPT ![h] = UpiIdle]
    /\ UNCHANGED <<notice, payments, overlapped>>

UpiNext ==
    \/ \E r \in Refs : CustomerPays(r) \/ \E h \in Handlers : StoreEvent(h, r)
    \/ \E h \in Handlers :
          CheckDuplicate(h) \/ RecordUnlessDuplicate(h) \/ AnswerNotice(h) \/ NoticeFails(h)

UpiSpec == UpiInit /\ [][UpiNext]_upiVars

-----------------------------------------------------------------------------

NoticeState == [r \in Matched |->
    CASE notice[r] = "unpaid" -> "absent" [] notice[r] = "sent" -> "held" [] OTHER -> "done"]

NoticeDelivery == INSTANCE Delivery WITH
    Items <- Matched, Droppable <- {}, state <- NoticeState,
    effects <- [r \in Matched |-> payments[r]], disturbed <- overlapped \cap Matched

\* However often the provider delivers a notice, and wherever the server stops, a
\* notice is answered only after its payment was recorded, and the payment is recorded
\* once unless two deliveries were checked before either was recorded.
NoticeIsDelivered == NoticeDelivery!Spec
=============================================================================
