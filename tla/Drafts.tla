------------------------------- MODULE Drafts -------------------------------
(***************************************************************************)
(* Drafts: purchases, products and stock corrections that take effect only *)
(* when somebody confirms them.                                            *)
(*                                                                         *)
(* A request reads the row of its draft in one step and writes it in       *)
(* another; a confirmation makes the change it stands for in between.  No  *)
(* write looks at the status again, and no transaction holds the steps     *)
(* together.  A patch that leaves the data alone is a request that ends.   *)
(***************************************************************************)
EXTENDS Naturals, Sequences

CONSTANTS
    DraftIds,
    Contents,        \* what a draft can say
    DraftRequests,   \* requests in progress at once
    MaxDraftFaults   \* bound: confirmations cut off after their change

ASSUME DraftsAssumption == MaxDraftFaults \in Nat

VARIABLES
    draft,           \* the row of each draft
    reviewing,       \* what each request has read of a draft, and means to do
    changes,         \* what each draft said whenever it was carried out
    draftDisturbed,  \* history: see Delivery
    draftFaults

draftVars == <<draft, reviewing, changes, draftDisturbed, draftFaults>>

NoDraft == [status |-> "absent"]
DraftRow == [status : {"pending", "confirmed", "discarded"}, data : Contents]
NoReview == [op |-> "none"]
Review == [op : {"update", "confirm", "mark", "discard"}, of : DraftIds, data : Contents]

DraftsTypeOK ==
    /\ draft \in [DraftIds -> DraftRow \cup {NoDraft}]
    /\ reviewing \in [DraftRequests -> Review \cup {NoReview}]
    /\ changes \in [DraftIds -> Seq(Contents)]
    /\ draftDisturbed \subseteq DraftIds
    /\ draftFaults \in 0 .. MaxDraftFaults

DraftsInit ==
    /\ draft = [d \in DraftIds |-> NoDraft]
    /\ reviewing = [r \in DraftRequests |-> NoReview]
    /\ changes = [d \in DraftIds |-> <<>>]
    /\ draftDisturbed = {}
    /\ draftFaults = 0

-----------------------------------------------------------------------------

CreateDraft(d, x) ==
    /\ draft[d] = NoDraft
    /\ draft' = [draft EXCEPT ![d] = [status |-> "pending", data |-> x]]
    /\ UNCHANGED <<reviewing, changes, draftDisturbed, draftFaults>>

\* Which requests for d are between their read and their last write?
Open(d) == {r \in DraftRequests : reviewing[r].op # "none" /\ reviewing[r].of = d}
Confirming(d) == {r \in Open(d) : reviewing[r].op \in {"confirm", "mark"}}

\* The read every operation starts with.  x is the patch of an update, and what the
\* row says for the others.
Begin(r, d, op, x) ==
    /\ reviewing[r] = NoReview
    /\ reviewing' = [reviewing EXCEPT ![r] = [op |-> op, of |-> d, data |-> x]]
    /\ draftDisturbed' =
          IF Confirming(d) # {} \/ (op = "confirm" /\ Open(d) # {})
          THEN draftDisturbed \cup {d} ELSE draftDisturbed
    /\ UNCHANGED <<draft, changes, draftFaults>>

\* Mutants: an update, or a confirmation, whatever the status is.
BeginUpdateAnyStatus(r, d, x) == draft[d] # NoDraft /\ Begin(r, d, "update", x)
BeginConfirmAnyStatus(r, d) == draft[d] # NoDraft /\ Begin(r, d, "confirm", draft[d].data)

BeginUpdate(r, d, x) == draft[d].status = "pending" /\ Begin(r, d, "update", x)
BeginConfirm(r, d) == draft[d].status = "pending" /\ Begin(r, d, "confirm", draft[d].data)
BeginDiscard(r, d) == draft[d] # NoDraft /\ Begin(r, d, "discard", draft[d].data)

WriteDraft(r, row) ==
    /\ draft' = [draft EXCEPT ![reviewing[r].of] = row]
    /\ reviewing' = [reviewing EXCEPT ![r] = NoReview]
    /\ UNCHANGED <<changes, draftDisturbed, draftFaults>>

UpdateDraft(r) ==
    /\ reviewing[r].op = "update"
    /\ WriteDraft(r, [draft[reviewing[r].of] EXCEPT !.data = reviewing[r].data])

DiscardDraft(r) ==
    /\ reviewing[r].op = "discard"
    /\ WriteDraft(r, [draft[reviewing[r].of] EXCEPT !.status = "discarded"])

\* The change, with the data that was read.
ExecuteDraft(r) ==
    /\ reviewing[r].op = "confirm"
    /\ reviewing' = [reviewing EXCEPT ![r].op = "mark"]
    /\ changes' = [changes EXCEPT ![reviewing[r].of] = Append(@, reviewing[r].data)]
    /\ UNCHANGED <<draft, draftDisturbed, draftFaults>>

MarkConfirmed(r) ==
    /\ reviewing[r].op = "mark"
    /\ WriteDraft(r, [draft[reviewing[r].of] EXCEPT !.status = "confirmed"])

\* An error, a patch without data, or a stop of the server before anything is written.
EndReview(r) ==
    /\ reviewing[r].op \in {"update", "discard", "confirm"}
    /\ reviewing' = [reviewing EXCEPT ![r] = NoReview]
    /\ UNCHANGED <<draft, changes, draftDisturbed, draftFaults>>

\* The same after the change, which nothing undoes: the draft is still pending.
MarkLost(r) ==
    /\ reviewing[r].op = "mark"
    /\ draftFaults < MaxDraftFaults /\ draftFaults' = draftFaults + 1
    /\ reviewing' = [reviewing EXCEPT ![r] = NoReview]
    /\ draftDisturbed' = draftDisturbed \cup {reviewing[r].of}
    /\ UNCHANGED <<draft, changes>>

ReviewStep(r) ==
    \/ \E d \in DraftIds :
          \/ BeginConfirm(r, d) \/ BeginDiscard(r, d)
          \/ \E x \in Contents : BeginUpdate(r, d, x)
    \/ UpdateDraft(r) \/ DiscardDraft(r) \/ ExecuteDraft(r) \/ MarkConfirmed(r)
    \/ EndReview(r) \/ MarkLost(r)

DraftsNext ==
    \/ \E d \in DraftIds, x \in Contents : CreateDraft(d, x)
    \/ \E r \in DraftRequests : ReviewStep(r)

DraftsSpec == DraftsInit /\ [][DraftsNext]_draftVars

-----------------------------------------------------------------------------

DraftState == [d \in DraftIds |->
    CASE draft[d].status = "absent" -> "absent"
      [] draft[d].status = "pending" -> "held"
      [] draft[d].status = "confirmed" -> "done"
      [] OTHER -> "dropped"]

DraftDelivery == INSTANCE Delivery WITH
    Items <- DraftIds, Droppable <- DraftIds, state <- DraftState,
    effects <- [d \in DraftIds |-> Len(changes[d])], disturbed <- draftDisturbed

\* A draft is shown as confirmed only after its change was made, and the change is made
\* once, unless a confirmation overlaps with another request for the draft or ends
\* between the change and the mark.
DraftIsDelivered == DraftDelivery!Spec

\* Safety: what was booked is what the confirmed draft shows, whatever updates and
\* discards raced each other before; nothing edits it afterwards.
ConfirmedAsShown ==
    \A d \in DraftIds : draft[d].status = "confirmed" /\ d \notin draftDisturbed =>
        changes[d] = <<draft[d].data>>
=============================================================================
