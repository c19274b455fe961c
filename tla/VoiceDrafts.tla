----------------------------- MODULE VoiceDrafts -----------------------------
(***************************************************************************)
(* The bills drafted by voice: one list for the shop in Redis, and in the  *)
(* context of each session the draft it made last.  A turn is a command a  *)
(* session carries out; turns overlap, and every await is a step.          *)
(*                                                                         *)
(* The list is one value: it is loaded, changed and saved as a whole, so a *)
(* turn that saves undoes what others have saved since it loaded.          *)
(***************************************************************************)
EXTENDS Naturals

CONSTANTS
    VoiceBills,       \* drafts of bills
    Alike,            \* drafts for the same customer as a draft
    Sessions,
    VoiceTurns,       \* turns in progress at once
    NoBill,
    MaxCommands,      \* bound: the turns that begin
    MaxVoiceFaults    \* bound: turns that end early, failures and expiries of Redis

ASSUME VoiceDraftsAssumption ==
    /\ NoBill \notin VoiceBills
    /\ Alike \in [VoiceBills -> SUBSET VoiceBills]
    /\ {MaxCommands, MaxVoiceFaults} \subseteq Nat

VARIABLES
    drafted,          \* the drafts made so far
    shopList,         \* the list in Redis
    context,          \* pendingInvoice in the context of each session
    voiceTurn,        \* what each turn is doing, and the list it has loaded
    voiceBooked,      \* how many invoices were made of each draft
    voiceDisturbed,   \* history: see Delivery
    commands, voiceFaults

voiceVars == <<drafted, shopList, context, voiceTurn, voiceBooked, voiceDisturbed,
               commands, voiceFaults>>

NoTurn == [op |-> "none"]
VoiceTurn == [op : {"add", "edit", "select", "confirm", "cancel"},
              step : {"book", "keep", "load", "save", "context"},
              of : VoiceBills, session : Sessions, seen : SUBSET VoiceBills]

VoiceDraftsTypeOK ==
    /\ drafted \subseteq VoiceBills
    /\ shopList \subseteq VoiceBills
    /\ context \in [Sessions -> VoiceBills \cup {NoBill}]
    /\ voiceTurn \in [VoiceTurns -> VoiceTurn \cup {NoTurn}]
    /\ voiceBooked \in [VoiceBills -> Nat]
    /\ voiceDisturbed \subseteq VoiceBills
    /\ commands \in 0 .. MaxCommands
    /\ voiceFaults \in 0 .. MaxVoiceFaults

VoiceDraftsInit ==
    /\ drafted = {}
    /\ shopList = {}
    /\ context = [s \in Sessions |-> NoBill]
    /\ voiceTurn = [t \in VoiceTurns |-> NoTurn]
    /\ voiceBooked = [d \in VoiceBills |-> 0]
    /\ voiceDisturbed = {}
    /\ commands = 0
    /\ voiceFaults = 0

-----------------------------------------------------------------------------

\* The turns at work on d.
TurnsOn(d) == {t \in VoiceTurns : voiceTurn[t] # NoTurn /\ voiceTurn[t].of = d}

Confirms(t) == voiceTurn[t].op = "confirm"

BeginTurn(t, op, first, s, d) ==
    /\ voiceTurn[t] = NoTurn
    /\ voiceTurn' = [voiceTurn EXCEPT ![t] =
          [op |-> op, step |-> first, of |-> d, session |-> s, seen |-> {}]]
    /\ voiceDisturbed' =
          IF \/ op = "confirm" /\ TurnsOn(d) # {}
             \/ op = "confirm" /\ (\E x \in Sessions \ {s} : context[x] = d)
             \/ \E x \in TurnsOn(d) : Confirms(x)
          THEN voiceDisturbed \cup {d} ELSE voiceDisturbed
    /\ commands < MaxCommands /\ commands' = commands + 1
    /\ UNCHANGED <<shopList, context, voiceBooked, voiceFaults>>

AddDraft(t, s, d) ==
    /\ d \notin drafted
    /\ drafted' = drafted \cup {d}
    /\ BeginTurn(t, "add", "load", s, d)

\* The draft the user names, or the one of the session, or the only one there is.
Known(s) == shopList \cup ({context[s]} \ {NoBill})

ConfirmDraft(t, s, d) ==
    /\ d \in Known(s)
    /\ BeginTurn(t, "confirm", "book", s, d)
    /\ UNCHANGED drafted

CancelDraft(t, s, d) ==
    /\ d \in Known(s)
    /\ BeginTurn(t, "cancel", "load", s, d)
    /\ UNCHANGED drafted

\* GST, a discount, the type of supply: on the draft of the session, or one of the list.
EditDraft(t, s, d) ==
    /\ d \in (IF context[s] = NoBill THEN shopList ELSE {context[s]})
    /\ BeginTurn(t, "edit", "keep", s, d)
    /\ UNCHANGED drafted

\* The user taps a draft of the list.
SelectDraft(t, s, d) ==
    /\ d \in shopList
    /\ BeginTurn(t, "select", "context", s, d)
    /\ UNCHANGED drafted

CancelAll(s) ==
    /\ shopList # {}
    /\ shopList' = {}
    /\ context' = [context EXCEPT ![s] = NoBill]
    /\ commands < MaxCommands /\ commands' = commands + 1
    /\ UNCHANGED <<drafted, voiceTurn, voiceBooked, voiceDisturbed, voiceFaults>>

TurnAt(t, step) == voiceTurn[t] # NoTurn /\ voiceTurn[t].step = step
GoesOn(t, step) == voiceTurn' = [voiceTurn EXCEPT ![t].step = step]

\* The invoice of the draft as it was read, whatever has become of it since.
BookDraft(t) ==
    /\ TurnAt(t, "book")
    /\ GoesOn(t, "load")
    /\ voiceBooked' = [voiceBooked EXCEPT ![voiceTurn[t].of] = @ + 1]
    /\ UNCHANGED <<commands, drafted, shopList, context, voiceDisturbed, voiceFaults>>

VoiceFault == voiceFaults < MaxVoiceFaults /\ voiceFaults' = voiceFaults + 1

\* A list that cannot be read is taken for an empty one.
LoadDrafts(t) ==
    /\ TurnAt(t, "load")
    /\ \E seen \in {shopList, {}} :
          /\ (UNCHANGED voiceFaults /\ seen = shopList) \/ (VoiceFault /\ seen = {})
          /\ voiceTurn' = [voiceTurn EXCEPT ![t].step = "save", ![t].seen = seen]
    /\ UNCHANGED <<commands, drafted, shopList, context, voiceBooked, voiceDisturbed>>

\* A new draft replaces the one of the same customer; one that is edited is appended
\* if it is not in the list.
Saved(turn) ==
    CASE turn.op = "add" -> (turn.seen \ Alike[turn.of]) \cup {turn.of}
      [] turn.op = "edit" -> turn.seen \cup {turn.of}
      [] OTHER -> turn.seen \ {turn.of}

\* An edit has set the context before it saves.
AfterSave(t) ==
    voiceTurn' = [voiceTurn EXCEPT ![t] =
                    IF @.op = "edit" THEN NoTurn ELSE [@ EXCEPT !.step = "context"]]

SaveDrafts(t) ==
    LET turn == voiceTurn[t] IN
    /\ TurnAt(t, "save")
    /\ shopList' = Saved(turn)
    /\ AfterSave(t)
    /\ voiceDisturbed' = voiceDisturbed \cup (turn.seen \ shopList) \cup (shopList \ turn.seen)
    /\ UNCHANGED <<commands, drafted, context, voiceBooked, voiceFaults>>

\* Redis does not take the list: a warning, and the turn goes on.
SaveLost(t) ==
    LET turn == voiceTurn[t] IN
    /\ TurnAt(t, "save")
    /\ VoiceFault
    /\ AfterSave(t)
    /\ voiceDisturbed' = voiceDisturbed \cup {turn.of}
    /\ UNCHANGED <<commands, drafted, shopList, context, voiceBooked>>

\* Mutant: a confirmed draft stays in the context.
KeptContext(turn, old) ==
    CASE turn.op \in {"add", "edit", "select"} -> turn.of
      [] turn.op = "confirm" -> old
      [] turn.op = "cancel" -> IF old = turn.of THEN NoBill ELSE old

\* A confirmation clears the context of its session, whichever draft is there.
NewContext(turn, old) ==
    CASE turn.op \in {"add", "edit", "select"} -> turn.of
      [] turn.op = "confirm" -> NoBill
      [] turn.op = "cancel" -> IF old = turn.of THEN NoBill ELSE old

AfterContext(t) ==
    voiceTurn' = [voiceTurn EXCEPT ![t] =
                    IF @.step = "keep" THEN [@ EXCEPT !.step = "load"] ELSE NoTurn]

SetContext(t) ==
    LET turn == voiceTurn[t] IN
    /\ TurnAt(t, "context") \/ TurnAt(t, "keep")
    /\ context' = [context EXCEPT ![turn.session] = NewContext(turn, @)]
    /\ AfterContext(t)
    /\ UNCHANGED <<commands, drafted, shopList, voiceBooked, voiceDisturbed, voiceFaults>>

\* The memory of a session is one value too: a message noted meanwhile brings back the
\* context as it was before.
ContextOverwritten(t) ==
    /\ TurnAt(t, "context") \/ TurnAt(t, "keep")
    /\ VoiceFault
    /\ AfterContext(t)
    /\ voiceDisturbed' = voiceDisturbed \cup {voiceTurn[t].of}
    /\ UNCHANGED <<commands, drafted, shopList, context, voiceBooked>>

\* The invoice is refused; nothing else happens.
NotBookedByVoice(t) ==
    /\ TurnAt(t, "book")
    /\ voiceTurn' = [voiceTurn EXCEPT ![t] = NoTurn]
    /\ UNCHANGED <<commands, drafted, shopList, context, voiceBooked, voiceDisturbed, voiceFaults>>

\* The server stops: what the turn has done stays done.
TurnLost(t) ==
    /\ voiceTurn[t] # NoTurn
    /\ VoiceFault
    /\ voiceTurn' = [voiceTurn EXCEPT ![t] = NoTurn]
    /\ voiceDisturbed' = IF TurnAt(t, "book") THEN voiceDisturbed
                                              ELSE voiceDisturbed \cup {voiceTurn[t].of}
    /\ UNCHANGED <<commands, drafted, shopList, context, voiceBooked>>

\* Redis drops the list, or the context of a session, after a time without use.
ListExpires ==
    /\ shopList # {}
    /\ shopList' = {}
    /\ VoiceFault
    /\ UNCHANGED <<commands, drafted, context, voiceTurn, voiceBooked, voiceDisturbed>>
ContextExpires(s) ==
    /\ context[s] # NoBill
    /\ context' = [context EXCEPT ![s] = NoBill]
    /\ VoiceFault
    /\ UNCHANGED <<commands, drafted, shopList, voiceTurn, voiceBooked, voiceDisturbed>>

VoiceCommand(t, s, d) ==
    \/ AddDraft(t, s, d) \/ ConfirmDraft(t, s, d) \/ CancelDraft(t, s, d)
    \/ EditDraft(t, s, d) \/ SelectDraft(t, s, d)
VoiceTurnStep(t) ==
    \/ BookDraft(t) \/ LoadDrafts(t) \/ SaveDrafts(t) \/ SaveLost(t) \/ SetContext(t)
    \/ ContextOverwritten(t) \/ NotBookedByVoice(t) \/ TurnLost(t)

VoiceDraftsNext ==
    \/ \E t \in VoiceTurns :
          VoiceTurnStep(t) \/ (\E s \in Sessions, d \in VoiceBills : VoiceCommand(t, s, d))
    \/ \E s \in Sessions : CancelAll(s) \/ ContextExpires(s)
    \/ ListExpires

VoiceDraftsSpec == VoiceDraftsInit /\ [][VoiceDraftsNext]_voiceVars

-----------------------------------------------------------------------------

HeldByVoice(d) == d \in shopList \/ TurnsOn(d) # {} \/ (\E s \in Sessions : context[s] = d)

VoiceBillState == [d \in VoiceBills |->
    CASE d \notin drafted -> "absent"
      [] d \in drafted /\ HeldByVoice(d) -> "held"
      [] d \in drafted /\ ~HeldByVoice(d) -> IF voiceBooked[d] > 0 THEN "done" ELSE "dropped"]

VoiceDelivery == INSTANCE Delivery WITH
    Items <- VoiceBills, Droppable <- VoiceBills, state <- VoiceBillState,
    effects <- voiceBooked, disturbed <- voiceDisturbed

\* A bill drafted by voice that leaves the list and the contexts after an invoice was made
\* of it has become one invoice, unless two sessions had it, two turns worked on it at
\* once, or a turn lost what it or another had saved.
VoiceDraftIsBookedOnce == VoiceDelivery!Spec
=============================================================================
