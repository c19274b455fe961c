--------------------------- MODULE VoiceWorkProofs ---------------------------
(***************************************************************************)
(* The safety of the confirmations for any number of transcripts, and that *)
(* the drafts made by voice implement Delivery for any number of drafts,   *)
(* sessions and turns.                                                     *)
(*                                                                         *)
(* RiskyWasApproved is not inductive: it says nothing of the handlers that *)
(* are about to execute a command.  VoiceInv adds what they hold: at most  *)
(* one handler executes a command, none the pending one, and none a risky  *)
(* one without its yes.                                                    *)
(*                                                                         *)
(* VoiceDraftsInv says why an undisturbed draft is booked once: the turn   *)
(* that confirms it is alone with it, and a draft that was booked is only  *)
(* in the hands of that turn.                                              *)
(***************************************************************************)
EXTENDS VoiceWork, TLAPS

Executing(m) == turn[m].step = "execute"

\* A transcript still to be heard or understood has left no trace.
NewIsUntouched ==
    \A n \in Turns : turn[n].step \in {"unheard", "extract", "detect"} =>
        runs[n] = 0 /\ answer[n] = "none" /\ pending # n /\ ~turn[n].risky

LaterIsUnheard == \A n \in Turns : n > heard => turn[n].step = "unheard"

\* The pending command was neither answered nor run, and nobody is about to run it.
PendingIsOpen ==
    pending # 0 =>
        /\ turn[pending].step = "done"
        /\ answer[pending] = "none"
        /\ runs[pending] = 0
        /\ \A m \in Turns : Executing(m) => turn[m].of # pending

\* What a handler executes is its own command, or one that was confirmed.
ExecutesApproved ==
    \A m \in Turns : Executing(m) =>
        /\ turn[m].of \in Turns
        /\ runs[turn[m].of] = 0
        /\ turn[turn[m].of].risky => answer[turn[m].of] = "yes"
        /\ turn[turn[m].of].step = "done" \/ turn[m].of = m

ExecutedByOne ==
    \A m, k \in Turns : Executing(m) /\ Executing(k) /\ turn[m].of = turn[k].of => m = k

RunIsThrough == \A n \in Turns : runs[n] > 0 => turn[n].step = "done"

VoiceInv ==
    /\ TypeOK
    /\ NewIsUntouched
    /\ LaterIsUnheard
    /\ PendingIsOpen
    /\ ExecutesApproved
    /\ ExecutedByOne
    /\ RunIsThrough
    /\ RiskyWasApproved
    /\ PendingIsLastAsked

-----------------------------------------------------------------------------

LEMMA InitInv == Init => VoiceInv
<1> USE MaxTurnsAssumption
<1> QED BY DEF Init, VoiceInv, TypeOK, NewIsUntouched, LaterIsUnheard, PendingIsOpen,
       ExecutesApproved, ExecutedByOne, RunIsThrough, RiskyWasApproved,
       PendingIsLastAsked, Turns, Turn, Executing

LEMMA HearCommandPreserves ==
    ASSUME VoiceInv, HearCommand
    PROVE  VoiceInv'
<1> USE MaxTurnsAssumption DEF VoiceInv, TypeOK, Turns, Turn, Executing, HearCommand, Begin
<1>1. TypeOK'
  <2>1. heard + 1 \in Turns
    OBVIOUS
  <2>2. turn' \in [Turns -> Turn]
    BY <2>1
  <2>3. QED BY <2>2
<1>2. NewIsUntouched'
    BY DEF NewIsUntouched, LaterIsUnheard
<1>3. LaterIsUnheard'
    BY DEF LaterIsUnheard
<1>4. PendingIsOpen'
    BY DEF PendingIsOpen
<1>5. ExecutesApproved'
    BY DEF ExecutesApproved, LaterIsUnheard
<1>6. ExecutedByOne'
    BY DEF ExecutedByOne
<1>7. RunIsThrough'
    BY DEF RunIsThrough, LaterIsUnheard
<1>8. RiskyWasApproved'
    BY DEF RiskyWasApproved
<1>9. PendingIsLastAsked'
    BY DEF PendingIsLastAsked
<1>10. QED BY <1>1, <1>2, <1>3, <1>4, <1>5, <1>6, <1>7, <1>8, <1>9 DEF VoiceInv

LEMMA HearYesPreserves ==
    ASSUME VoiceInv, HearYes
    PROVE  VoiceInv'
<1> USE MaxTurnsAssumption DEF VoiceInv, TypeOK, Turns, Turn, Executing, HearYes
<1>1. TypeOK'
    OBVIOUS
<1>2. NewIsUntouched'
    BY DEF NewIsUntouched
<1>3. LaterIsUnheard'
    BY DEF LaterIsUnheard
<1>4. PendingIsOpen'
    BY DEF PendingIsOpen
<1>5. ExecutesApproved'
    BY DEF ExecutesApproved, PendingIsOpen, LaterIsUnheard
<1>6. ExecutedByOne'
    BY DEF ExecutedByOne, PendingIsOpen
<1>7. RunIsThrough'
    BY DEF RunIsThrough, LaterIsUnheard
<1>8. RiskyWasApproved'
    BY DEF RiskyWasApproved
<1>9. PendingIsLastAsked'
    BY DEF PendingIsLastAsked
<1>10. QED BY <1>1, <1>2, <1>3, <1>4, <1>5, <1>6, <1>7, <1>8, <1>9 DEF VoiceInv

LEMMA HearNoPreserves ==
    ASSUME VoiceInv, HearNo
    PROVE  VoiceInv'
<1> USE MaxTurnsAssumption DEF VoiceInv, TypeOK, Turns, Turn, Executing, HearNo, Begin
<1>1. TypeOK'
  <2>1. heard + 1 \in Turns
    OBVIOUS
  <2>2. turn' \in [Turns -> Turn]
    BY <2>1
  <2>3. QED BY <2>2
<1>2. NewIsUntouched'
    BY DEF NewIsUntouched
<1>3. LaterIsUnheard'
    BY DEF LaterIsUnheard
<1>4. PendingIsOpen'
    BY DEF PendingIsOpen
<1>5. ExecutesApproved'
    BY DEF ExecutesApproved, PendingIsOpen
<1>6. ExecutedByOne'
    BY DEF ExecutedByOne
<1>7. RunIsThrough'
    BY DEF RunIsThrough
<1>8. RiskyWasApproved'
    BY DEF RiskyWasApproved, PendingIsOpen
<1>9. PendingIsLastAsked'
    BY DEF PendingIsLastAsked
<1>10. QED BY <1>1, <1>2, <1>3, <1>4, <1>5, <1>6, <1>7, <1>8, <1>9 DEF VoiceInv

LEMMA HearOtherPreserves ==
    ASSUME VoiceInv, HearOther
    PROVE  VoiceInv'
<1> USE MaxTurnsAssumption DEF VoiceInv, TypeOK, Turns, Turn, Executing, HearOther, Begin
<1>1. TypeOK'
  <2>1. heard + 1 \in Turns
    OBVIOUS
  <2>2. turn' \in [Turns -> Turn]
    BY <2>1
  <2>3. QED BY <2>2
<1>2. NewIsUntouched'
    BY DEF NewIsUntouched, LaterIsUnheard
<1>3. LaterIsUnheard'
    BY DEF LaterIsUnheard
<1>4. PendingIsOpen'
    BY DEF PendingIsOpen, LaterIsUnheard
<1>5. ExecutesApproved'
    BY DEF ExecutesApproved, LaterIsUnheard
<1>6. ExecutedByOne'
    BY DEF ExecutedByOne
<1>7. RunIsThrough'
    BY DEF RunIsThrough, LaterIsUnheard
<1>8. RiskyWasApproved'
    BY DEF RiskyWasApproved
<1>9. PendingIsLastAsked'
    BY DEF PendingIsLastAsked
<1>10. QED BY <1>1, <1>2, <1>3, <1>4, <1>5, <1>6, <1>7, <1>8, <1>9 DEF VoiceInv

LEMMA DetectCommandPreserves ==
    ASSUME VoiceInv, NEW n \in Turns, DetectCommand(n)
    PROVE  VoiceInv'
<1> USE MaxTurnsAssumption DEF VoiceInv, TypeOK, Turns, Turn, Executing, DetectCommand
<1>1. TypeOK'
  <2>1. turn[n] \in Turn
    OBVIOUS
  <2>2. turn' \in [Turns -> Turn]
    BY <2>1
  <2>3. QED BY <2>2
<1>2. NewIsUntouched'
    BY DEF NewIsUntouched
<1>3. LaterIsUnheard'
    BY DEF LaterIsUnheard
<1>4. PendingIsOpen'
    BY DEF PendingIsOpen
<1>5. ExecutesApproved'
    BY DEF ExecutesApproved
<1>6. ExecutedByOne'
    BY DEF ExecutedByOne
<1>7. RunIsThrough'
    BY DEF RunIsThrough
<1>8. RiskyWasApproved'
    BY DEF RiskyWasApproved
<1>9. PendingIsLastAsked'
    BY DEF PendingIsLastAsked
<1>10. QED BY <1>1, <1>2, <1>3, <1>4, <1>5, <1>6, <1>7, <1>8, <1>9 DEF VoiceInv

LEMMA AskAgainPreserves ==
    ASSUME VoiceInv, NEW n \in Turns, AskAgain(n)
    PROVE  VoiceInv'
<1> USE MaxTurnsAssumption DEF VoiceInv, TypeOK, Turns, Turn, Executing, AskAgain
<1>1. TypeOK'
  <2>1. turn[n] \in Turn
    OBVIOUS
  <2>2. turn' \in [Turns -> Turn]
    BY <2>1
  <2>3. QED BY <2>2
<1>2. NewIsUntouched'
    BY DEF NewIsUntouched
<1>3. LaterIsUnheard'
    BY DEF LaterIsUnheard
<1>4. PendingIsOpen'
    BY DEF PendingIsOpen
<1>5. ExecutesApproved'
    BY DEF ExecutesApproved
<1>6. ExecutedByOne'
    BY DEF ExecutedByOne
<1>7. RunIsThrough'
    BY DEF RunIsThrough
<1>8. RiskyWasApproved'
    BY DEF RiskyWasApproved
<1>9. PendingIsLastAsked'
    BY DEF PendingIsLastAsked
<1>10. QED BY <1>1, <1>2, <1>3, <1>4, <1>5, <1>6, <1>7, <1>8, <1>9 DEF VoiceInv

LEMMA NotExecutedPreserves ==
    ASSUME VoiceInv, NEW n \in Turns, NotExecuted(n)
    PROVE  VoiceInv'
<1> USE MaxTurnsAssumption DEF VoiceInv, TypeOK, Turns, Turn, Executing, NotExecuted
<1>1. TypeOK'
  <2>1. turn[n] \in Turn
    OBVIOUS
  <2>2. turn' \in [Turns -> Turn]
    BY <2>1
  <2>3. QED BY <2>2
<1>2. NewIsUntouched'
    BY DEF NewIsUntouched
<1>3. LaterIsUnheard'
    BY DEF LaterIsUnheard
<1>4. PendingIsOpen'
    BY DEF PendingIsOpen
<1>5. ExecutesApproved'
    BY DEF ExecutesApproved
<1>6. ExecutedByOne'
    BY DEF ExecutedByOne
<1>7. RunIsThrough'
    BY DEF RunIsThrough
<1>8. RiskyWasApproved'
    BY DEF RiskyWasApproved
<1>9. PendingIsLastAsked'
    BY DEF PendingIsLastAsked
<1>10. QED BY <1>1, <1>2, <1>3, <1>4, <1>5, <1>6, <1>7, <1>8, <1>9 DEF VoiceInv

LEMMA AskToConfirmPreserves ==
    ASSUME VoiceInv, NEW n \in Turns, AskToConfirm(n)
    PROVE  VoiceInv'
<1> USE MaxTurnsAssumption DEF VoiceInv, TypeOK, Turns, Turn, Executing, AskToConfirm
<1>1. TypeOK'
  <2>1. turn[n] \in Turn
    OBVIOUS
  <2>2. turn' \in [Turns -> Turn]
    BY <2>1
  <2>3. QED BY <2>2
<1>2. NewIsUntouched'
    BY DEF NewIsUntouched
<1>3. LaterIsUnheard'
    BY DEF LaterIsUnheard
<1>4. PendingIsOpen'
    BY DEF PendingIsOpen, NewIsUntouched
<1>5. ExecutesApproved'
    BY DEF ExecutesApproved
<1>6. ExecutedByOne'
    BY DEF ExecutedByOne
<1>7. RunIsThrough'
    BY DEF RunIsThrough
<1>8. RiskyWasApproved'
    BY DEF RiskyWasApproved
<1>9. PendingIsLastAsked'
    BY DEF PendingIsLastAsked
<1>10. QED BY <1>1, <1>2, <1>3, <1>4, <1>5, <1>6, <1>7, <1>8, <1>9 DEF VoiceInv

LEMMA ExecuteAtOncePreserves ==
    ASSUME VoiceInv, NEW n \in Turns, ExecuteAtOnce(n)
    PROVE  VoiceInv'
<1> USE MaxTurnsAssumption DEF VoiceInv, TypeOK, Turns, Turn, Executing, ExecuteAtOnce
<1>1. TypeOK'
  <2>1. turn[n] \in Turn
    OBVIOUS
  <2>2. turn' \in [Turns -> Turn]
    <3>1. n \in 0 .. MaxTurns
      BY DEF Turns
    <3>2. ASSUME NEW m \in Turns
          PROVE  turn'[m] \in Turn
      BY <2>1, <3>1, <3>2
    <3>3. turn' = [m \in Turns |-> turn'[m]]
      OBVIOUS
    <3>4. QED BY <3>2, <3>3
  <2>3. QED BY <2>2
<1>2. NewIsUntouched'
    BY DEF NewIsUntouched
<1>3. LaterIsUnheard'
    BY DEF LaterIsUnheard
<1>4. PendingIsOpen'
    BY DEF PendingIsOpen
<1>5. ExecutesApproved'
    BY DEF ExecutesApproved, NewIsUntouched
<1>6. ExecutedByOne'
    BY DEF ExecutedByOne, ExecutesApproved
<1>7. RunIsThrough'
    BY DEF RunIsThrough
<1>8. RiskyWasApproved'
    BY DEF RiskyWasApproved
<1>9. PendingIsLastAsked'
    BY DEF PendingIsLastAsked
<1>10. QED BY <1>1, <1>2, <1>3, <1>4, <1>5, <1>6, <1>7, <1>8, <1>9 DEF VoiceInv

LEMMA ExecutePreserves ==
    ASSUME VoiceInv, NEW n \in Turns, Execute(n)
    PROVE  VoiceInv'
<1> USE MaxTurnsAssumption DEF VoiceInv, TypeOK, Turns, Turn, Executing, Execute
<1>1. TypeOK'
    BY DEF ExecutesApproved
<1>2. NewIsUntouched'
    BY DEF NewIsUntouched, ExecutesApproved
<1>3. LaterIsUnheard'
    BY DEF LaterIsUnheard
<1>4. PendingIsOpen'
    BY DEF PendingIsOpen
<1>5. ExecutesApproved'
    BY DEF ExecutesApproved, ExecutedByOne
<1>6. ExecutedByOne'
    BY DEF ExecutedByOne
<1>7. RunIsThrough'
    BY DEF RunIsThrough, ExecutesApproved
<1>8. RiskyWasApproved'
    BY DEF RiskyWasApproved, ExecutesApproved
<1>9. PendingIsLastAsked'
    BY DEF PendingIsLastAsked
<1>10. QED BY <1>1, <1>2, <1>3, <1>4, <1>5, <1>6, <1>7, <1>8, <1>9 DEF VoiceInv

LEMMA ExecuteFailsPreserves ==
    ASSUME VoiceInv, NEW n \in Turns, ExecuteFails(n)
    PROVE  VoiceInv'
<1> USE MaxTurnsAssumption DEF VoiceInv, TypeOK, Turns, Turn, Executing, ExecuteFails
<1>1. TypeOK'
  <2>1. turn[n] \in Turn
    OBVIOUS
  <2>2. turn' \in [Turns -> Turn]
    BY <2>1
  <2>3. QED BY <2>2
<1>2. NewIsUntouched'
    BY DEF NewIsUntouched
<1>3. LaterIsUnheard'
    BY DEF LaterIsUnheard
<1>4. PendingIsOpen'
    BY DEF PendingIsOpen
<1>5. ExecutesApproved'
    BY DEF ExecutesApproved
<1>6. ExecutedByOne'
    BY DEF ExecutedByOne
<1>7. RunIsThrough'
    BY DEF RunIsThrough
<1>8. RiskyWasApproved'
    BY DEF RiskyWasApproved
<1>9. PendingIsLastAsked'
    BY DEF PendingIsLastAsked
<1>10. QED BY <1>1, <1>2, <1>3, <1>4, <1>5, <1>6, <1>7, <1>8, <1>9 DEF VoiceInv

LEMMA NextPreserves ==
    ASSUME VoiceInv, [Next]_vars
    PROVE  VoiceInv'
<1>1. CASE Hear
  BY <1>1, HearCommandPreserves, HearYesPreserves, HearNoPreserves, HearOtherPreserves
     DEF Hear
<1>2. ASSUME NEW n \in Turns, Resume(n)
      PROVE  VoiceInv'
  BY <1>2, DetectCommandPreserves, AskAgainPreserves, NotExecutedPreserves,
     AskToConfirmPreserves, ExecuteAtOncePreserves, ExecutePreserves,
     ExecuteFailsPreserves
     DEF Resume
<1>3. CASE UNCHANGED vars
  BY <1>3 DEF vars, VoiceInv, TypeOK, NewIsUntouched, LaterIsUnheard, PendingIsOpen,
     ExecutesApproved, ExecutedByOne, RunIsThrough, RiskyWasApproved,
     PendingIsLastAsked, Executing
<1>4. QED BY <1>1, <1>2, <1>3 DEF Next

-----------------------------------------------------------------------------

\* The strengthened invariant holds in every behaviour of a session.
THEOREM VoiceInvariant == Spec => []VoiceInv
BY InitInv, NextPreserves, PTL DEF Spec

\* Type correctness, with no command given to the engine twice: HearYes clears the
\* pending command before its await.
THEOREM VoiceTypeOK == Spec => []TypeOK
<1>1. VoiceInv => TypeOK BY DEF VoiceInv
<1>2. QED BY <1>1, VoiceInvariant, PTL

\* A command that needs confirmation runs only after its own question was answered
\* with yes, for any number of overlapping transcripts.
THEOREM RiskyWasApprovedAlways == Spec => []RiskyWasApproved
<1>1. VoiceInv => RiskyWasApproved BY DEF VoiceInv
<1>2. QED BY <1>1, VoiceInvariant, PTL

\* What a yes would run is what the user was asked about last.
THEOREM PendingIsLastAskedAlways == Spec => []PendingIsLastAsked
<1>1. VoiceInv => PendingIsLastAsked BY DEF VoiceInv
<1>2. QED BY <1>1, VoiceInvariant, PTL

\* A command refused, executed or replaced never becomes pending again.
THEOREM DroppedStaysDroppedAlways == Spec => DroppedStaysDropped
<1> DEFINE Stays == \A n \in Turns : turn[n].step = "done" /\ pending # n => pending' # n
<1>1. ASSUME TypeOK, [Next]_vars
      PROVE  [Stays]_vars
  <2>1. CASE Hear
    BY <1>1, <2>1 DEF Hear, HearCommand, HearYes, HearNo, HearOther, Begin, Turns
  <2>2. ASSUME NEW m \in Turns, Resume(m)
        PROVE  Stays
    BY <1>1, <2>2 DEF Resume, DetectCommand, AskAgain, NotExecuted, AskToConfirm,
       ExecuteAtOnce, Execute, ExecuteFails, Turns
  <2>3. CASE UNCHANGED vars
    BY <2>3 DEF vars
  <2>4. QED BY <1>1, <2>1, <2>2, <2>3 DEF Next
<1>2. QED BY <1>1, VoiceTypeOK, PTL DEF Spec, DroppedStaysDropped

-----------------------------------------------------------------------------
(* The drafts. *)

\* What is held, read or worked on was drafted before.
WasDrafted ==
    /\ shopList \subseteq drafted
    /\ \A s \in Sessions : context[s] # NoBill => context[s] \in drafted
    /\ \A t \in VoiceTurns : voiceTurn[t] # NoTurn =>
          voiceTurn[t].of \in drafted /\ voiceTurn[t].seen \subseteq drafted
    /\ \A d \in VoiceBills : voiceBooked[d] > 0 => d \in drafted

TurnFits(t) ==
    voiceTurn[t] # NoTurn =>
        /\ voiceTurn[t].step = "book" => voiceTurn[t].op = "confirm"
        /\ voiceTurn[t].step = "keep" => voiceTurn[t].op = "edit"

\* The turn that confirms an undisturbed draft is alone with it.
ConfirmedAlone(d) ==
    \A t \in TurnsOn(d) : Confirms(t) =>
        /\ \A x \in TurnsOn(d) : x = t
        /\ \A s \in Sessions : context[s] = d => s = voiceTurn[t].session
        /\ voiceTurn[t].step = "book" => voiceBooked[d] = 0
        /\ voiceTurn[t].step = "context" => d \notin shopList

\* Once booked it is in the hands of that turn, or nowhere.
BookedIsGone(d) ==
    voiceBooked[d] > 0 =>
        \/ \E t \in TurnsOn(d) : Confirms(t) /\ voiceTurn[t].step # "book"
        \/ ~HeldByVoice(d)

VoiceDraftsInv ==
    /\ VoiceDraftsTypeOK
    /\ WasDrafted
    /\ \A t \in VoiceTurns : TurnFits(t)
    /\ \A d \in VoiceBills \ voiceDisturbed : ConfirmedAlone(d) /\ BookedIsGone(d)

LEMMA VoiceDraftsInitially == VoiceDraftsInit => VoiceDraftsInv
  BY VoiceDraftsAssumption DEF VoiceDraftsInit, VoiceDraftsInv, VoiceDraftsTypeOK, WasDrafted, TurnFits,
     ConfirmedAlone, BookedIsGone, TurnsOn, NoTurn

LEMMA VoiceDraftsPreserved ==
    ASSUME VoiceDraftsInv, [VoiceDraftsNext]_voiceVars
    PROVE  VoiceDraftsInv'
<1> USE VoiceDraftsAssumption DEF VoiceDraftsInv, VoiceDraftsTypeOK, WasDrafted, TurnFits, ConfirmedAlone,
        BookedIsGone, TurnsOn, NoTurn, VoiceTurn, Confirms, HeldByVoice, TurnAt, GoesOn, VoiceFault
<1>1. ASSUME NEW t \in VoiceTurns, NEW s \in Sessions, NEW d \in VoiceBills, AddDraft(t, s, d)
      PROVE VoiceDraftsInv'
  BY <1>1 DEF AddDraft, BeginTurn
<1>2. ASSUME NEW t \in VoiceTurns, NEW s \in Sessions, NEW d \in VoiceBills, ConfirmDraft(t, s, d)
      PROVE VoiceDraftsInv'
  BY <1>2 DEF ConfirmDraft, BeginTurn, Known
<1>3. ASSUME NEW t \in VoiceTurns, NEW s \in Sessions, NEW d \in VoiceBills, CancelDraft(t, s, d)
      PROVE VoiceDraftsInv'
  BY <1>3 DEF CancelDraft, BeginTurn, Known
<1>4. ASSUME NEW t \in VoiceTurns, NEW s \in Sessions, NEW d \in VoiceBills, EditDraft(t, s, d)
      PROVE VoiceDraftsInv'
  BY <1>4 DEF EditDraft, BeginTurn
<1>5. ASSUME NEW t \in VoiceTurns, NEW s \in Sessions, NEW d \in VoiceBills, SelectDraft(t, s, d)
      PROVE VoiceDraftsInv'
  BY <1>5 DEF SelectDraft, BeginTurn
<1>6. ASSUME NEW s \in Sessions, CancelAll(s) \/ ContextExpires(s) PROVE VoiceDraftsInv'
  BY <1>6 DEF CancelAll, ContextExpires
<1>7. CASE ListExpires
  BY <1>7 DEF ListExpires
<1>8. ASSUME NEW t \in VoiceTurns, BookDraft(t) PROVE VoiceDraftsInv'
  BY <1>8 DEF BookDraft
<1>9. ASSUME NEW t \in VoiceTurns, LoadDrafts(t) PROVE VoiceDraftsInv'
  <2>1. PICK seen \in {shopList, {}} :
           /\ (UNCHANGED voiceFaults /\ seen = shopList) \/ (VoiceFault /\ seen = {})
           /\ voiceTurn' = [voiceTurn EXCEPT ![t].step = "save", ![t].seen = seen]
    BY <1>9 DEF LoadDrafts
  <2>2. voiceTurn[t] \in VoiceTurn /\ voiceTurn[t].step = "load"
    BY <1>9 DEF LoadDrafts
  <2> DEFINE loaded == [op |-> voiceTurn[t].op, step |-> "save", of |-> voiceTurn[t].of,
                        session |-> voiceTurn[t].session, seen |-> seen]
  <2>3. voiceTurn' = [voiceTurn EXCEPT ![t] = loaded]
    <3>1. [voiceTurn[t] EXCEPT !.step = "save"] =
             [op |-> voiceTurn[t].op, step |-> "save", of |-> voiceTurn[t].of,
              session |-> voiceTurn[t].session, seen |-> voiceTurn[t].seen]
      BY <2>2
    <3>2. [[op |-> voiceTurn[t].op, step |-> "save", of |-> voiceTurn[t].of,
            session |-> voiceTurn[t].session, seen |-> voiceTurn[t].seen]
             EXCEPT !.seen = seen] = loaded
      OBVIOUS
    <3>3. [[voiceTurn[t] EXCEPT !.step = "save"] EXCEPT !.seen = seen] = loaded
      BY <3>1, <3>2
    <3>4. voiceTurn' = [x \in VoiceTurns |-> voiceTurn'[x]]
      BY <2>1
    <3>5. voiceTurn'[t] = loaded
      BY <2>1, <3>3
    <3>6. \A x \in VoiceTurns \ {t} : voiceTurn'[x] = voiceTurn[x]
      BY <2>1
    <3> HIDE DEF loaded
    <3>7. QED BY <3>4, <3>5, <3>6
  <2>4. UNCHANGED <<commands, drafted, shopList, context, voiceBooked, voiceDisturbed>>
    BY <1>9 DEF LoadDrafts
  <2>5. VoiceDraftsTypeOK'
    <3>1. loaded \in VoiceTurn
      BY <2>1, <2>2
    <3> HIDE DEF loaded
    <3>2. voiceTurn' \in [VoiceTurns -> VoiceTurn \cup {NoTurn}]
      BY <2>3, <3>1
    <3>3. QED BY <2>1, <2>4, <3>2
  <2>6. WasDrafted'
    BY <2>1, <2>2, <2>3, <2>4
  <2>7. \A x \in VoiceTurns : TurnFits(x)'
    BY <2>2, <2>3
  <2>8. \A d \in VoiceBills \ voiceDisturbed : ConfirmedAlone(d)' /\ BookedIsGone(d)'
    BY <2>2, <2>3, <2>4
  <2>9. QED BY <2>4, <2>5, <2>6, <2>7, <2>8
<1>10. ASSUME NEW t \in VoiceTurns, SaveDrafts(t) PROVE VoiceDraftsInv'
  BY <1>10 DEF SaveDrafts, AfterSave, Saved
<1>11. ASSUME NEW t \in VoiceTurns, SaveLost(t) PROVE VoiceDraftsInv'
  BY <1>11 DEF SaveLost, AfterSave
<1>12. ASSUME NEW t \in VoiceTurns, SetContext(t) PROVE VoiceDraftsInv'
  BY <1>12 DEF SetContext, AfterContext, NewContext
<1>13. ASSUME NEW t \in VoiceTurns, ContextOverwritten(t) PROVE VoiceDraftsInv'
  BY <1>13 DEF ContextOverwritten, AfterContext
<1>14. ASSUME NEW t \in VoiceTurns, NotBookedByVoice(t) \/ TurnLost(t) PROVE VoiceDraftsInv'
  BY <1>14 DEF NotBookedByVoice, TurnLost
<1>15. CASE UNCHANGED voiceVars
  BY <1>15 DEF voiceVars
<1>16. QED BY <1>1, <1>2, <1>3, <1>4, <1>5, <1>6, <1>7, <1>8, <1>9, <1>10, <1>11, <1>12, <1>13,
              <1>14, <1>15
       DEF VoiceDraftsNext, VoiceCommand, VoiceTurnStep

LEMMA VoiceBillStates ==
    ASSUME NEW d \in VoiceBills
    PROVE  /\ d \notin drafted => VoiceBillState[d] = "absent"
           /\ d \in drafted /\ HeldByVoice(d) => VoiceBillState[d] = "held"
           /\ d \in drafted /\ ~HeldByVoice(d) /\ voiceBooked[d] > 0 => VoiceBillState[d] = "done"
           /\ d \in drafted /\ ~HeldByVoice(d) /\ ~(voiceBooked[d] > 0) => VoiceBillState[d] = "dropped"
  BY DEF VoiceBillState

LEMMA VoiceBillStatesNext ==
    ASSUME NEW d \in VoiceBills
    PROVE  /\ d \notin drafted' => VoiceBillState'[d] = "absent"
           /\ d \in drafted' /\ HeldByVoice(d)' => VoiceBillState'[d] = "held"
           /\ d \in drafted' /\ ~HeldByVoice(d)' /\ voiceBooked'[d] > 0 => VoiceBillState'[d] = "done"
           /\ d \in drafted' /\ ~HeldByVoice(d)' /\ ~(voiceBooked'[d] > 0) => VoiceBillState'[d] = "dropped"
  BY DEF VoiceBillState

\* A step without booking that disturbs what comes to be held again is one of Delivery.
LEMMA VoiceMoves ==
    ASSUME VoiceDraftsInv, VoiceDraftsInv', NEW d \in VoiceBills,
           voiceBooked'[d] = voiceBooked[d],
           drafted \subseteq drafted',
           d \in drafted => d \in voiceDisturbed' \/ HeldByVoice(d) \/ ~HeldByVoice(d)',
           d \notin drafted /\ d \in drafted' => HeldByVoice(d)'
    PROVE  VoiceDelivery!Step(d)
<1> USE VoiceBillStates, VoiceBillStatesNext DEF VoiceDelivery!Step, VoiceDelivery!Goes, VoiceDelivery!State,
        VoiceDelivery!Rest
<1>1. voiceBooked[d] \in Nat
  BY DEF VoiceDraftsInv, VoiceDraftsTypeOK
<1>2. CASE d \notin drafted'
  BY <1>2
<1>3. CASE d \in drafted' /\ HeldByVoice(d)'
  BY <1>1, <1>3 DEF VoiceDelivery!Hold
<1>4. CASE d \in drafted' /\ ~HeldByVoice(d)' /\ voiceBooked[d] > 0
  BY <1>1, <1>4 DEF VoiceDelivery!Settle, VoiceDraftsInv, WasDrafted
<1>5. CASE d \in drafted' /\ ~HeldByVoice(d)' /\ ~(voiceBooked[d] > 0)
  BY <1>1, <1>5 DEF VoiceDelivery!Drop
<1>6. QED BY <1>2, <1>3, <1>4, <1>5

LEMMA VoiceBooks ==
    ASSUME VoiceDraftsInv, VoiceDraftsInv', NEW t \in VoiceTurns, BookDraft(t), NEW d \in VoiceBills
    PROVE  VoiceDelivery!Step(d)
<1> USE DEF VoiceDraftsInv, VoiceDraftsTypeOK, WasDrafted, BookDraft, TurnAt, GoesOn, HeldByVoice, TurnsOn,
        NoTurn, VoiceTurn
<1>1. HeldByVoice(d)' = HeldByVoice(d) /\ drafted' = drafted
  OBVIOUS
<1>2. CASE d # voiceTurn[t].of
  BY <1>1, <1>2, VoiceMoves
<1>3. CASE d = voiceTurn[t].of
  <2>1. d \in drafted /\ HeldByVoice(d)
    BY <1>3
  <2>2. VoiceBillState[d] = "held" /\ VoiceBillState'[d] = "held"
    BY <1>1, <2>1, VoiceBillStates, VoiceBillStatesNext
  <2>3. voiceBooked[d] = 0 \/ d \in voiceDisturbed'
    BY <1>3 DEF ConfirmedAlone, Confirms, TurnFits
  <2>4. QED BY <1>3, <2>2, <2>3 DEF VoiceDelivery!Step, VoiceDelivery!TakeEffect
<1>4. QED BY <1>2, <1>3

LEMMA VoiceDraftsDeliver ==
    ASSUME VoiceDraftsInv, VoiceDraftsInv', [VoiceDraftsNext]_voiceVars
    PROVE  [VoiceDelivery!Next]_(VoiceDelivery!vars)
<1>1. CASE UNCHANGED voiceVars
  BY <1>1 DEF voiceVars, VoiceDelivery!vars, VoiceBillState, HeldByVoice, TurnsOn
<1>2. SUFFICES ASSUME VoiceDraftsNext PROVE VoiceDelivery!Next
  BY <1>1
<1>3. VoiceBillState' \in [VoiceBills -> VoiceDelivery!State]
  BY DEF VoiceBillState, VoiceDelivery!State
<1>4. voiceBooked' \in [VoiceBills -> Nat]
  BY DEF VoiceDraftsInv, VoiceDraftsTypeOK
<1>5. voiceDisturbed \subseteq voiceDisturbed'
  <2>1. ASSUME NEW t \in VoiceTurns, NEW s \in Sessions, NEW x \in VoiceBills, VoiceCommand(t, s, x)
        PROVE voiceDisturbed \subseteq voiceDisturbed'
    <3>1. voiceDisturbed' = voiceDisturbed \cup {x} \/ voiceDisturbed' = voiceDisturbed
      BY <2>1 DEF VoiceCommand, AddDraft, ConfirmDraft, CancelDraft, EditDraft, SelectDraft, BeginTurn
    <3>2. QED BY <3>1
  <2>2. CASE ListExpires \/ \E s \in Sessions : CancelAll(s) \/ ContextExpires(s)
    BY <2>2 DEF CancelAll, ContextExpires, ListExpires
  <2>3. ASSUME NEW t \in VoiceTurns, VoiceTurnStep(t) PROVE voiceDisturbed \subseteq voiceDisturbed'
    BY <2>3 DEF VoiceTurnStep, BookDraft, LoadDrafts, SaveDrafts, SaveLost, SetContext, ContextOverwritten,
       NotBookedByVoice, TurnLost
  <2>4. QED BY <1>2, <2>1, <2>2, <2>3 DEF VoiceDraftsNext
<1>6. ASSUME NEW d \in VoiceBills PROVE VoiceDelivery!Step(d)
  <2> USE DEF VoiceDraftsInv, VoiceDraftsTypeOK, WasDrafted, HeldByVoice, TurnsOn, NoTurn, VoiceTurn, TurnAt
  <2>1. ASSUME NEW t \in VoiceTurns, NEW s \in Sessions, NEW x \in VoiceBills, VoiceCommand(t, s, x)
        PROVE VoiceDelivery!Step(d)
    <3>1. /\ voiceTurn[t] = NoTurn /\ voiceTurn'[t] # NoTurn /\ voiceTurn'[t].of = x
          /\ \A u \in VoiceTurns \ {t} : voiceTurn'[u] = voiceTurn[u]
          /\ UNCHANGED <<shopList, context, voiceBooked>>
          /\ drafted \subseteq drafted' /\ drafted' \subseteq drafted \cup {x}
      BY <2>1 DEF VoiceCommand, AddDraft, ConfirmDraft, CancelDraft, EditDraft, SelectDraft, BeginTurn
    <3>2. d \notin drafted /\ d \in drafted' => HeldByVoice(d)'
      BY <3>1
    <3>3. d \in drafted => d \in voiceDisturbed' \/ HeldByVoice(d) \/ ~HeldByVoice(d)'
      BY <2>1, <3>1 DEF VoiceCommand, AddDraft, ConfirmDraft, CancelDraft, EditDraft, SelectDraft, Known
    <3>4. QED BY <3>1, <3>2, <3>3, VoiceMoves
  <2>2. CASE ListExpires \/ \E s \in Sessions : CancelAll(s) \/ ContextExpires(s)
    <3>1. drafted' = drafted /\ voiceBooked' = voiceBooked /\ (HeldByVoice(d)' => HeldByVoice(d))
      BY <2>2, VoiceDraftsAssumption DEF CancelAll, ContextExpires, ListExpires
    <3>2. QED BY <3>1, VoiceMoves
  <2>3. ASSUME NEW t \in VoiceTurns, BookDraft(t) PROVE VoiceDelivery!Step(d)
    BY <2>3, VoiceBooks
  <2>4. ASSUME NEW t \in VoiceTurns, SaveDrafts(t) PROVE VoiceDelivery!Step(d)
    <3>1. drafted' = drafted /\ voiceBooked' = voiceBooked
      BY <2>4 DEF SaveDrafts
    <3>2. d \in voiceDisturbed' \/ HeldByVoice(d) \/ ~HeldByVoice(d)'
      BY <2>4 DEF SaveDrafts, AfterSave, Saved
    <3>3. QED BY <3>1, <3>2, VoiceMoves
  <2>5. ASSUME NEW t \in VoiceTurns, LoadDrafts(t) PROVE VoiceDelivery!Step(d)
    <3>1. drafted' = drafted /\ voiceBooked' = voiceBooked /\ (HeldByVoice(d)' => HeldByVoice(d))
      BY <2>5 DEF LoadDrafts
    <3>2. QED BY <3>1, VoiceMoves
  <2>6. ASSUME NEW t \in VoiceTurns, SetContext(t) PROVE VoiceDelivery!Step(d)
    <3>1. drafted' = drafted /\ voiceBooked' = voiceBooked /\ (HeldByVoice(d)' => HeldByVoice(d))
      BY <2>6, VoiceDraftsAssumption DEF SetContext, AfterContext, NewContext
    <3>2. QED BY <3>1, VoiceMoves
  <2>7. ASSUME NEW t \in VoiceTurns,
               SaveLost(t) \/ ContextOverwritten(t) \/ NotBookedByVoice(t) \/ TurnLost(t)
        PROVE VoiceDelivery!Step(d)
    <3>1. drafted' = drafted /\ voiceBooked' = voiceBooked /\ (HeldByVoice(d)' => HeldByVoice(d))
      BY <2>7 DEF SaveLost, ContextOverwritten, NotBookedByVoice, TurnLost, AfterSave, AfterContext
    <3>2. QED BY <3>1, VoiceMoves
  <2>8. QED BY <1>2, <2>1, <2>2, <2>3, <2>4, <2>5, <2>6, <2>7 DEF VoiceDraftsNext, VoiceTurnStep
<1>7. QED BY <1>3, <1>4, <1>5, <1>6 DEF VoiceDelivery!Next

-----------------------------------------------------------------------------

\* The turns on the drafts and the expiries of Redis keep the strengthened invariant.
THEOREM VoiceDraftsInvariant == VoiceDraftsSpec => []VoiceDraftsInv
BY VoiceDraftsInitially, VoiceDraftsPreserved, PTL DEF VoiceDraftsSpec

\* A draft that is confirmed, cancelled, edited or lost by the engine behaves as an item of
\* Delivery: once nobody holds it after an invoice was made of it, there is one invoice,
\* unless two sessions or two turns had it or what was saved got lost.
THEOREM VoiceDraftIsBookedOnceAlways == VoiceDraftsSpec => VoiceDraftIsBookedOnce
<1>1. VoiceDraftsInit => VoiceDelivery!Init
  BY DEF VoiceDraftsInit, VoiceDelivery!Init, VoiceBillState
<1>2. VoiceDraftsInv /\ VoiceDraftsInv' /\ [VoiceDraftsNext]_voiceVars
         => [VoiceDelivery!Next]_(VoiceDelivery!vars)
  BY VoiceDraftsDeliver
<1>3. QED BY <1>1, <1>2, VoiceDraftsInvariant, PTL
             DEF VoiceDraftsSpec, VoiceDraftIsBookedOnce, VoiceDelivery!Spec

\* No order of commands in two sessions makes a second invoice of a bill drafted by voice,
\* also while the draft is still there, unless its delivery was disturbed.
BookedAtMostOnce == \A d \in VoiceBills \ voiceDisturbed : voiceBooked[d] <= 1

\* It follows from what Delivery promises.
THEOREM BookedAtMostOnceAlways == VoiceDraftsSpec => []BookedAtMostOnce
<1>1. VoiceDelivery!DeliveryInv => BookedAtMostOnce
  BY DEF VoiceDelivery!DeliveryInv, BookedAtMostOnce
<1>2. QED BY <1>1, VoiceDraftIsBookedOnceAlways, VoiceDelivery!DeliveryInvariant, PTL
             DEF VoiceDraftIsBookedOnce

\* The commands of a session and the drafts of the shop are each as when they are alone.
THEOREM WorkIsBoth == WorkSpec => Spec /\ VoiceDraftsSpec
<1>1. WorkInit => Init /\ VoiceDraftsInit
  BY DEF WorkInit
<1>2. [WorkNext]_workVars => [Next]_vars /\ [VoiceDraftsNext]_voiceVars
  BY DEF WorkNext, workVars
<1>3. QED BY <1>1, <1>2, PTL DEF WorkSpec, Spec, VoiceDraftsSpec

\* Type correctness of both, with no command given to the engine twice: HearYes clears the
\* pending command before its await.
THEOREM WorkTypeOKAlways == WorkSpec => []WorkTypeOK
<1>1. VoiceDraftsInv => VoiceDraftsTypeOK
  BY DEF VoiceDraftsInv
<1>2. QED BY <1>1, WorkIsBoth, VoiceTypeOK, VoiceDraftsInvariant, PTL DEF WorkTypeOK

\* What the run of the whole checks holds of it for every value of the constants: a risky
\* command was approved, the pending one is the last asked about, one that was dropped stays
\* so, and a draft is booked once.
THEOREM WorkIsSafe ==
    WorkSpec => /\ []RiskyWasApproved /\ []PendingIsLastAsked
                /\ DroppedStaysDropped /\ VoiceDraftIsBookedOnce
BY WorkIsBoth, RiskyWasApprovedAlways, PendingIsLastAskedAlways, DroppedStaysDroppedAlways,
   VoiceDraftIsBookedOnceAlways, PTL
=============================================================================
