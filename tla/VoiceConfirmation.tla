------------------------- MODULE VoiceConfirmation -------------------------
(***************************************************************************)
(* One voice session: spoken commands, the confirmation the risky ones     *)
(* need, and the answers.                                                  *)
(*                                                                         *)
(* The WebSocket handler starts processFinalTranscript for every final     *)
(* transcript without waiting for the one before.  Each runs to its next   *)
(* await without interruption, and session.pendingIntent is read and       *)
(* written between awaits: of the language model, and of the business      *)
(* engine.  What the model makes of a transcript is its choice, and the    *)
(* same transcript may arrive twice, from the browser and from the STT.    *)
(***************************************************************************)
EXTENDS Integers

CONSTANT MaxTurns   \* bound: the transcripts of a behaviour

ASSUME MaxTurnsAssumption == MaxTurns \in Nat

VARIABLES
    heard,       \* how many final transcripts have arrived: turns 1 .. heard
    turn,        \* where the handler of each transcript stands
    pending,     \* session.pendingIntent: the turn that asked, 0 if there is none
    lastAsked,   \* history: the turn whose question was asked last
    answer,      \* history: how the question of a turn was answered
    runs         \* how often the command of a turn was given to the engine

vars == <<heard, turn, pending, lastAsked, answer, runs>>

Turns == 1 .. MaxTurns

(* step: where the handler is; of: whose command it executes; risky: did the *)
(* model make a command of it that needs confirmation?                       *)
Turn == [step : {"unheard", "extract", "detect", "execute", "done"},
         of : 0 .. MaxTurns, risky : BOOLEAN]

\* Type invariant: every turn has the shape the handler gives it, and no command is
\* given to the engine twice, however the answers overlap.
TypeOK ==
    /\ heard \in 0 .. MaxTurns
    /\ turn \in [Turns -> Turn]
    /\ pending \in 0 .. MaxTurns
    /\ lastAsked \in 0 .. MaxTurns
    /\ answer \in [Turns -> {"none", "yes", "no"}]
    /\ runs \in [Turns -> {0, 1}]

Init ==
    /\ heard = 0
    /\ turn = [n \in Turns |-> [step |-> "unheard", of |-> 0, risky |-> FALSE]]
    /\ pending = 0
    /\ lastAsked = 0
    /\ answer = [n \in Turns |-> "none"]
    /\ runs = [n \in Turns |-> 0]

-----------------------------------------------------------------------------
(* processFinalTranscript and handlePendingConfirmation, up to the first await *)

Begin(step) ==
    /\ heard < MaxTurns
    /\ heard' = heard + 1
    /\ turn' = [turn EXCEPT ![heard + 1].step = step]

\* Nothing is pending: the model extracts the command.
HearCommand ==
    /\ pending = 0
    /\ Begin("extract")
    /\ UNCHANGED <<pending, lastAsked, answer, runs>>

\* Mutant: the pending command is cleared when it has been executed.
HearYesKeeping ==
    /\ pending # 0
    /\ heard < MaxTurns
    /\ heard' = heard + 1
    /\ turn' = [turn EXCEPT ![heard + 1].step = "execute", ![heard + 1].of = pending]
    /\ answer' = [answer EXCEPT ![pending] = "yes"]
    /\ UNCHANGED <<pending, lastAsked, runs>>

\* "haan": the pending command is cleared, then given to the engine.
HearYes ==
    /\ pending # 0
    /\ heard < MaxTurns
    /\ heard' = heard + 1
    /\ turn' = [turn EXCEPT ![heard + 1].step = "execute", ![heard + 1].of = pending]
    /\ answer' = [answer EXCEPT ![pending] = "yes"]
    /\ pending' = 0
    /\ UNCHANGED <<lastAsked, runs>>

\* "nahi"
HearNo ==
    /\ pending # 0
    /\ Begin("done")
    /\ answer' = [answer EXCEPT ![pending] = "no"]
    /\ pending' = 0
    /\ UNCHANGED <<lastAsked, runs>>

\* Mutant: whatever is not a no is taken for a yes.
HearOtherAsYes ==
    /\ pending # 0
    /\ heard < MaxTurns
    /\ heard' = heard + 1
    /\ turn' = [turn EXCEPT ![heard + 1].step = "execute", ![heard + 1].of = pending]
    /\ pending' = 0
    /\ UNCHANGED <<lastAsked, answer, runs>>

\* Neither: the model is asked whether it is a new command.
HearOther ==
    /\ pending # 0
    /\ Begin("detect")
    /\ UNCHANGED <<pending, lastAsked, answer, runs>>

-----------------------------------------------------------------------------
(* ... and after it. *)

\* A confident, known intent: what is pending by now is dropped, and the transcript
\* processed from the start.
DetectCommand(n) ==
    /\ turn[n].step = "detect"
    /\ pending' = 0
    /\ turn' = [turn EXCEPT ![n].step = "extract"]
    /\ UNCHANGED <<heard, lastAsked, answer, runs>>

\* Mutant: asking again also puts the question back.
AskAgainRestoring(n) ==
    /\ turn[n].step = "detect"
    /\ turn' = [turn EXCEPT ![n].step = "done"]
    /\ pending' = lastAsked
    /\ UNCHANGED <<heard, lastAsked, answer, runs>>

\* Otherwise, or when the model fails: ask again.
AskAgain(n) ==
    /\ turn[n].step = "detect"
    /\ turn' = [turn EXCEPT ![n].step = "done"]
    /\ UNCHANGED <<heard, pending, lastAsked, answer, runs>>

\* Too uncertain, a switch of the language, or the model fails.
NotExecuted(n) ==
    /\ turn[n].step = "extract"
    /\ turn' = [turn EXCEPT ![n].step = "done"]
    /\ UNCHANGED <<heard, pending, lastAsked, answer, runs>>

\* Mutant: a question that is waiting for its answer is kept.
KeepOldest(n) ==
    /\ turn[n].step = "extract"
    /\ turn' = [turn EXCEPT ![n].step = "done", ![n].risky = TRUE]
    /\ pending' = IF pending = 0 THEN n ELSE pending
    /\ lastAsked' = n
    /\ UNCHANGED <<heard, answer, runs>>

\* A risky command, or a large amount: it becomes the pending one, whichever was.
AskToConfirm(n) ==
    /\ turn[n].step = "extract"
    /\ turn' = [turn EXCEPT ![n].step = "done", ![n].risky = TRUE]
    /\ pending' = n
    /\ lastAsked' = n
    /\ UNCHANGED <<heard, answer, runs>>

\* Any other command goes to the engine.
ExecuteAtOnce(n) ==
    /\ turn[n].step = "extract"
    /\ turn' = [turn EXCEPT ![n].step = "execute", ![n].of = n]
    /\ UNCHANGED <<heard, pending, lastAsked, answer, runs>>

\* The engine executes the command, or fails without effect.
Execute(n) ==
    /\ turn[n].step = "execute"
    /\ turn' = [turn EXCEPT ![n].step = "done"]
    /\ runs' = [runs EXCEPT ![turn[n].of] = @ + 1]
    /\ UNCHANGED <<heard, pending, lastAsked, answer>>

ExecuteFails(n) ==
    /\ turn[n].step = "execute"
    /\ turn' = [turn EXCEPT ![n].step = "done"]
    /\ UNCHANGED <<heard, pending, lastAsked, answer, runs>>

Hear == HearCommand \/ HearYes \/ HearNo \/ HearOther
Resume(n) ==
    \/ DetectCommand(n) \/ AskAgain(n) \/ NotExecuted(n) \/ AskToConfirm(n)
    \/ ExecuteAtOnce(n) \/ Execute(n) \/ ExecuteFails(n)

Next == Hear \/ \E n \in Turns : Resume(n)

Spec == Init /\ [][Next]_vars

-----------------------------------------------------------------------------

\* Safety: a command that needs confirmation runs only after its own question was answered
\* with yes: neither a yes to another question, nor a yes before a no, runs it.
RiskyWasApproved ==
    \A n \in Turns : turn[n].risky /\ runs[n] > 0 => answer[n] = "yes"

\* Safety: the command a yes would run is the one the user was asked about last, however
\* late the language model answered for the turns before.
PendingIsLastAsked == pending # 0 => pending = lastAsked

\* Action property: a command refused, executed, or dropped in favour of a newer one
\* does not come back, although the handlers of older transcripts are still awaiting
\* the model: only a turn that is not through can become pending.
DroppedStaysDropped ==
    [][\A n \in Turns : turn[n].step = "done" /\ pending # n => pending' # n]_vars
=============================================================================
